--------------------------- MODULE DocumentsProofs ---------------------------
(***************************************************************************)
(* For any documents: where the parser reads; that the location a device   *)
(* sends is the one that is reached; that the consumers of the parser are  *)
(* called for the items of a document, in order; that they keep of a       *)
(* reply, of its listing and of a description what these say; and that     *)
(* commands reach the services.                                            *)
(***************************************************************************)
EXTENDS Documents, Induction, SequenceTheorems

Phases == {"out", "name", "close", "att", "attname", "attsign", "attgap",
           "quoted", "bare", "gap", "cdata", "tail", "data", "done"}
CallRecords == [call : {"start", "data", "end"}, part : Seq(STRING)]

\* The two halves of ParserTypeOK: where the parser is, and what it has found.
PlaceOK ==
  /\ text \in Seq(STRING) /\ end \in 0 .. Len(text)
  /\ at \in 1 .. end + 2 /\ closes \in BOOLEAN /\ phase \in Phases
  /\ phase # "done" /\ at > end => phase \in Untested
FoundOK == from \in 1 .. end + 2 /\ calls \in Seq(CallRecords)

LEMMA Halves == ParserTypeOK <=> PlaceOK /\ FoundOK
  BY DEF ParserTypeOK, PlaceOK, FoundOK, Phases, CallRecords

\* A part of a sequence, which may be empty.
LEMMA PartOf ==
  ASSUME NEW S, NEW s \in Seq(S), NEW i \in Nat \ {0}, NEW j \in Int, j <= Len(s)
  PROVE  SubSeq(s, i, j) \in Seq(S)
<1>1. \A k \in i .. j : s[k] \in S
  <2> SUFFICES ASSUME NEW k \in i .. j PROVE s[k] \in S
    OBVIOUS
  <2>1. k \in 1 .. Len(s)
    BY LenProperties
  <2> QED
    BY <2>1, ElementOfSeq
<1> QED
  BY <1>1, SubSeqProperties

\* The name or text a call is made for has arrived.
LEMMA PartTyped ==
  ASSUME PlaceOK, FoundOK, at <= end
  PROVE  Part \in Seq(STRING)
<1>1. text \in Seq(STRING) /\ from \in Nat \ {0} /\ at - 1 \in Int /\ at - 1 <= Len(text)
  BY LenProperties DEF PlaceOK, FoundOK
<1> QED
  BY <1>1, PartOf DEF Part

\* Wherever a loop moves the parser to, it goes on inside the document, or at one
\* of the three places behind it.
Onward(n, p) ==
  \/ MoveTo(n, p) \/ MoveBefore(n, p) \/ MoveWithin(n, p)
  \/ p \in Untested /\ MoveOn(n, p)

LEMMA Moved ==
  ASSUME PlaceOK, NEW n \in {at, at + 1, at + 2}, NEW p \in Phases, Onward(n, p),
         at <= end \/ (n = at /\ p = "done")
  PROVE  PlaceOK' /\ end' = end
<1>1. end \in Nat /\ at \in 1 .. end + 2
  BY LenProperties DEF PlaceOK
<1>2. n \in 1 .. end + 2
  BY <1>1
<1>4. /\ text' = text /\ end' = end /\ closes' = closes /\ at' = n
      /\ phase' = "done" \/ (phase' = p /\ (n <= end \/ p \in Untested \/ p = "done"))
  <2>1. CASE MoveTo(n, p)
    BY <1>1, <1>2, <2>1 DEF MoveTo, Moves
  <2>2. CASE MoveBefore(n, p)
    BY <1>1, <1>2, <2>2 DEF MoveBefore, Moves
  <2>3. CASE MoveWithin(n, p)
    BY <1>1, <1>2, <2>3 DEF MoveWithin, Moves
  <2>4. CASE p \in Untested /\ MoveOn(n, p)
    BY <2>4 DEF MoveOn, Moves
  <2> QED
    BY <2>1, <2>2, <2>3, <2>4 DEF Onward
<1>5. phase' \in Phases /\ (phase' # "done" /\ n > end => phase' \in Untested)
  BY <1>1, <1>2, <1>4 DEF Phases
<1> QED
  BY <1>2, <1>4, <1>5 DEF PlaceOK

\* What a step may find: nothing, the beginning of a name or value, or a part
\* to make a call for.
LEMMA Found ==
  ASSUME PlaceOK, FoundOK, end' = end,
         \/ Quiet
         \/ at <= end /\ \/ Began(at + 1) \/ Began(at + 2)
                         \/ \E c \in {"start", "data", "end"} : Emit(c)
  PROVE  FoundOK'
<1>1. end \in Nat /\ at \in 1 .. end + 2
  BY LenProperties DEF PlaceOK
<1>2. CASE Quiet
  BY <1>2 DEF Quiet, FoundOK
<1>3. CASE at <= end /\ (Began(at + 1) \/ Began(at + 2))
  BY <1>1, <1>3 DEF Began, FoundOK
<1>4. CASE at <= end /\ \E c \in {"start", "data", "end"} : Emit(c)
  <2>1. PICK c \in {"start", "data", "end"} : Emit(c)
    BY <1>4
  <2>2. [call |-> c, part |-> Part] \in CallRecords
    BY <1>4, PartTyped DEF CallRecords
  <2>3. calls \in Seq(CallRecords)
    BY DEF FoundOK
  <2>4. calls' \in Seq(CallRecords)
    BY <2>1, <2>2, <2>3, AppendProperties DEF Emit
  <2> QED
    BY <2>1, <2>4 DEF FoundOK, Emit
<1> QED
  BY <1>2, <1>3, <1>4

-----------------------------------------------------------------------------
\* Each loop moves by at most two symbols and finds at most one thing; behind the
\* end the walk is over.
StepShape ==
  /\ phase # "done"
  /\ \/ /\ at <= end
        /\ \E n \in {at, at + 1, at + 2}, p \in Phases : Onward(n, p)
        /\ \/ Quiet
           \/ Began(at + 1) \/ Began(at + 2)
           \/ \E c \in {"start", "data", "end"} : Emit(c) /\ (c = "end" => closes)
     \/ at > end /\ MoveTo(at, "done") /\ Quiet

LEMMA Shapes == Parse => StepShape
<1> SUFFICES ASSUME Parse PROVE StepShape
  OBVIOUS
<1> USE DEF StepShape, Phases, In, Onward, Untested
<1>1. CASE Skip
  BY <1>1 DEF Skip
<1>2. CASE Tag
  BY <1>2 DEF Tag
<1>3. CASE Name
  BY <1>3 DEF Name
<1>4. CASE Start
  BY <1>4 DEF Start
<1>5. CASE CloseTag
  BY <1>5 DEF CloseTag
<1>6. CASE NoTag
  BY <1>6 DEF NoTag
<1>7. CASE CloseName
  BY <1>7 DEF CloseName
<1>8. CASE End
  BY <1>8 DEF End
<1>9. CASE AttSpace
  BY <1>9 DEF AttSpace
<1>10. CASE AttName
  BY <1>10 DEF AttName
<1>11. CASE AttSign
  BY <1>11 DEF AttSign
<1>12. CASE AttGap
  BY <1>12 DEF AttGap
<1>13. CASE AttQuote
  BY <1>13 DEF AttQuote
<1>14. CASE AttBare
  BY <1>14 DEF AttBare
<1>15. CASE AttValue
  BY <1>15 DEF AttValue
<1>16. CASE EmptyTag
  BY <1>16 DEF EmptyTag
<1>17. CASE OpenTag
  BY <1>17 DEF OpenTag
<1>18. CASE Gap
  BY <1>18 DEF Gap
<1>19. CASE Cdata
  BY <1>19 DEF Cdata
<1>20. CASE Plain
  BY <1>20 DEF Plain
<1>21. CASE CdataText
  BY <1>21 DEF CdataText
<1>22. CASE CdataEnds
  BY <1>22 DEF CdataEnds
<1>23. CASE AfterCdata
  BY <1>23 DEF AfterCdata
<1>24. CASE Text
  BY <1>24 DEF Text
<1>25. CASE TextEnds
  BY <1>25 DEF TextEnds
<1>26. CASE PastEnd
  BY <1>26 DEF PastEnd
<1> QED
  BY <1>1, <1>2, <1>3, <1>4, <1>5, <1>6, <1>7, <1>8, <1>9, <1>10, <1>11, <1>12,
     <1>13, <1>14, <1>15, <1>16, <1>17, <1>18, <1>19, <1>20, <1>21, <1>22, <1>23,
     <1>24, <1>25, <1>26 DEF Parse

LEMMA TextStays ==
  ASSUME Parse
  PROVE  text' = text /\ closes' = closes /\ end' = end
  BY Shapes DEF StepShape, Onward, MoveTo, MoveBefore, MoveWithin, MoveOn, Moves

\* A step of the parser keeps it inside the document.
LEMMA ParserStep ==
  ASSUME ParserTypeOK, Parse
  PROVE  ParserTypeOK'
<1>1. PlaceOK /\ FoundOK /\ StepShape
  BY Halves, Shapes
<1>2. ASSUME at <= end PROVE PlaceOK' /\ end' = end
  <2>0. at \in Nat /\ end \in Nat
    BY <1>1, LenProperties DEF PlaceOK
  <2>1. PICK n \in {at, at + 1, at + 2}, p \in Phases : Onward(n, p)
    BY <1>1, <1>2, <2>0 DEF StepShape
  <2> QED
    BY <1>1, <1>2, <2>1, Moved
<1>3. PlaceOK' /\ end' = end
  <2>1. CASE ~(at <= end)
    <3>1. MoveTo(at, "done") /\ "done" \in Phases /\ at \in {at, at + 1, at + 2}
      BY <1>1, <2>1 DEF StepShape, Phases
    <3>2. Onward(at, "done")
      BY <3>1 DEF Onward
    <3> QED
      BY <1>1, <3>1, <3>2, Moved
  <2> QED
    BY <1>2, <2>1
<1>4. FoundOK'
  BY <1>1, <1>3, Found DEF StepShape
<1> QED
  BY <1>3, <1>4, Halves, PTL

LEMMA Starts ==
  ASSUME NEW t \in Seq(STRING), NEW n \in 0 .. Len(t), NEW e \in BOOLEAN,
         ParserStarts(t, n, e)
  PROVE  ParserTypeOK' /\ closes' = e
<1>1. n \in Nat
  BY LenProperties
<1>2. calls' \in Seq(CallRecords)
  BY EmptySeq DEF ParserStarts
<1>3. PlaceOK' /\ FoundOK'
  BY <1>1, <1>2 DEF ParserStarts, PlaceOK, FoundOK, Phases
<1> QED
  BY <1>3, Halves, PTL DEF ParserStarts

LEMMA ParserStays ==
  ASSUME ParserTypeOK, UNCHANGED parser
  PROVE  ParserTypeOK'
<1>1. /\ text' = text /\ end' = end /\ at' = at /\ phase' = phase
      /\ from' = from /\ closes' = closes /\ calls' = calls
  BY DEF parser
<1> QED
  BY <1>1, Zenon DEF ParserTypeOK

-----------------------------------------------------------------------------
\* The listing of a reply becomes a document of its own: what is kept of a reply
\* is made of what arrived, and no end is told to its consumer.
PairRecords == [name : Seq(STRING), value : Seq(STRING)]
ReplyRecords == [curelt : Seq(STRING), list : Seq(PairRecords), portListing : Seq(STRING)]
ReplyOK == reply \in ReplyRecords /\ (stage = "reply" => closes = FALSE)

LEMMA CappedTyped ==
  ASSUME NEW s \in Seq(STRING), NEW m \in Nat
  PROVE  Capped(s, m) \in Seq(STRING)
<1>1. Len(s) \in Nat
  BY LenProperties
<1>2. Lesser(Len(s), m) \in Int /\ Lesser(Len(s), m) <= Len(s)
  BY <1>1 DEF Lesser
<1> QED
  BY <1>2, PartOf DEF Capped

LEMMA ReplyKept ==
  ASSUME NEW d \in ReplyRecords, NEW c \in CallRecords, c.call # "end"
  PROVE  ReplyCall(d, c) \in ReplyRecords
<1>1. c.part \in Seq(STRING) /\ Capped(c.part, ValueMax) \in Seq(STRING)
  BY CappedTyped, DocumentsAssumption DEF CallRecords
<1>2. CASE c.call = "start"
  BY <1>1, <1>2 DEF ReplyCall, ReplyRecords
<1>3. CASE c.call = "data"
  <2> DEFINE pair == [name |-> d.curelt, value |-> Capped(c.part, ValueMax)]
  <2>1. pair \in PairRecords
    BY <1>1 DEF PairRecords, ReplyRecords
  <2>2. <<pair>> \in Seq(PairRecords)
    BY <2>1
  <2>3. <<pair>> \o d.list \in Seq(PairRecords)
    BY <2>2, ConcatProperties DEF ReplyRecords
  <2>4. NameValueParserGetData(d, c.part) \in ReplyRecords
    BY <1>1, <2>3 DEF NameValueParserGetData, ReplyRecords
  <2> QED
    BY <1>3, <2>4 DEF ReplyCall
<1> QED
  BY <1>2, <1>3 DEF CallRecords

\* The last of the calls is the one that was just made.
LEMMA LastCall ==
  ASSUME ParserTypeOK, Parse, calls' # calls
  PROVE  Last(calls') \in CallRecords /\ (~closes => Last(calls').call # "end")
<1>1. PlaceOK /\ FoundOK /\ StepShape
  BY Halves, Shapes
<1>2. PICK c \in {"start", "data", "end"} : at <= end /\ Emit(c) /\ (c = "end" => closes)
  BY <1>1 DEF StepShape, Quiet, Began
<1> DEFINE e == [call |-> c, part |-> Part]
<1>3. e \in CallRecords
  BY <1>1, <1>2, PartTyped DEF CallRecords
<1>4. calls \in Seq(CallRecords) /\ calls' = Append(calls, e)
  BY <1>1, <1>2 DEF FoundOK, Emit
<1>5. Len(calls') = Len(calls) + 1 /\ calls'[Len(calls) + 1] = e
  BY <1>3, <1>4, AppendProperties
<1>6. Last(calls') = e
  BY <1>5 DEF Last
<1> QED
  BY <1>2, <1>3, <1>6

\* The rest of TypeOK, which no step of the parser touches.
RestOK ==
  /\ stage \in {"search", "fetch", "description", "known",
                "call", "reply", "listing", "over"}
  /\ answer \in Datagrams \cup {Nothing}
  /\ doc \in Descriptions \cup Replies \cup {Nothing}
  /\ ret \in {"none", "success", "error", "unknown"}

Inside == ParserTypeOK /\ RestOK /\ ReplyOK

LEMMA InsideHolds == Spec => []Inside
<1> USE DEF Inside
<1>1. Init => Inside
  <2> SUFFICES ASSUME Init PROVE Inside
    OBVIOUS
  <2>1. ParserTypeOK
    <3>1. text \in Seq(STRING) /\ Len(text) = 0 /\ calls \in Seq(CallRecords)
      BY EmptySeq DEF Init, ParserIdle
    <3>2. PlaceOK /\ FoundOK
      BY <3>1 DEF Init, ParserIdle, PlaceOK, FoundOK, Phases
    <3> QED
      BY <3>2, Halves
  <2>2. RestOK
    BY DEF Init, RestOK
  <2>3. ReplyOK
    BY EmptySeq DEF Init, NoReply, ReplyOK, ReplyRecords
  <2> QED
    BY <2>1, <2>2, <2>3
<1>2. Inside /\ [Next]_vars => Inside'
  <2> SUFFICES ASSUME ParserTypeOK, RestOK, ReplyOK, [Next]_vars PROVE Inside'
    OBVIOUS
  <2> USE DEF Goto
  <2>1. CASE UNCHANGED vars
    <3>1. ParserTypeOK'
      BY <2>1, ParserStays DEF vars
    <3> QED
      BY <2>1, <3>1 DEF vars, parser, found, device, told, RestOK, ReplyOK
  <2>2. CASE Hear
    BY <2>2, ParserStays DEF Hear, device, told, RestOK, ReplyOK
  <2>3. CASE BadUrl
    BY <2>3, ParserStays DEF BadUrl, found, device, told, RestOK, ReplyOK
  <2>4. CASE Fetch
    <3>1. PICK d \in Descriptions : \E n \in 0 .. Len(d.text) :
            doc' = d /\ ParserStarts(d.text, n, TRUE)
      BY <2>4 DEF Fetch
    <3>2. ParserTypeOK'
      BY <3>1, Starts, DocumentsAssumption
    <3> QED
      BY <2>4, <3>1, <3>2 DEF Fetch, device, told, RestOK, ReplyOK
  <2>5. CASE ReadDescription
    <3>1. ParserTypeOK'
      BY <2>5, ParserStep DEF ReadDescription
    <3> QED
      BY <2>5, <3>1 DEF ReadDescription, found, told, RestOK, ReplyOK
  <2>6. CASE TakeDevice
    BY <2>6, ParserStays DEF TakeDevice, Uses, found, told, RestOK, ReplyOK
  <2>7. CASE TakeSecond
    BY <2>7, ParserStays DEF TakeSecond, Uses, found, told, RestOK, ReplyOK
  <2>8. CASE PassOver
    BY <2>8, ParserStays DEF PassOver, found, device, told, RestOK, ReplyOK
  <2>9. CASE Call
    <3>1. PICK d \in Replies : \E n \in 0 .. Len(d.text) :
            doc' = d /\ ParserStarts(d.text, n, FALSE)
      BY <2>9 DEF Call
    <3>2. ParserTypeOK' /\ closes' = FALSE
      BY <3>1, Starts, DocumentsAssumption
    <3> QED
      BY <2>9, <3>1, <3>2 DEF Call, found, device, told, RestOK, ReplyOK
  <2>10. CASE ReadReply
    <3>1. ParserTypeOK' /\ closes' = closes
      BY <2>10, TextStays, ParserStep DEF ReadReply
    <3>2. reply' \in ReplyRecords
      <4>1. CASE calls' = calls
        BY <2>10, <4>1 DEF ReadReply, ReplyOK
      <4>2. CASE calls' # calls
        <5>1. Last(calls') \in CallRecords /\ Last(calls').call # "end"
          BY <2>10, <4>2, LastCall DEF ReadReply, ReplyOK
        <5> QED
          BY <2>10, <4>2, <5>1, ReplyKept DEF ReadReply, ReplyOK
      <4> QED
        BY <4>1, <4>2
    <3> QED
      BY <2>10, <3>1, <3>2 DEF ReadReply, found, device, RestOK, ReplyOK
  <2>11. CASE Replied
    <3>1. ret' \in {"success", "error", "unknown"}
      BY <2>11 DEF Replied
    <3>2. CASE reply.portListing # <<>>
      <4>1. reply.portListing \in Seq(STRING)
        BY DEF ReplyOK, ReplyRecords
      <4>2. Len(reply.portListing) \in 0 .. Len(reply.portListing)
        BY <4>1, LenProperties
      <4>3. ParserTypeOK' /\ stage' = "listing"
        BY <2>11, <3>2, <4>1, <4>2, Starts DEF Replied
      <4> QED
        BY <2>11, <3>1, <4>3 DEF Replied, found, device, RestOK, ReplyOK
    <3>3. CASE reply.portListing = <<>>
      <4>1. ParserTypeOK' /\ stage' = "over"
        BY <2>11, <3>3, ParserStays DEF Replied
      <4> QED
        BY <2>11, <3>1, <4>1 DEF Replied, found, device, RestOK, ReplyOK
    <3> QED
      BY <3>2, <3>3
  <2>12. CASE ReadListing
    <3>1. ParserTypeOK'
      BY <2>12, ParserStep DEF ReadListing
    <3> QED
      BY <2>12, <3>1 DEF ReadListing, found, device, RestOK, ReplyOK
  <2>13. CASE Listed
    BY <2>13, ParserStays DEF Listed, found, device, told, RestOK, ReplyOK
  <2> QED
    BY <2>1, <2>2, <2>3, <2>4, <2>5, <2>6, <2>7, <2>8, <2>9, <2>10, <2>11, <2>12,
       <2>13 DEF Next, Ended
<1> HIDE DEF Inside
<1> QED
  BY <1>1, <1>2, PTL DEF Spec

\* Whatever the documents and wherever they are cut, also when a value of a reply
\* is the next document, the parser is inside the part that has arrived, but for
\* three places where it moves on without a test and reads up to two symbols
\* behind it: a name behind a colon, an attribute behind its equal sign, a section
\* behind its beginning (minixml.c:39-216, there 130, 60 and 154;
\* upnpcommands.c:731-738).
THEOREM ParserInside == Spec => []TypeOK
<1>1. Inside => TypeOK
  BY DEF Inside, RestOK, TypeOK
<1> QED
  BY <1>1, InsideHolds, PTL

-----------------------------------------------------------------------------
(* Searching a text.                                                        *)

LEMMA MinIs ==
  ASSUME NEW I \in SUBSET Nat, NEW k \in I, \A j \in I : k <= j
  PROVE  Min(I) = k
<1> DEFINE m == CHOOSE x \in I : \A y \in I : x <= y
<1>1. m \in I /\ \A y \in I : m <= y
  BY Zenon
<1>2. m <= k /\ k <= m /\ m \in Nat /\ k \in Nat
  BY <1>1
<1> HIDE DEF m
<1>3. m = k
  BY <1>2
<1> QED
  BY <1>3 DEF Min, m

LEMMA MinAmong ==
  ASSUME NEW I \in SUBSET Nat, I # {}
  PROVE  Min(I) \in I
<1>1. PICK k \in I : \A j \in I : k <= j
  BY Smallest
<1>2. Min(I) = k
  BY <1>1, MinIs
<1> QED
  BY <1>2

\* The first place of a character.
LEMMA FindIs ==
  ASSUME NEW s, Len(s) \in Nat, NEW c, NEW k \in 1 .. Len(s), s[k] = c,
         \A j \in 1 .. k - 1 : s[j] # c
  PROVE  Find(s, c) = k
<1> DEFINE I == {j \in 1 .. Len(s) : s[j] = c}
<1>1. I \in SUBSET Nat /\ k \in I
  OBVIOUS
<1>2. ASSUME NEW j \in I
      PROVE  k <= j
  <2>1. j \in Nat /\ j >= 1 /\ ~(j \in 1 .. k - 1) /\ k \in Nat
    OBVIOUS
  <2> HIDE DEF I
  <2> QED BY <2>1
<1>3. Min(I) = k
  <2> HIDE DEF I
  <2> QED BY <1>1, <1>2, MinIs
<1>4. Find(s, c) = IF I # {} THEN Min(I) ELSE 0
  BY Zenon DEF Find, SelectInSeq
<1> HIDE DEF I
<1> QED
  BY <1>1, <1>3, <1>4

LEMMA FindGives ==
  ASSUME NEW s, Len(s) \in Nat, NEW c
  PROVE  Find(s, c) = 0 \/ (Find(s, c) \in 1 .. Len(s) /\ s[Find(s, c)] = c)
<1> DEFINE I == {j \in 1 .. Len(s) : s[j] = c}
<1>1. I \in SUBSET Nat
  OBVIOUS
<1>2. Find(s, c) = IF I # {} THEN Min(I) ELSE 0
  BY Zenon DEF Find, SelectInSeq
<1>3. I # {} => Min(I) \in I
  <2> HIDE DEF I
  <2> QED BY <1>1, MinAmong
<1> QED
  BY <1>2, <1>3

\* What is behind the blanks a text begins with.
LEMMA TrimmedIs ==
  ASSUME NEW s, Len(s) \in Nat, NEW k \in 1 .. Len(s), s[k] # Blank,
         \A j \in 1 .. k - 1 : s[j] = Blank
  PROVE  Trimmed(s) = From(s, k)
<1> DEFINE I == {j \in 1 .. Len(s) : s[j] # Blank}
           m == SelectInSeq(s, LAMBDA c : c # Blank)
<1>1. I \in SUBSET Nat /\ k \in I
  OBVIOUS
<1>2. ASSUME NEW j \in I
      PROVE  k <= j
  <2>1. j \in Nat /\ j >= 1 /\ ~(j \in 1 .. k - 1) /\ k \in Nat
    OBVIOUS
  <2> HIDE DEF I
  <2> QED BY <2>1
<1>3. Min(I) = k
  <2> HIDE DEF I
  <2> QED BY <1>1, <1>2, MinIs
<1>4. m = IF I # {} THEN Min(I) ELSE 0
  BY Zenon DEF SelectInSeq
<1>5. m = k /\ k # 0
  <2> HIDE DEF I, m
  <2> QED BY <1>1, <1>3, <1>4
<1>6. Trimmed(s) = IF m = 0 THEN <<>> ELSE From(s, m)
  BY Zenon DEF Trimmed
<1> HIDE DEF m
<1> QED
  BY <1>5, <1>6

LEMMA TrimmedTyped ==
  ASSUME NEW s \in Seq(STRING)
  PROVE  Trimmed(s) \in Seq(STRING)
<1> DEFINE I == {j \in 1 .. Len(s) : s[j] # Blank}
           m == SelectInSeq(s, LAMBDA c : c # Blank)
<1>1. I \in SUBSET Nat /\ Len(s) \in Nat
  BY LenProperties
<1>2. m = IF I # {} THEN Min(I) ELSE 0
  BY Zenon DEF SelectInSeq
<1>3. I # {} => Min(I) \in I
  <2> HIDE DEF I
  <2> QED BY <1>1, MinAmong
<1>4. m = 0 \/ m \in Nat \ {0}
  BY <1>2, <1>3
<1>5. Trimmed(s) = IF m = 0 THEN <<>> ELSE From(s, m)
  BY Zenon DEF Trimmed
<1> HIDE DEF I, m
<1>6. CASE m = 0
  BY <1>5, <1>6
<1>7. CASE m # 0
  <2>1. SubSeq(s, m, Len(s)) \in Seq(STRING)
    BY <1>1, <1>4, <1>7, PartOf
  <2> QED
    BY <1>5, <1>7, <2>1 DEF From
<1> QED
  BY <1>6, <1>7

\* The digits a text begins with, up to the one before k.
LEMMA NumeralIs ==
  ASSUME NEW s, Len(s) \in Nat, NEW k \in 1 .. Len(s) + 1,
         \A j \in 1 .. k - 1 : IsDigit(s[j]),
         k <= Len(s) => ~IsDigit(s[k])
  PROVE  Numeral(s) = IF k = Len(s) + 1 THEN s ELSE SubSeq(s, 1, k - 1)
<1> DEFINE I == {j \in 1 .. Len(s) : ~IsDigit(s[j])}
           m == SelectInSeq(s, LAMBDA c : ~IsDigit(c))
<1>1. I \in SUBSET Nat
  OBVIOUS
<1>2. m = IF I # {} THEN Min(I) ELSE 0
  BY Zenon DEF SelectInSeq
<1>3. Numeral(s) = IF m = 0 THEN s ELSE SubSeq(s, 1, m - 1)
  BY Zenon DEF Numeral
<1>4. CASE k = Len(s) + 1
  <2>1. I = {}
    BY <1>4
  <2> HIDE DEF I, m
  <2> QED BY <1>2, <1>3, <1>4, <2>1
<1>5. CASE k # Len(s) + 1
  <2>1. k \in I
    BY <1>5
  <2>2. ASSUME NEW j \in I
        PROVE  k <= j
    <3>1. j \in Nat /\ j >= 1 /\ ~(j \in 1 .. k - 1) /\ k \in Nat
      OBVIOUS
    <3> HIDE DEF I
    <3> QED BY <3>1
  <2> HIDE DEF I, m
  <2>3. Min(I) = k
    BY <1>1, <2>1, <2>2, MinIs
  <2>4. m = k /\ k # 0
    BY <1>2, <2>1, <2>3
  <2> QED
    BY <1>3, <1>5, <2>4
<1> QED
  BY <1>4, <1>5

-----------------------------------------------------------------------------
(* The location of an answer.                                               *)

SearchRecords ==
  [line : Nat, colon : Nat, location : Seq(Seq(STRING)), st : Seq(Seq(STRING))]
AtStart == [line |-> 1, colon |-> 0, location |-> NotGiven, st |-> NotGiven]

LEMMA SearchTyped ==
  ASSUME NEW t \in Seq(STRING), NEW i \in 1 .. Len(t), NEW d \in SearchRecords
  PROVE  SearchChar(t, d, i) \in SearchRecords
<1> DEFINE value == Trimmed(SubSeq(t, d.colon + 1, i - 1))
<1>1. Len(t) \in Nat /\ i \in Nat /\ d.colon \in Nat
  BY LenProperties DEF SearchRecords
<1>2. SubSeq(t, d.colon + 1, i - 1) \in Seq(STRING)
  BY <1>1, PartOf
<1>3. Given(value) \in Seq(Seq(STRING))
  <2>1. value \in Seq(STRING)
    BY <1>2, TrimmedTyped
  <2> HIDE DEF value
  <2>2. \A S : \A v \in S : <<v>> \in Seq(S)
    OBVIOUS
  <2> QED
    BY <2>1, <2>2 DEF Given
<1>5. d \in SearchRecords /\ [d EXCEPT !.colon = IF @ = 0 THEN i ELSE @] \in SearchRecords
  BY <1>1 DEF SearchRecords
<1>4. SearchChar(t, d, i) =
        IF t[i] = ":" THEN [d EXCEPT !.colon = IF @ = 0 THEN i ELSE @]
        ELSE IF t[i] # Eol THEN d
        ELSE [line |-> i + 1, colon |-> 0,
              location |-> IF d.colon # 0 /\ t[d.line] = "location" THEN Given(value) ELSE d.location,
              st |-> IF d.colon # 0 /\ t[d.line] = "st" THEN Given(value) ELSE d.st]
  BY Zenon DEF SearchChar
<1> HIDE DEF value
<1>6. CASE t[i] = ":" \/ t[i] # Eol
  BY <1>4, <1>5, <1>6
<1>7. CASE ~(t[i] = ":" \/ t[i] # Eol)
  BY <1>1, <1>3, <1>4, <1>7 DEF SearchRecords
<1> QED
  BY <1>6, <1>7

\* What is known of an answer after each of its symbols.
LEMMA SearchUnfolds ==
  ASSUME NEW t \in Seq(STRING), NEW n \in 0 .. Len(t)
  PROVE  \E w : /\ SearchReply(t, n) = w[n] /\ w[0] = AtStart
               /\ \A i \in 0 .. n - 1 : w[i + 1] = SearchChar(t, w[i], i + 1)
<1> DEFINE
      Is(g) == g = [i \in 0 .. n |->
                      IF i = 0 THEN AtStart ELSE SearchChar(t, g[i - 1], i)]
      F == [i \in 1 .. n |-> [d \in SearchRecords |-> SearchChar(t, d, i)]]
      w == CHOOSE f : Is(f)
<1>1. n \in Nat /\ 1 .. n \subseteq 1 .. Len(t)
  BY LenProperties
<1>2. AtStart \in SearchRecords
  BY EmptySeq DEF AtStart, SearchRecords, NotGiven
<1>3. F \in [1 .. n -> [SearchRecords -> SearchRecords]]
  BY <1>1, SearchTyped
<1>4. HasRecursion(SearchRecords, AtStart, n, F)
  <2> HIDE DEF F
  <2> QED BY <1>1, <1>2, <1>3, RecursionExists
<1>5. PICK g \in [0 .. n -> SearchRecords] :
        g[0] = AtStart /\ \A i \in 1 .. n : g[i] = F[i][g[i - 1]]
  BY <1>4 DEF HasRecursion
<1>6. ASSUME NEW i \in 1 .. n
      PROVE  g[i] = SearchChar(t, g[i - 1], i)
  <2>1. g[i - 1] \in SearchRecords
    BY <1>1
  <2>2. F[i] = [d \in SearchRecords |-> SearchChar(t, d, i)]
    OBVIOUS
  <2> HIDE DEF F
  <2> QED BY <1>5, <2>1, <2>2
<1>7. g = [i \in 0 .. n |-> IF i = 0 THEN AtStart ELSE SearchChar(t, g[i - 1], i)]
  BY <1>1, <1>5, <1>6
<1>8. Is(g)
  BY <1>7
<1>9. Is(w)
  <2> HIDE DEF Is
  <2> QED BY <1>8, Zenon
<1>10. \A i \in 0 .. n : w[i] = IF i = 0 THEN AtStart ELSE SearchChar(t, w[i - 1], i)
  <2> HIDE DEF w
  <2> QED BY <1>9
<1>11. SearchReply(t, n) = w[n]
  BY Zenon DEF SearchReply, AtStart
<1> HIDE DEF w
<1>12. w[0] = AtStart
  BY <1>1, <1>10
<1>13. ASSUME NEW i \in 0 .. n - 1
       PROVE  w[i + 1] = SearchChar(t, w[i], i + 1)
  <2>1. i + 1 \in 0 .. n /\ i + 1 # 0 /\ (i + 1) - 1 = i
    BY <1>1
  <2> QED BY <1>10, <2>1
<1> QED
  BY <1>11, <1>12, <1>13

\* Where the search is in an answer, after i symbols: in a line, with its first
\* colon if that has come.
InLine(t, l, c, i) ==
  /\ l \in 1 .. i + 1 /\ LineStarts(t, l)
  /\ \A j \in l .. i : t[j] # Eol
  /\ c = 0 => \A j \in l .. i : t[j] # ":"
  /\ c # 0 => c \in l .. i /\ t[c] = ":" /\ \A j \in l .. c - 1 : t[j] # ":"

LEMMA ColonRead ==
  ASSUME NEW t, NEW i \in Nat \ {0}, NEW l \in Nat, NEW c \in Nat,
         InLine(t, l, c, i - 1), t[i] = ":"
  PROVE  InLine(t, l, IF c = 0 THEN i ELSE c, i)
<1>1. l \in 1 .. i /\ \A j \in l .. i : j = i \/ j \in l .. i - 1
  BY DEF InLine
<1>2. t[i] # Eol
  BY DEF Eol
<1>3. CASE c = 0
  BY <1>1, <1>2, <1>3 DEF InLine
<1>4. CASE c # 0
  BY <1>1, <1>2, <1>4 DEF InLine
<1> QED BY <1>3, <1>4

LEMMA OtherRead ==
  ASSUME NEW t, NEW i \in Nat \ {0}, NEW l \in Nat, NEW c \in Nat,
         InLine(t, l, c, i - 1), t[i] # ":", t[i] # Eol
  PROVE  InLine(t, l, c, i)
<1>1. l \in 1 .. i /\ \A j \in l .. i : j = i \/ j \in l .. i - 1
  BY DEF InLine
<1>3. CASE c = 0
  BY <1>1, <1>3 DEF InLine
<1>4. CASE c # 0
  BY <1>1, <1>4 DEF InLine
<1> QED BY <1>3, <1>4

LEMMA EndRead ==
  ASSUME NEW t, NEW i \in Nat \ {0}, t[i] = Eol
  PROVE  InLine(t, i + 1, 0, i)
<1>1. (i + 1) - 1 = i /\ i + 1 \in 1 .. i + 1 /\ i + 1 .. i = {}
  OBVIOUS
<1> QED BY <1>1 DEF InLine, LineStarts

LEMMA BlankIsNoEnd == Blank # Eol
  BY Zenon DEF Blank, Eol

\* A part of a text, and a part of it from k to q, in the text from m to n.
IsPart(t, i, j) == 1 <= i /\ i <= j + 1 /\ j <= Len(t)
Within(i, j, k, q, m, n) ==
  1 <= k /\ k <= q + 1 /\ q <= j - i + 1 /\ m = i + k - 1 /\ n = i + q - 1
SamePart(t, i, j, k, q, m, n) == SubSeq(SubSeq(t, i, j), k, q) = SubSeq(t, m, n)

LEMMA Parts ==
  ASSUME NEW t \in Seq(STRING), NEW i \in Nat, NEW j \in Nat, IsPart(t, i, j)
  PROVE  /\ SubSeq(t, i, j) \in Seq(STRING) /\ Len(SubSeq(t, i, j)) = j - i + 1
         /\ \A k \in 1 .. j - i + 1 : SubSeq(t, i, j)[k] = t[i + k - 1]
<1>1. \A k \in i .. j : t[k] \in STRING
  <2> SUFFICES ASSUME NEW k \in i .. j PROVE t[k] \in STRING
    OBVIOUS
  <2>1. k \in 1 .. Len(t)
    BY LenProperties DEF IsPart
  <2> QED
    BY <2>1, ElementOfSeq
<1>2. /\ SubSeq(t, i, j) \in Seq(STRING)
      /\ Len(SubSeq(t, i, j)) = IF i <= j THEN j - i + 1 ELSE 0
      /\ \A k \in 1 .. j - i + 1 : SubSeq(t, i, j)[k] = t[i + k - 1]
  BY <1>1, SubSeqProperties
<1> QED
  BY <1>2 DEF IsPart

LEMMA PartOfPart ==
  ASSUME NEW t \in Seq(STRING), NEW i \in Nat, NEW j \in Nat, IsPart(t, i, j),
         NEW k \in Nat, NEW q \in Nat, NEW m \in Nat, NEW n \in Nat,
         Within(i, j, k, q, m, n)
  PROVE  SamePart(t, i, j, k, q, m, n)
<1>1. PICK s : s = SubSeq(t, i, j)
  OBVIOUS
<1>2. 1 <= i /\ 1 <= k /\ 1 <= m /\ k <= q + 1 /\ q <= j - i + 1 /\ m = i + k - 1 /\ n = i + q - 1 /\ q - k + 1 = n - m + 1
  BY DEF Within, IsPart
<1>3. s \in Seq(STRING)
  BY <1>1, Parts
<1>4. Len(s) = j - i + 1 /\ \A x \in 1 .. j - i + 1 : s[x] = t[i + x - 1]
  BY <1>1, Parts
<1>5. PICK x : x = SubSeq(s, k, q)
  OBVIOUS
<1>6. x \in Seq(STRING) /\ Len(x) = q - k + 1 /\ \A r \in 1 .. q - k + 1 : x[r] = s[k + r - 1]
  <2>1. IsPart(s, k, q)
    BY <1>2, <1>4 DEF IsPart
  <2>2. /\ SubSeq(s, k, q) \in Seq(STRING) /\ Len(SubSeq(s, k, q)) = q - k + 1
        /\ \A r \in 1 .. q - k + 1 : SubSeq(s, k, q)[r] = s[k + r - 1]
    BY <1>3, <2>1, Parts
  <2> QED BY <1>5, <2>2
<1>7. PICK y : y = SubSeq(t, m, n)
  OBVIOUS
<1>8. y \in Seq(STRING) /\ Len(y) = n - m + 1 /\ \A r \in 1 .. n - m + 1 : y[r] = t[m + r - 1]
  <2>1. IsPart(t, m, n)
    <3>1. j <= Len(t) /\ Len(t) \in Nat
      BY LenProperties DEF IsPart
    <3> QED BY <1>2, <3>1 DEF IsPart
  <2> QED BY <1>7, <2>1, Parts
<1>9. ASSUME NEW r \in 1 .. q - k + 1
      PROVE  x[r] = y[r]
  <2>1. k + r - 1 \in 1 .. j - i + 1 /\ i + (k + r - 1) - 1 = m + r - 1
    BY <1>2
  <2>2. x[r] = s[k + r - 1] /\ y[r] = t[m + r - 1]
    BY <1>2, <1>6, <1>8
  <2>3. s[k + r - 1] = t[i + (k + r - 1) - 1]
    BY <1>4, <2>1
  <2> QED BY <2>1, <2>2, <2>3
<1>10. x = y
  BY <1>2, <1>6, <1>8, <1>9, SeqEqual
<1> QED
  BY <1>1, <1>5, <1>7, <1>10, Zenon DEF SamePart

\* A line that begins at l has a text from v to z; a line that begins at l has
\* its first colon before p and ends behind q.
HasText(t, l, v, z) ==
  /\ 1 <= l /\ l + 1 < v /\ v <= z /\ z < Len(t)
  /\ t[l] # ":" /\ t[l] # Eol /\ t[l + 1] = ":"
  /\ \A j \in l + 2 .. v - 1 : t[j] = Blank
  /\ t[v] # Blank /\ \A j \in v .. z : t[j] # Eol
  /\ t[z + 1] = Eol

HasColon(t, l, p, q) ==
  /\ t[q + 1] = Eol /\ \A j \in l .. q : t[j] # Eol
  /\ p - 1 \in l .. q /\ t[p - 1] = ":" /\ \A j \in l .. p - 2 : t[j] # ":"

LEMMA LinePlaces ==
  ASSUME NEW t, NEW l \in Nat, NEW v \in Nat, NEW z \in Nat, NEW p \in Nat, NEW q \in Nat,
         Len(t) \in Nat, HasText(t, l, v, z), HasColon(t, l, p, q)
  PROVE  p = l + 2 /\ q = z
<1> USE DEF HasText, HasColon
<1>1. p = l + 2
  <2>1. p - 1 # l /\ l <= p - 1
    OBVIOUS
  <2>2. ~(l + 1 \in l .. p - 2)
    OBVIOUS
  <2> QED BY <2>1, <2>2
<1>2. q = z
  <2>1. ASSUME NEW j \in l .. z
        PROVE  t[j] # Eol
    <3>1. ":" # Eol
      BY DEF Eol
    <3>2. j = l \/ j = l + 1 \/ j \in l + 2 .. v - 1 \/ j \in v .. z
      OBVIOUS
    <3> QED BY <3>1, <3>2, BlankIsNoEnd
  <2>2. ~(q + 1 \in l .. z) /\ ~(z + 1 \in l .. q)
    BY <2>1
  <2> QED BY <2>2
<1> QED
  BY <1>1, <1>2

LEMMA LineRead ==
  ASSUME NEW t \in Seq(STRING), NEW l \in Nat, NEW v \in Nat, NEW z \in Nat,
         NEW p \in Nat, NEW q \in Nat, HasText(t, l, v, z), HasColon(t, l, p, q)
  PROVE  Trimmed(SubSeq(t, p, q)) = SubSeq(t, v, z)
<1>1. Len(t) \in Nat
  BY LenProperties
<1>2. p = l + 2 /\ q = z
  BY <1>1, LinePlaces
<1>3. PICK s : s = SubSeq(t, p, q)
  OBVIOUS
<1>4. 1 <= l /\ l + 1 < v /\ v <= z /\ z < Len(t)
  BY DEF HasText
<1>5. PICK k \in Nat : k = v - l - 1 /\ 1 <= k
  BY <1>4
<1>6. IsPart(t, p, q)
  BY <1>1, <1>2, <1>4, <1>5 DEF IsPart
<1>7. Len(s) = q - p + 1 /\ \A j \in 1 .. q - p + 1 : s[j] = t[p + j - 1]
  BY <1>3, <1>6, Parts, ZenonT(40)
<1>8. Len(s) \in Nat /\ k \in 1 .. Len(s)
  BY <1>2, <1>4, <1>5, <1>7
<1>9. s[k] = t[v]
  <2>1. k \in 1 .. q - p + 1 /\ p + k - 1 = v
    BY <1>2, <1>4, <1>5
  <2> QED BY <1>7, <2>1
<1>10. ASSUME NEW j \in 1 .. k - 1
       PROVE  s[j] = Blank
  <2>1. j \in 1 .. q - p + 1 /\ p + j - 1 \in l + 2 .. v - 1
    BY <1>2, <1>4, <1>5
  <2> QED BY <1>7, <2>1 DEF HasText
<1>11. Trimmed(s) = From(s, k)
  <2>1. s[k] # Blank
    BY <1>9 DEF HasText
  <2> QED BY <1>8, <1>10, <2>1, TrimmedIs
<1>12. PICK n \in Nat : n = q - p + 1
  BY <1>7, <1>8
<1>13. SubSeq(SubSeq(t, p, q), k, n) = SubSeq(t, v, q)
  <2>1. Within(p, q, k, n, v, q)
    BY <1>2, <1>4, <1>5, <1>12 DEF Within
  <2>2. SamePart(t, p, q, k, n, v, q)
    BY <1>6, <2>1, PartOfPart
  <2> QED BY <2>2, Zenon DEF SamePart
<1>14. From(s, k) = SubSeq(s, k, n)
  BY <1>7, <1>12 DEF From
<1> QED
  BY <1>2, <1>3, <1>11, <1>13, <1>14, Zenon

Answers(a, t) == a.text = t /\ GivesLocation(a)

LEMMA LocationPlaces ==
  ASSUME NEW t \in Seq(STRING), NEW a, Answers(a, t)
  PROVE  \E l, v, z \in Nat :
           /\ HasText(t, l, v, z) /\ a.location = SubSeq(t, v, z)
           /\ \A j \in DOMAIN t : LineStarts(t, j) /\ t[j] = "location" => j = l
<1>1. PICK l, v, z \in DOMAIN t :
        /\ l + 1 < v /\ v <= z /\ z + 1 \in DOMAIN t
        /\ LineStarts(t, l) /\ t[l] = "location" /\ t[l + 1] = ":"
        /\ \A j \in l + 2 .. v - 1 : t[j] = Blank
        /\ t[v] # Blank /\ \A j \in v .. z : t[j] # Eol
        /\ t[z + 1] = Eol /\ a.location = SubSeq(t, v, z)
        /\ \A j \in DOMAIN t : LineStarts(t, j) /\ t[j] = "location" => j = l
  BY ZenonT(40) DEF Answers, GivesLocation
<1>2. DOMAIN t = 1 .. Len(t) /\ Len(t) \in Nat
  BY LenProperties
<1>3. /\ l \in Nat /\ v \in Nat /\ z \in Nat /\ 1 <= l
      /\ l + 1 < v /\ v <= z /\ z < Len(t)
  BY <1>1, <1>2
<1>4. t[l] # ":" /\ t[l] # Eol
  BY <1>1 DEF Eol
<1>5. HasText(t, l, v, z)
  BY <1>1, <1>3, <1>4, Zenon DEF HasText
<1> QED
  BY <1>1, <1>3, <1>5, Zenon

\* The line that ends at i with a location has the one location of the answer.
EndsLine(t, d, i) == InLine(t, d.line, d.colon, i - 1) /\ t[i] = Eol /\ d.colon # 0
EndsLocation(t, d, i) == EndsLine(t, d, i) /\ t[d.line] = "location"

LEMMA LocationRead ==
  ASSUME NEW t \in Seq(STRING), NEW a, Answers(a, t), NEW i \in 1 .. Len(t),
         NEW d \in SearchRecords, EndsLocation(t, d, i)
  PROVE  Trimmed(SubSeq(t, d.colon + 1, i - 1)) = a.location
<1>1. PICK l, v, z \in Nat :
        /\ HasText(t, l, v, z) /\ a.location = SubSeq(t, v, z)
        /\ \A j \in DOMAIN t : LineStarts(t, j) /\ t[j] = "location" => j = l
  BY LocationPlaces
<1>2. DOMAIN t = 1 .. Len(t) /\ Len(t) \in Nat /\ d.line \in Nat /\ d.colon \in Nat
  BY LenProperties DEF SearchRecords
<1>3. PICK p \in Nat : p = d.colon + 1
  BY <1>2
<1>4. PICK q \in Nat : q = i - 1
  BY <1>2
<1>5. d.line = l
  <2>1. d.line \in DOMAIN t /\ LineStarts(t, d.line)
    BY <1>2 DEF InLine, EndsLine, EndsLocation
  <2> QED BY <1>1, <2>1 DEF EndsLocation
<1>6. HasColon(t, l, p, q)
  <2>1. q + 1 = i /\ p - 1 = d.colon /\ p - 2 = d.colon - 1
    BY <1>2, <1>3, <1>4
  <2>2. /\ \A j \in l .. q : t[j] # Eol
        /\ d.colon \in l .. q /\ t[d.colon] = ":"
        /\ \A j \in l .. d.colon - 1 : t[j] # ":"
    BY <1>4, <1>5 DEF InLine, EndsLine, EndsLocation
  <2> QED BY <2>1, <2>2 DEF HasColon, EndsLine, EndsLocation
<1>7. Trimmed(SubSeq(t, p, q)) = SubSeq(t, v, z)
  BY <1>1, <1>6, LineRead, SMTT(30)
<1> QED
  BY <1>1, <1>3, <1>4, <1>7, Zenon

\* After each symbol the search has found nothing or the location.
SearchOK(t, a, d, i) ==
  /\ d \in SearchRecords /\ InLine(t, d.line, d.colon, i)
  /\ d.location \in {NotGiven, Given(a.location)}

LEMMA SearchStep ==
  ASSUME NEW t \in Seq(STRING), NEW a, Answers(a, t), NEW i \in 1 .. Len(t),
         NEW d, SearchOK(t, a, d, i - 1)
  PROVE  SearchOK(t, a, SearchChar(t, d, i), i)
<1>0. PICK e : e = SearchChar(t, d, i)
  OBVIOUS
<1> SUFFICES SearchOK(t, a, e, i)
  BY <1>0
<1>1. d \in SearchRecords /\ e \in SearchRecords
  BY <1>0, SearchTyped DEF SearchOK
<1>2. i \in Nat \ {0} /\ d.line \in Nat /\ d.colon \in Nat /\ InLine(t, d.line, d.colon, i - 1)
  BY <1>1, LenProperties DEF SearchRecords, SearchOK
<1>6. d.location \in {NotGiven, Given(a.location)}
  BY DEF SearchOK
<1>3. CASE t[i] = ":"
  <2>1. e = [d EXCEPT !.colon = IF @ = 0 THEN i ELSE @]
    BY <1>0, <1>3, Zenon DEF SearchChar
  <2>2. e.line = d.line /\ e.location = d.location /\ e.colon = IF d.colon = 0 THEN i ELSE d.colon
    BY <1>1, <2>1 DEF SearchRecords
  <2>3. InLine(t, d.line, IF d.colon = 0 THEN i ELSE d.colon, i)
    BY <1>2, <1>3, ColonRead
  <2>4. InLine(t, e.line, e.colon, i)
    BY <2>2, <2>3, Zenon
  <2>5. e.location \in {NotGiven, Given(a.location)}
    BY <1>6, <2>2, Zenon
  <2> QED BY <1>1, <2>4, <2>5, Zenon DEF SearchOK
<1>4. CASE t[i] # ":" /\ t[i] # Eol
  <2>1. e = d
    BY <1>0, <1>4, Zenon DEF SearchChar
  <2>2. InLine(t, d.line, d.colon, i)
    BY <1>2, <1>4, OtherRead
  <2> QED BY <1>1, <1>6, <2>1, <2>2, Zenon DEF SearchOK
<1>5. CASE t[i] # ":" /\ t[i] = Eol
  <2> DEFINE value == Trimmed(SubSeq(t, d.colon + 1, i - 1))
  <2>1. e = [line |-> i + 1, colon |-> 0,
             location |-> IF d.colon # 0 /\ t[d.line] = "location" THEN Given(value) ELSE d.location,
             st |-> IF d.colon # 0 /\ t[d.line] = "st" THEN Given(value) ELSE d.st]
    BY <1>0, <1>5, Zenon DEF SearchChar
  <2> HIDE DEF value
  <2>2. /\ e.line = i + 1 /\ e.colon = 0
        /\ e.location = IF d.colon # 0 /\ t[d.line] = "location" THEN Given(value) ELSE d.location
    BY <2>1
  <2>3. e.location \in {NotGiven, Given(a.location)}
    <3>1. CASE d.colon # 0 /\ t[d.line] = "location"
      <4>1. EndsLocation(t, d, i)
        BY <1>5, <3>1 DEF EndsLocation, EndsLine, SearchOK
      <4>2. value = a.location
        BY <1>1, <4>1, LocationRead DEF value
      <4> QED BY <2>2, <3>1, <4>2
    <3>2. CASE ~(d.colon # 0 /\ t[d.line] = "location")
      BY <2>2, <3>2 DEF SearchOK
    <3> QED BY <3>1, <3>2
  <2>4. InLine(t, i + 1, 0, i)
    BY <1>2, <1>5, EndRead
  <2>5. InLine(t, e.line, e.colon, i)
    BY <2>2, <2>4, Zenon
  <2> QED BY <1>1, <2>3, <2>5, Zenon DEF SearchOK
<1> QED
  BY <1>3, <1>4, <1>5, Zenon

\* The location is taken whole or not at all, wherever the answer is cut.
LEMMA LocationWhole ==
  ASSUME NEW t \in Seq(STRING), NEW a, Answers(a, t), NEW n \in 0 .. Len(t)
  PROVE  SearchReply(t, n).location \in {NotGiven, Given(a.location)}
<1>1. n \in Nat /\ Len(t) \in Nat
  BY LenProperties
<1>2. PICK w : /\ SearchReply(t, n) = w[n] /\ w[0] = AtStart
              /\ \A i \in 0 .. n - 1 : w[i + 1] = SearchChar(t, w[i], i + 1)
  BY SearchUnfolds
<1> DEFINE D == {i \in 0 .. n : SearchOK(t, a, w[i], i)}
<1>3. 0 \in D
  <2>1. AtStart \in SearchRecords /\ AtStart.location = NotGiven
    BY EmptySeq DEF AtStart, SearchRecords, NotGiven
  <2>2. InLine(t, AtStart.line, AtStart.colon, 0)
    BY DEF AtStart, InLine, LineStarts
  <2> QED BY <1>1, <1>2, <2>1, <2>2 DEF SearchOK
<1>4. ASSUME NEW i \in 0 .. n - 1, i \in D
      PROVE  i + 1 \in D
  <2>1. i + 1 \in 1 .. Len(t) /\ i + 1 \in 0 .. n /\ (i + 1) - 1 = i
    BY <1>1
  <2>2. SearchOK(t, a, w[i], (i + 1) - 1)
    BY <1>4, <2>1
  <2>3. SearchOK(t, a, SearchChar(t, w[i], i + 1), i + 1)
    BY <2>1, <2>2, SearchStep
  <2>4. SearchOK(t, a, w[i + 1], i + 1)
    BY <1>2, <2>3
  <2> QED BY <2>1, <2>4
<1>5. \A i \in 0 .. n : i \in D
  <2> HIDE DEF D
  <2> QED BY <1>1, <1>3, <1>4, Upward
<1>6. SearchOK(t, a, w[n], n)
  BY <1>1, <1>5
<1> QED BY <1>2, <1>6 DEF SearchOK

-----------------------------------------------------------------------------
(* The host and the port of a location, r being what is behind its scheme.   *)

Shape(r, e, z) ==
  /\ 1 <= e /\ e <= Len(r) /\ e + 1 <= z /\ z <= Len(r) + 1
  /\ HostEndsAt(r, e) /\ PathBeginsAt(r, e, z)

LEMMA NoDigit == ~IsDigit("/") /\ ~IsDigit(":")
  BY DEF IsDigit, Contains, Digits

\* The first slash is where the path begins.
LEMMA SlashIs ==
  ASSUME NEW r, Len(r) \in Nat, NEW e \in Nat, NEW z \in Nat, Shape(r, e, z)
  PROVE  /\ \A j \in 1 .. z - 1 : r[j] # "/"
         /\ Find(r, "/") # 0 => Find(r, "/") = z /\ z <= Len(r)
<1>1. 1 <= e /\ e <= Len(r) /\ e + 1 <= z /\ z <= Len(r) + 1
  BY DEF Shape
<1>2. ASSUME NEW j \in 1 .. e
      PROVE  r[j] # "/"
  <2>1. CASE r[1] = "["
    <3>1. j = e \/ j \in 1 .. e - 1
      OBVIOUS
    <3> QED BY <2>1, <3>1 DEF Shape, HostEndsAt
  <2>2. CASE r[1] # "["
    BY <2>2 DEF Shape, HostEndsAt
  <2> QED BY <2>1, <2>2
<1>3. ASSUME NEW j \in e + 1 .. z - 1
      PROVE  r[j] # "/"
  <2>1. z # e + 1
    BY <1>1
  <2>2. r[e + 1] = ":" /\ \A i \in e + 2 .. z - 1 : IsDigit(r[i])
    BY <2>1 DEF Shape, PathBeginsAt
  <2>3. j = e + 1 \/ j \in e + 2 .. z - 1
    BY <1>1
  <2>4. CASE j = e + 1
    BY <2>2, <2>4
  <2>5. CASE j \in e + 2 .. z - 1
    BY <2>2, <2>5, NoDigit, Zenon
  <2> QED BY <2>3, <2>4, <2>5
<1>4. ASSUME NEW j \in 1 .. z - 1
      PROVE  r[j] # "/"
  <2>1. j \in 1 .. e \/ j \in e + 1 .. z - 1
    BY <1>1
  <2> QED BY <1>2, <1>3, <2>1
<1>5. ASSUME Find(r, "/") # 0
      PROVE  Find(r, "/") = z /\ z <= Len(r)
  <2>1. PICK f \in 1 .. Len(r) : f = Find(r, "/") /\ r[f] = "/"
    BY <1>5, FindGives
  <2>2. ~(f \in 1 .. z - 1)
    BY <1>4, <2>1
  <2>3. z \in 1 .. Len(r)
    BY <1>1, <2>2
  <2>4. r[z] = "/"
    BY <2>3 DEF Shape, PathBeginsAt
  <2>5. Find(r, "/") = z
    BY <1>4, <2>3, <2>4, FindIs
  <2> QED BY <2>3, <2>5
<1> QED
  BY <1>4, <1>5

\* parseURL() finds the end of the host.
LEMMA HostEndIs ==
  ASSUME NEW r, Len(r) \in Nat, NEW e \in Nat, NEW z \in Nat, Shape(r, e, z),
         Find(r, "/") # 0
  PROVE  HostEnd(r) = e
<1>1. 1 <= e /\ e <= Len(r) /\ e + 1 <= z /\ z <= Len(r)
  BY SlashIs DEF Shape
<1>2. Find(r, "/") = z
  BY SlashIs
<1>3. CASE r[1] = "["
  <2>1. r[e] = "]" /\ \A j \in 1 .. e - 1 : r[j] # "]"
    BY <1>3 DEF Shape, HostEndsAt
  <2>2. Find(r, "]") = e
    BY <1>1, <2>1, FindIs
  <2> QED BY <1>1, <1>3, <2>2 DEF HostEnd
<1>4. CASE r[1] # "["
  <2>1. \A j \in 1 .. e : r[j] # ":"
    BY <1>4 DEF Shape, HostEndsAt
  <2>2. HostEnd(r) = IF Find(r, ":") = 0 \/ Find(r, ":") > z THEN z - 1 ELSE Find(r, ":") - 1
    BY <1>2, <1>4, Zenon DEF HostEnd
  <2>3. CASE z = e + 1
    <3>1. r[z] = "/"
      BY <1>1 DEF Shape, PathBeginsAt
    <3>2. Find(r, ":") = 0 \/ Find(r, ":") > z
      <4>1. SUFFICES ASSUME Find(r, ":") # 0 PROVE Find(r, ":") > z
        OBVIOUS
      <4>2. PICK f \in 1 .. Len(r) : f = Find(r, ":") /\ r[f] = ":"
        BY <4>1, FindGives
      <4>3. ~(f \in 1 .. e) /\ f # z
        BY <2>1, <3>1, <4>2
      <4> QED BY <2>3, <4>2, <4>3
    <3> QED BY <2>2, <2>3, <3>2
  <2>4. CASE z # e + 1
    <3>1. r[e + 1] = ":" /\ e + 1 < z
      BY <1>1, <2>4 DEF Shape, PathBeginsAt
    <3>2. e + 1 \in 1 .. Len(r) /\ \A j \in 1 .. (e + 1) - 1 : r[j] # ":"
      BY <1>1, <2>1
    <3>3. Find(r, ":") = e + 1
      BY <3>1, <3>2, FindIs
    <3> QED BY <2>2, <3>1, <3>3
  <2> QED BY <2>3, <2>4
<1> QED
  BY <1>3, <1>4

\* The digits that are in front of something else are the port.
LEMMA PortOfDigits ==
  ASSUME NEW r \in Seq(STRING), NEW i \in Nat, NEW j \in Nat, 1 <= i, i <= j, j < Len(r),
         \A x \in i .. j : IsDigit(r[x]), ~IsDigit(r[j + 1])
  PROVE  Port(From(r, i)) = Port(SubSeq(r, i, j))
<1>1. PICK n \in Nat : n = Len(r)
  BY LenProperties
<1>2. PICK s : s = SubSeq(r, i, n)
  OBVIOUS
<1>3. PICK d : d = SubSeq(r, i, j)
  OBVIOUS
<1>4. IsPart(r, i, n) /\ IsPart(r, i, j)
  BY <1>1 DEF IsPart
<1>5. Len(s) = n - i + 1 /\ \A x \in 1 .. n - i + 1 : s[x] = r[i + x - 1]
  BY <1>2, <1>4, Parts
<1>6. Len(d) = j - i + 1 /\ \A x \in 1 .. j - i + 1 : d[x] = r[i + x - 1]
  BY <1>3, <1>4, Parts
<1>7. PICK k \in Nat : k = j - i + 2
  OBVIOUS
<1>8. PICK q \in Nat : q = k - 1
  BY <1>7
<1>9. \A x \in 1 .. q : i + x - 1 \in i .. j
  BY <1>7, <1>8
<1>10. Numeral(s) = SubSeq(s, 1, q)
  <2>1. Len(s) \in Nat /\ k \in 1 .. Len(s) /\ k # Len(s) + 1
    BY <1>1, <1>5, <1>7
  <2>2. s[k] = r[j + 1]
    <3>1. i + k - 1 = j + 1 /\ k \in 1 .. n - i + 1
      BY <1>1, <1>7
    <3> QED BY <1>5, <3>1
  <2>3. \A x \in 1 .. k - 1 : IsDigit(s[x])
    <3>1. \A x \in 1 .. k - 1 : x \in 1 .. q /\ x \in 1 .. n - i + 1
      BY <1>1, <1>7, <1>8
    <3> QED BY <1>5, <1>9, <3>1
  <2>4. Numeral(s) = IF k = Len(s) + 1 THEN s ELSE SubSeq(s, 1, k - 1)
    BY <2>1, <2>2, <2>3, NumeralIs
  <2> QED BY <1>8, <2>1, <2>4, Zenon
<1>11. Numeral(d) = d
  <2>1. Len(d) \in Nat /\ k \in 1 .. Len(d) + 1 /\ k = Len(d) + 1
    BY <1>6, <1>7
  <2>2. \A x \in 1 .. k - 1 : IsDigit(d[x])
    <3>1. \A x \in 1 .. k - 1 : x \in 1 .. q /\ x \in 1 .. j - i + 1
      BY <1>7, <1>8
    <3> QED BY <1>6, <1>9, <3>1
  <2>3. ~(k <= Len(d))
    BY <2>1
  <2>4. Numeral(d) = IF k = Len(d) + 1 THEN d ELSE SubSeq(d, 1, k - 1)
    BY <2>1, <2>2, <2>3, NumeralIs
  <2> QED BY <2>1, <2>4, Zenon
<1>12. SubSeq(SubSeq(r, i, n), 1, q) = SubSeq(r, i, j)
  <2>1. Within(i, n, 1, q, i, j)
    BY <1>1, <1>7, <1>8 DEF Within
  <2>2. SamePart(r, i, n, 1, q, i, j)
    BY <1>4, <2>1, PartOfPart
  <2> QED BY <2>2, Zenon DEF SamePart
<1>13. Numeral(s) = Numeral(d)
  BY <1>2, <1>3, <1>10, <1>11, <1>12, Zenon
<1>14. From(r, i) = s
  BY <1>1, <1>2, Zenon DEF From
<1> QED
  BY <1>3, <1>13, <1>14, SMT DEF Port, Decimal

LEMMA PortIs ==
  ASSUME NEW r \in Seq(STRING), NEW e \in Nat, NEW z \in Nat, Shape(r, e, z), z <= Len(r)
  PROVE  /\ z = e + 1 => r[e + 1] = "/"
         /\ z # e + 1 => r[e + 1] = ":" /\ Port(From(r, e + 2)) = Port(SubSeq(r, e + 2, z - 1))
<1>1. r[z] = "/" /\ e + 1 <= z
  BY DEF Shape, PathBeginsAt
<1>2. ASSUME z # e + 1
      PROVE  r[e + 1] = ":" /\ Port(From(r, e + 2)) = Port(SubSeq(r, e + 2, z - 1))
  <2>1. z > e + 2 /\ r[e + 1] = ":" /\ \A j \in e + 2 .. z - 1 : IsDigit(r[j])
    BY <1>2 DEF Shape, PathBeginsAt
  <2>2. PICK i \in Nat : i = e + 2
    OBVIOUS
  <2>3. PICK j \in Nat : j = z - 1
    BY <2>1
  <2>4. 1 <= i /\ i <= j /\ j < Len(r) /\ r[j + 1] = "/"
    <3>1. Len(r) \in Nat /\ j + 1 = z
      BY <2>3, LenProperties
    <3> QED BY <1>1, <2>1, <2>2, <2>3, <3>1
  <2>5. \A x \in i .. j : IsDigit(r[x])
    BY <2>1, <2>2, <2>3
  <2>6. Port(From(r, i)) = Port(SubSeq(r, i, j))
    BY <2>4, <2>5, NoDigit, PortOfDigits
  <2> QED BY <2>1, <2>2, <2>3, <2>6, Zenon
<1> QED
  BY <1>1, <1>2

\* The resolver gets the address without its brackets.
LEMMA ResolvedIs ==
  ASSUME NEW r \in Seq(STRING), NEW e \in Nat, NEW z \in Nat, Shape(r, e, z)
  PROVE  Resolved(SubSeq(r, 1, e)) = IF r[1] = "[" THEN SubSeq(r, 2, e - 1) ELSE SubSeq(r, 1, e)
<1>1. PICK h : h = SubSeq(r, 1, e)
  OBVIOUS
<1>2. 1 <= e /\ IsPart(r, 1, e)
  BY DEF Shape, IsPart
<1>3. Len(h) = e - 1 + 1 /\ \A j \in 1 .. e - 1 + 1 : h[j] = r[1 + j - 1]
  BY <1>1, <1>2, Parts
<1>4. Len(h) = e /\ \A j \in 1 .. e : h[j] = r[j]
  BY <1>3
<1>5. CASE r[1] = "["
  <2>1. e > 1 /\ r[e] = "]" /\ \A j \in 1 .. e - 1 : r[j] # "]"
    BY <1>5 DEF Shape, HostEndsAt
  <2>2. Find(h, "]") = e
    BY <1>4, <2>1, FindIs
  <2>3. Resolved(h) = SubSeq(h, 2, e - 1)
    <3>1. h[1] = "[" /\ e # 0
      BY <1>2, <1>4, <1>5
    <3> QED BY <2>2, <3>1, Zenon DEF Resolved
  <2>4. PICK q \in Nat : q = e - 1
    BY <2>1
  <2>5. Within(1, e, 2, q, 2, q)
    BY <2>1, <2>4 DEF Within
  <2>6. SamePart(r, 1, e, 2, q, 2, q)
    BY <1>2, <2>5, PartOfPart
  <2>7. SubSeq(h, 2, q) = SubSeq(r, 2, q)
    BY <1>1, <2>6, Zenon DEF SamePart
  <2> QED BY <1>1, <1>5, <2>3, <2>4, <2>7, Zenon
<1>6. CASE r[1] # "["
  <2>1. h[1] # "["
    BY <1>2, <1>4, <1>6
  <2> QED BY <1>1, <1>6, <2>1, Zenon DEF Resolved
<1> QED
  BY <1>5, <1>6

\* upnp_discover() comes to the same host and port if the port is written out.
LEMMA WalkIs ==
  ASSUME NEW url, NEW r \in Seq(STRING), r = From(url, 2),
         NEW e \in Nat, NEW z \in Nat, Shape(r, e, z), z # e + 1, r[1] # "["
  PROVE  \/ Walk(url) = Unknown
         \/ Walk(url) = [host |-> SubSeq(r, 1, e), port |-> Port(SubSeq(r, e + 2, z - 1))]
<1>1. PICK n \in Nat : n = Len(r)
  BY LenProperties
<1>2. /\ 1 <= e /\ z > e + 2 /\ z <= n + 1 /\ r[e + 1] = ":"
      /\ \A j \in 1 .. e : r[j] # ":"
  BY <1>1 DEF Shape, PathBeginsAt, HostEndsAt
<1>3. PICK x : x = SubSeq(r, 2, n)
  OBVIOUS
<1>4. Len(x) = n - 2 + 1 /\ \A j \in 1 .. n - 2 + 1 : x[j] = r[2 + j - 1]
  <2>1. IsPart(r, 2, n)
    BY <1>1, <1>2 DEF IsPart
  <2> QED BY <1>3, <2>1, Parts
<1>5. Find(x, ":") = e
  <2>1. Len(x) \in Nat /\ e \in 1 .. Len(x) /\ x[e] = ":"
    <3>1. e \in 1 .. n - 2 + 1 /\ 2 + e - 1 = e + 1
      BY <1>2
    <3> QED BY <1>2, <1>4, <3>1
  <2>2. ASSUME NEW j \in 1 .. e - 1
        PROVE  x[j] # ":"
    <3>1. j \in 1 .. n - 2 + 1 /\ 2 + j - 1 \in 1 .. e
      BY <1>2
    <3> QED BY <1>2, <1>4, <3>1
  <2> QED BY <2>1, <2>2, FindIs
<1>6. From(r, 2) = x
  BY <1>1, <1>3, Zenon DEF From
<1>7. PICK i \in Nat : i = e + 3
  OBVIOUS
<1>8. PICK y : y = SubSeq(r, i, n)
  OBVIOUS
<1>9. Len(y) = n - i + 1 /\ \A j \in 1 .. n - i + 1 : y[j] = r[i + j - 1]
  <2>1. IsPart(r, i, n)
    BY <1>1, <1>2, <1>7 DEF IsPart
  <2> QED BY <1>8, <2>1, Parts
<1>10. From(r, i) = y
  BY <1>1, <1>8, Zenon DEF From
<1>11. PICK c \in Nat : c = e + 1
  OBVIOUS
<1>12. Walk(url) = IF c = 1 \/ c + 1 + Find(y, "/") = c + 1 THEN Unknown
                   ELSE [host |-> SubSeq(r, 1, c - 1), port |-> Port(From(r, c + 1))]
  <2>1. 1 + Find(From(r, 2), ":") = c /\ From(r, c + 2) = y
    <3>1. c + 2 = i /\ 1 + e = c
      BY <1>7, <1>11
    <3> QED BY <1>5, <1>6, <1>10, <3>1
  <2> QED BY <2>1, Zenon DEF Walk
<1>13. CASE Find(y, "/") = 0
  BY <1>11, <1>12, <1>13
<1>14. CASE Find(y, "/") # 0
  <2>1. PICK f \in 1 .. Len(y) : y[f] = "/" /\ f = Find(y, "/")
    <3>1. Len(y) \in Nat
      BY <1>2, <1>7, <1>9
    <3> QED BY <1>14, <3>1, FindGives
  <2>2. PICK g \in Nat : 1 <= g /\ g <= n /\ r[g] = "/"
    BY <1>7, <1>9, <2>1
  <2>3. ~(g \in 1 .. z - 1)
    BY <1>1, <2>2, SlashIs
  <2>4. z <= Len(r)
    BY <1>1, <2>2, <2>3
  <2>5. Port(From(r, e + 2)) = Port(SubSeq(r, e + 2, z - 1))
    BY <2>4, PortIs
  <2>6. c # 1 /\ c + 1 + Find(y, "/") # c + 1 /\ c - 1 = e /\ c + 1 = e + 2
    BY <1>2, <1>11, <1>14, <2>1
  <2> QED BY <1>12, <2>5, <2>6
<1> QED
  BY <1>13, <1>14

\* What the location of an answer leads to.
Named(a) == [host |-> a.host, port |-> a.port]

LEMMA Leads ==
  ASSUME NEW a, a.location \in Seq(STRING), NamesHost(a)
  PROVE  /\ ParseURL(a.location) # NoUrl =>
              [host |-> Resolved(ParseURL(a.location).host), port |-> ParseURL(a.location).port]
                = Named(a)
         /\ a.explicit => Walk(a.location) \in {Unknown, Named(a)}
<1>1. PICK r : r = From(a.location, SchemeLen(a.location) + 1)
  OBVIOUS
<1>2. r \in Seq(STRING) /\ Len(r) \in Nat
  <2>1. Len(a.location) \in Nat
    BY LenProperties
  <2>2. SchemeLen(a.location) \in 0 .. 2
    BY DEF SchemeLen
  <2>3. SubSeq(a.location, SchemeLen(a.location) + 1, Len(a.location)) \in Seq(STRING)
    BY <2>1, <2>2, PartOf
  <2> QED BY <1>1, <2>3, LenProperties DEF From
<1>3. PICK e \in 1 .. Len(r), z \in 1 .. Len(r) + 1 :
           /\ HostEndsAt(r, e) /\ PathBeginsAt(r, e, z)
           /\ a.host = IF r[1] = "[" THEN SubSeq(r, 2, e - 1) ELSE SubSeq(r, 1, e)
           /\ a.port = IF z = e + 1 THEN 80 ELSE Port(SubSeq(r, e + 2, z - 1))
           /\ a.explicit => z # e + 1 /\ r[1] # "[" /\ a.location[1] = Http
  BY <1>1, Zenon DEF NamesHost
<1>4. e \in Nat /\ z \in Nat /\ Shape(r, e, z)
  BY <1>2, <1>3 DEF Shape, PathBeginsAt
<1>5. ASSUME ParseURL(a.location) # NoUrl
      PROVE  [host |-> Resolved(ParseURL(a.location).host), port |-> ParseURL(a.location).port]
               = Named(a)
  <2>1. Find(r, "/") # 0 /\ SchemeLen(a.location) # 0
    BY <1>1, <1>5, Zenon DEF ParseURL
  <2>2. HostEnd(r) = e /\ z <= Len(r)
    BY <1>2, <1>4, <2>1, HostEndIs, SlashIs
  <2>3. ParseURL(a.location) =
          [host |-> SubSeq(r, 1, e),
           port |-> IF r[e + 1] = ":" THEN Port(From(r, e + 2)) ELSE 80,
           path |-> From(r, Find(r, "/"))]
    BY <1>1, <2>1, <2>2, Zenon DEF ParseURL
  <2>4. ParseURL(a.location).host = SubSeq(r, 1, e)
    BY <2>3
  <2>5. ParseURL(a.location).port = IF r[e + 1] = ":" THEN Port(From(r, e + 2)) ELSE 80
    BY <2>3
  <2>6. ParseURL(a.location).port = a.port
    BY <1>2, <1>3, <1>4, <2>2, <2>5, PortIs
  <2>7. Resolved(SubSeq(r, 1, e)) = a.host
    BY <1>2, <1>3, <1>4, ResolvedIs
  <2> QED BY <2>4, <2>6, <2>7, Zenon DEF Named
<1>6. ASSUME a.explicit
      PROVE  Walk(a.location) \in {Unknown, Named(a)}
  <2>1. z # e + 1 /\ r[1] # "[" /\ r = From(a.location, 2)
    <3>1. a.location[1] = Http /\ Len(a.location) \in Nat
      BY <1>3, <1>6, LenProperties
    <3>2. a.location # <<>>
      BY <1>2, <1>3, <1>1 DEF From, SchemeLen
    <3>3. SchemeLen(a.location) = 1
      BY <3>1, <3>2 DEF SchemeLen
    <3> QED
      BY <1>1, <1>3, <1>6, <3>3
  <2>2. a.host = SubSeq(r, 1, e) /\ a.port = Port(SubSeq(r, e + 2, z - 1))
    BY <1>3, <2>1
  <2>3. \/ Walk(a.location) = Unknown
        \/ Walk(a.location) = [host |-> SubSeq(r, 1, e), port |-> Port(SubSeq(r, e + 2, z - 1))]
    BY <1>2, <1>4, <2>1, WalkIs
  <2> QED BY <2>2, <2>3, Zenon DEF Named
<1> QED
  BY <1>5, <1>6

-----------------------------------------------------------------------------
\* What the devices send by the protocol.
AllSent == \A d \in Datagrams : GivesLocation(d) /\ NamesHost(d)

\* Before a description is asked for the program knows no host; then it is the
\* one the answer names.
SearchIsAt ==
  /\ stage = "search" => peer = Unknown /\ target = Unknown
  /\ stage = "fetch" => /\ answer \in Datagrams /\ location = answer.location
                        /\ peer = Unknown /\ target = Unknown
  /\ stage = "description" =>
       /\ answer \in Datagrams /\ location = answer.location /\ ParseURL(location) # NoUrl
       /\ peer = Named(answer) /\ target = Unknown
  /\ peer # Unknown => peer = Named(answer)
  /\ target # Unknown /\ answer.explicit => target = peer

LEMMA Sent ==
  ASSUME AllSent, NEW d \in Datagrams
  PROVE  d.text \in Seq(STRING) /\ Answers(d, d.text) /\ d.location \in Seq(STRING) /\ NamesHost(d)
<1>1. d.text \in Seq(STRING) /\ Answers(d, d.text) /\ NamesHost(d)
  BY DocumentsAssumption DEF AllSent, Answers
<1>2. PICK t \in Seq(STRING) : t = d.text /\ Answers(d, t)
  BY <1>1
<1>3. PICK l, v, z \in Nat :
        /\ HasText(t, l, v, z) /\ d.location = SubSeq(t, v, z)
        /\ \A j \in DOMAIN t : LineStarts(t, j) /\ t[j] = "location" => j = l
  BY <1>2, LocationPlaces
<1>4. v \in Nat \ {0} /\ z <= Len(t)
  <2>1. Len(t) \in Nat
    BY LenProperties
  <2> QED BY <1>3, <2>1 DEF HasText
<1>5. SubSeq(t, v, z) \in Seq(STRING)
  BY <1>4, PartOf
<1> QED BY <1>1, <1>3, <1>5, Zenon

LEMMA SearchHolds == AllSent => (Spec => []SearchIsAt)
<1> SUFFICES ASSUME AllSent PROVE Spec => []SearchIsAt
  OBVIOUS
<1>1. Init => SearchIsAt
  BY DEF Init, SearchIsAt
<1>2. SearchIsAt /\ [Next]_vars => SearchIsAt'
  <2> SUFFICES ASSUME SearchIsAt, [Next]_vars PROVE SearchIsAt'
    OBVIOUS
  <2> USE DEF Goto, found, device, told
  <2>1. CASE UNCHANGED vars
    BY <2>1 DEF vars, SearchIsAt
  <2>2. CASE Hear
    <3>1. PICK d \in Datagrams : \E n \in 0 .. Len(d.text) :
            LET s == SearchReply(d.text, n)
            IN  /\ answer' = d
                /\ IF s.st # NotGiven /\ s.location # NotGiven
                   THEN location' = s.location[1] /\ stage' = "fetch"
                   ELSE location' = <<>> /\ stage' = "over"
      BY <2>2, Zenon DEF Hear
    <3>2. PICK n \in 0 .. Len(d.text) :
            /\ answer' = d
            /\ \/ /\ location' = SearchReply(d.text, n).location[1] /\ stage' = "fetch"
                  /\ SearchReply(d.text, n).location # NotGiven
               \/ stage' = "over"
      BY <3>1, Zenon
    <3>3. SearchReply(d.text, n).location \in {NotGiven, Given(d.location)}
      BY Sent, LocationWhole
    <3>4. peer' = Unknown /\ target' = Unknown
      BY <2>2 DEF Hear, SearchIsAt
    <3>5. stage' = "over" \/ (stage' = "fetch" /\ location' = answer'.location)
      BY <3>2, <3>3 DEF Given
    <3> QED BY <3>2, <3>4, <3>5 DEF SearchIsAt
  <2>3. CASE BadUrl
    BY <2>3 DEF BadUrl, SearchIsAt
  <2>4. CASE Fetch
    <3>1. answer \in Datagrams /\ location = answer.location /\ target = Unknown
      BY <2>4 DEF Fetch, SearchIsAt
    <3>2. ParseURL(location) # NoUrl
          /\ peer' = [host |-> Resolved(ParseURL(location).host), port |-> ParseURL(location).port]
      BY <2>4 DEF Fetch
    <3>3. peer' = Named(answer)
      BY <3>1, <3>2, Sent, Leads
    <3>4. stage' = "description" /\ answer' = answer /\ location' = location /\ target' = target
      BY <2>4 DEF Fetch
    <3> QED BY <3>1, <3>2, <3>3, <3>4 DEF SearchIsAt, Named
  <2>5. CASE ReadDescription
    BY <2>5 DEF ReadDescription, SearchIsAt, Named
  <2>6. CASE TakeDevice
    <3>1. answer \in Datagrams /\ location = answer.location /\ peer = Named(answer) /\ target = Unknown
      BY <2>6 DEF TakeDevice, Described, SearchIsAt
    <3>2. stage' = "known" /\ answer' = answer /\ peer' = peer
          /\ (target' = target \/ target' = Walk(location))
      BY <2>6 DEF TakeDevice, Uses
    <3>3. answer.explicit => Walk(location) \in {Unknown, Named(answer)}
      BY <3>1, Sent, Leads
    <3> QED BY <3>1, <3>2, <3>3 DEF SearchIsAt, Named
  <2>7. CASE TakeSecond
    BY <2>7 DEF TakeSecond, Uses, SearchIsAt, Named
  <2>8. CASE PassOver
    BY <2>8 DEF PassOver, SearchIsAt, Named
  <2>9. CASE Call
    BY <2>9 DEF Call, SearchIsAt, Named
  <2>10. CASE ReadReply
    BY <2>10 DEF ReadReply, SearchIsAt, Named
  <2>11. CASE Replied
    <3>1. UNCHANGED <<answer, location, peer, target>> /\ stage' \in {"listing", "over"}
      BY <2>11 DEF Replied
    <3> QED BY <3>1 DEF SearchIsAt, Named
  <2>12. CASE ReadListing
    BY <2>12 DEF ReadListing, SearchIsAt, Named
  <2>13. CASE Listed
    BY <2>13 DEF Listed, SearchIsAt, Named
  <2> QED
    BY <2>1, <2>2, <2>3, <2>4, <2>5, <2>6, <2>7, <2>8, <2>9, <2>10, <2>11, <2>12,
       <2>13 DEF Next, Ended
<1> QED
  BY <1>1, <1>2, PTL DEF Spec

\* If devices send their location by the protocol it is taken whole or not at all,
\* wherever the answer is cut, and leads to the host and the port it names, and
\* to the same ones if upnp_discover() takes it apart once more
\* (parseMSEARCHReply, parseURL, connecthostport, upnp_discover).
THEOREM LocationIsReached == AllSent => (Spec => []LocationReached)
<1>1. SearchIsAt => LocationReached
  BY DEF SearchIsAt, LocationReached, Named
<1> QED
  BY <1>1, SearchHolds, PTL

-----------------------------------------------------------------------------
(***************************************************************************)
(* The calls.  For a document that is laid out in items, each loop of the  *)
(* parser is at one place of an item, and the calls so far are those of    *)
(* the items before it and of the part of this item that is behind it.     *)
(* Each kind of place is a predicate of the symbols t, the calls cs, the   *)
(* items f, the symbol x the parser is at, where it began (fr) and the     *)
(* calls it has made (made).                                               *)
(***************************************************************************)
Upto(cs, p, made) == p \in 0 .. Len(cs) /\ made = SubSeq(cs, 1, p)

OutPlace(t, cs, f, x, made) == x \in DOMAIN f /\ Upto(cs, f[x], made)

EndItem(t, cs, f, ends, b, e) ==
  /\ b \in DOMAIN f /\ e \in DOMAIN f /\ EndTag(t, b, e)
  /\ IF ends THEN NextCall(cs, f[b], f[e], "end", SubSeq(t, b + 2, e - 2)) ELSE f[e] = f[b]

ClosePlace(t, cs, f, ends, x, fr, made) ==
  \E b, e \in DOMAIN f :
    /\ EndItem(t, cs, f, ends, b, e) /\ Upto(cs, f[b], made)
    /\ fr = b + 2 /\ x \in fr .. e - 1

\* In a tag that ends at g and has attributes between the places A.
TagPlace(t, cs, f, g, e, A, made) ==
  /\ g \in 1 .. Len(t) /\ A \in SUBSET (1 .. g) /\ Attributes(t, g, A)
  /\ e \in DOMAIN f /\ \E p \in 0 .. Len(cs) : Upto(cs, p, made) /\ TagEnds(t, cs, g, e, p, f[e])

\* In the name of a start tag, or in its prefix.
StartPlace(t, cs, f, b, x, fr, made) ==
  \E k, z, g \in 1 .. Len(t), e \in DOMAIN f :
    /\ b \in DOMAIN f /\ Naming(t, b, k, z) /\ Upto(cs, f[b], made)
    /\ NextCall(cs, f[b], f[b] + 1, "start", SubSeq(t, k, z - 1))
    /\ \E A \in SUBSET (1 .. g) :
         z \in A /\ TagPlace(t, cs, f, g, e, A, SubSeq(cs, 1, f[b] + 1))
    /\ \/ fr = k /\ x \in k .. z
       \/ k # b + 1 /\ fr = b + 1 /\ x \in fr .. k - 2

NamePlace(t, cs, f, ends, x, fr, made) ==
  \/ OutPlace(t, cs, f, x, made) /\ fr = x /\ x <= Len(t) /\ t[x] \in {Space, ">"}
  \/ \E b, e \in DOMAIN f :
       EndItem(t, cs, f, ends, b, e) /\ Upto(cs, f[b], made) /\ x = b + 1 /\ fr = x
  \/ \E b \in DOMAIN f : StartPlace(t, cs, f, b, x, fr, made)

AttPlace(t, cs, f, x, made) ==
  \E g \in 1 .. Len(t), e \in DOMAIN f : \E A \in SUBSET (1 .. g) :
    TagPlace(t, cs, f, g, e, A, made) /\ x \in A

\* In an attribute with its equal sign at s and its value from q to n - 1.
ValuePlace(t, cs, f, s, q, n, made) ==
  \E g \in 1 .. Len(t), e \in DOMAIN f : \E A \in SUBSET (1 .. g) :
    TagPlace(t, cs, f, g, e, A, made) /\ n \in A /\ Valued(t, s, q, n)

SignPlace(t, cs, f, x, made) ==
  \E s, q, n \in 1 .. Len(t) :
    ValuePlace(t, cs, f, s, q, n, made) /\ x \in 1 .. s /\ Free(t, x, s - 1, {"="})

AttGapPlace(t, cs, f, x, made) ==
  \E s, q, n \in 1 .. Len(t) : ValuePlace(t, cs, f, s, q, n, made) /\ x \in s + 1 .. q

QuotedPlace(t, cs, f, x, fr, made) ==
  \E s, q, n \in 1 .. Len(t) :
    ValuePlace(t, cs, f, s, q, n, made) /\ t[q] \in Quotes /\ fr = q + 1 /\ x \in fr .. n - 1

BarePlace(t, cs, f, x, made) ==
  \E s, q, n \in 1 .. Len(t) :
    ValuePlace(t, cs, f, s, q, n, made) /\ t[q] \notin Quotes /\ x \in q + 1 .. n - 1

GapPlace(t, cs, f, x, fr, made) ==
  \E e \in DOMAIN f, p \in 0 .. Len(cs) :
    /\ Upto(cs, p, made) /\ Content(t, cs, fr, e, p, f[e])
    /\ fr \in 1 .. x /\ x <= Len(t) /\ Filled(t, fr, x - 1)

WordsAre(t, cs, i, e, p, q) ==
  /\ Words(t, i, e)
  /\ IF i < e /\ t[e + 1] = "/" THEN NextCall(cs, p, q, "data", SubSeq(t, i, e - 1)) ELSE q = p

\* Behind white space the text may have been cut at its end.
DataPlace(t, cs, f, en, x, fr, made) ==
  \E e \in DOMAIN f, p \in 0 .. Len(cs) :
    /\ Upto(cs, p, made) /\ fr \in 1 .. x
    /\ x < en \/ Filled(t, fr, x - 1)
    /\ \/ WordsAre(t, cs, fr, e, p, f[e]) /\ x <= e
       \/ x = en /\ en < Len(t)

SectionIs(t, cs, i, x, y, e, p, q) ==
  /\ Section(t, i, x, y, e)
  /\ IF x + 2 < y THEN NextCall(cs, p, q, "data", SubSeq(t, x + 2, y - 1)) ELSE q = p

CdataPlace(t, cs, f, en, x, fr, made) ==
  \E e \in DOMAIN f, i, b, y \in 1 .. Len(t), p \in 0 .. Len(cs) :
    /\ Upto(cs, p, made) /\ SectionIs(t, cs, i, b, y, e, p, f[e])
    /\ fr = b + 2 /\ x \in fr .. y /\ (x = fr \/ x + 1 < en)

\* A walk that is cut: some of the calls have been made.
Cut(t, cs, en, made) ==
  en < Len(t) /\ \E p \in 0 .. Len(cs) : made = SubSeq(cs, 1, p)

TailPlace(t, cs, f, en, x, made) ==
  \/ \E e \in DOMAIN f :
       /\ Upto(cs, f[e], made) /\ x \in 1 .. e /\ e <= Len(t) /\ t[e] = "<"
       /\ Free(t, x, e - 1, {"<"})
  \/ x = en /\ t[x] # "<" /\ Cut(t, cs, en, made)

Place(t, cs, f, ends, en, ph, x, fr, made) ==
  CASE ph = "out" -> OutPlace(t, cs, f, x, made)
    [] ph = "name" -> NamePlace(t, cs, f, ends, x, fr, made)
    [] ph = "close" -> ClosePlace(t, cs, f, ends, x, fr, made)
    [] ph = "att" -> AttPlace(t, cs, f, x, made)
    [] ph \in {"attname", "attsign"} -> SignPlace(t, cs, f, x, made)
    [] ph = "attgap" -> AttGapPlace(t, cs, f, x, made)
    [] ph = "quoted" -> QuotedPlace(t, cs, f, x, fr, made)
    [] ph = "bare" -> BarePlace(t, cs, f, x, made)
    [] ph = "gap" -> GapPlace(t, cs, f, x, fr, made)
    [] ph = "data" -> DataPlace(t, cs, f, en, x, fr, made)
    [] ph = "cdata" -> CdataPlace(t, cs, f, en, x, fr, made)
    [] ph = "tail" -> TailPlace(t, cs, f, en, x, made)

\* Where the parser has stopped.
Stopped(t, cs, en, made) ==
  \E p \in 0 .. Len(cs) :
    \/ made = SubSeq(cs, 1, p) /\ (en = Len(t) => p = Len(cs))
    \/ /\ en < Len(t)
       /\ \E v \in Seq(STRING) :
            IsBlank(v) /\ made = Append(SubSeq(cs, 1, p), [call |-> "data", part |-> v])

Reading(t, cs, f, ends, en, ph, x, fr, made) ==
  IF ph = "done" THEN Stopped(t, cs, en, made)
  ELSE IF x > en THEN Cut(t, cs, en, made)
  ELSE Place(t, cs, f, ends, en, ph, x, fr, made)

-----------------------------------------------------------------------------
Laid(t, cs, f, ends) ==
  /\ t \in Seq(STRING) /\ cs \in Seq(CallRecords) /\ LaidOut(t, cs, f, ends)

LEMMA LaidNumbers ==
  ASSUME NEW t, NEW cs, NEW f, NEW ends, Laid(t, cs, f, ends)
  PROVE  /\ Len(t) \in Nat /\ Len(cs) \in Nat
         /\ \A b \in DOMAIN f : b \in 1 .. Len(t) + 1 /\ f[b] \in 0 .. Len(cs)
<1>1. Len(t) \in Nat /\ Len(cs) \in Nat
  BY LenProperties DEF Laid
<1> QED
  BY <1>1 DEF Laid, LaidOut

\* One call more.
LEMMA OneMore ==
  ASSUME NEW cs \in Seq(CallRecords), NEW p, NEW q, NEW c, NEW v, NEW made,
         Upto(cs, p, made), NextCall(cs, p, q, c, v)
  PROVE  Upto(cs, q, Append(made, [call |-> c, part |-> v])) /\ q = p + 1
<1>1. Len(cs) \in Nat /\ DOMAIN cs = 1 .. Len(cs)
  BY LenProperties
<1>2. p \in 0 .. Len(cs) /\ q = p + 1 /\ q \in 1 .. Len(cs) /\ made = SubSeq(cs, 1, p)
  BY <1>1 DEF Upto, NextCall
<1>3. q <= Len(cs) /\ q - 1 = p /\ 1 \in 1 .. Len(cs) /\ q \in 1 .. Len(cs)
  BY <1>1, <1>2
<1>4. SubSeq(cs, 1, q) = Append(SubSeq(cs, 1, p), cs[q])
  BY <1>1, <1>2
<1>5. cs[q] = [call |-> c, part |-> v]
  BY DEF NextCall
<1> QED
  BY <1>1, <1>2, <1>4, <1>5 DEF Upto

\* In every loop the calls are a first part of those of the document, and the
\* document goes on.
LEMMA PlacesTell ==
  ASSUME NEW t, NEW cs, NEW f, NEW ends, NEW en \in 0 .. Len(t), Laid(t, cs, f, ends),
         NEW ph \in Phases \ {"done"}, NEW x \in Nat, NEW fr, NEW made,
         Place(t, cs, f, ends, en, ph, x, fr, made)
  PROVE  /\ \E p \in 0 .. Len(cs) : made = SubSeq(cs, 1, p)
         /\ ph # "out" => x <= Len(t)
<1>1. /\ Len(t) \in Nat /\ Len(cs) \in Nat
      /\ \A b \in DOMAIN f : b \in 1 .. Len(t) + 1 /\ f[b] \in 0 .. Len(cs)
  BY LaidNumbers
<1>2. CASE ph = "out"
  BY <1>1, <1>2 DEF Place, OutPlace, Upto
<1>3. CASE ph = "name"
  <2>1. NamePlace(t, cs, f, ends, x, fr, made)
    BY <1>3 DEF Place
  <2>2. CASE OutPlace(t, cs, f, x, made) /\ fr = x /\ x <= Len(t) /\ t[x] \in {Space, ">"}
    BY <1>1, <1>3, <2>2 DEF OutPlace, Upto
  <2>3. CASE \E b, e \in DOMAIN f :
               EndItem(t, cs, f, ends, b, e) /\ Upto(cs, f[b], made) /\ x = b + 1 /\ fr = x
    <3>1. PICK b \in DOMAIN f, e \in DOMAIN f :
            EndItem(t, cs, f, ends, b, e) /\ Upto(cs, f[b], made) /\ x = b + 1
      BY <2>3
    <3>2. b + 2 < e /\ e - 1 <= Len(t)
      BY <3>1 DEF EndItem, EndTag
    <3> QED
      BY <1>1, <1>3, <3>1, <3>2, SMTT(30) DEF Upto
  <2>4. CASE \E b \in DOMAIN f : StartPlace(t, cs, f, b, x, fr, made)
    <3>1. PICK b \in DOMAIN f, k \in 1 .. Len(t), z \in 1 .. Len(t) :
            /\ Upto(cs, f[b], made) /\ z <= Len(t)
            /\ \/ fr = k /\ x \in k .. z
               \/ k # b + 1 /\ fr = b + 1 /\ x \in fr .. k - 2
      BY <1>1, <2>4 DEF StartPlace
    <3> QED
      BY <1>1, <1>3, <3>1 DEF Upto
  <2> QED
    BY <2>1, <2>2, <2>3, <2>4 DEF NamePlace
<1>4. CASE ph = "close"
  BY <1>1, <1>4, SMTT(30) DEF Place, ClosePlace, EndItem, EndTag, Upto
<1>5. CASE ph = "att"
  BY <1>1, <1>5 DEF Place, AttPlace, TagPlace, Upto
<1>6. CASE ph \in {"attname", "attsign"}
  <2>1. SignPlace(t, cs, f, x, made)
    BY <1>6 DEF Place
  <2> QED
    BY <1>1, <1>6, <2>1 DEF SignPlace, ValuePlace, TagPlace, Upto
<1>7. CASE ph = "attgap"
  BY <1>1, <1>7 DEF Place, AttGapPlace, ValuePlace, TagPlace, Upto
<1>8. CASE ph = "quoted"
  BY <1>1, <1>8, SMTT(30) DEF Place, QuotedPlace, ValuePlace, TagPlace, Upto
<1>9. CASE ph = "bare"
  BY <1>1, <1>9, SMTT(30) DEF Place, BarePlace, ValuePlace, TagPlace, Upto
<1>10. CASE ph = "gap"
  BY <1>1, <1>10 DEF Place, GapPlace, Upto
<1>11. CASE ph = "data"
  BY <1>1, <1>11, SMTT(30) DEF Place, DataPlace, WordsAre, Words, Upto
<1>12. CASE ph = "cdata"
  <2>1. PICK e \in DOMAIN f, i \in 1 .. Len(t), b \in 1 .. Len(t), y \in 1 .. Len(t), p \in 0 .. Len(cs) :
          /\ Upto(cs, p, made) /\ SectionIs(t, cs, i, b, y, e, p, f[e])
          /\ fr = b + 2 /\ x \in fr .. y
    BY <1>12 DEF Place, CdataPlace
  <2>2. y < e /\ e <= Len(t)
    BY <2>1 DEF SectionIs, Section
  <2>3. y < Len(t) /\ x <= y
    BY <1>1, <2>1, <2>2
  <2> QED
    BY <1>1, <1>12, <2>1, <2>3 DEF Upto
<1>13. CASE ph = "tail"
  BY <1>1, <1>13 DEF Place, TailPlace, Upto, Cut
<1> QED
  BY <1>2, <1>3, <1>4, <1>5, <1>6, <1>7, <1>8, <1>9, <1>10, <1>11, <1>12, <1>13 DEF Phases

\* Where the document ends between two items all calls have been made, also if
\* one symbol is left.
LEMMA OutEnds ==
  ASSUME NEW t, NEW cs, NEW f, NEW ends, Laid(t, cs, f, ends),
         NEW x \in Nat, NEW made, OutPlace(t, cs, f, x, made), x >= Len(t)
  PROVE  made = SubSeq(cs, 1, Len(cs))
<1>1. /\ Len(t) \in Nat /\ Len(cs) \in Nat
      /\ \A b \in DOMAIN f : b \in 1 .. Len(t) + 1 /\ f[b] \in 0 .. Len(cs)
  BY LaidNumbers
<1>2. x \in DOMAIN f /\ made = SubSeq(cs, 1, f[x])
  BY DEF OutPlace, Upto
<1>3. CASE x = Len(t) + 1
  BY <1>2, <1>3 DEF Laid, LaidOut
<1>4. CASE x # Len(t) + 1
  <2>1. x = Len(t)
    BY <1>1, <1>2, <1>4
  <2>2. PICK e \in DOMAIN f : Item(t, cs, ends, x, e, f[x], f[e])
    BY <1>2, <1>4 DEF Laid, LaidOut
  <2>3. e \in 1 .. x + 1
    BY <1>1, <2>1, <2>2
  <2>4. ~EndTag(t, x, e)
    BY <1>1, <2>1, <2>3 DEF EndTag
  <2>5. ~StartTag(t, cs, x, e, f[x], f[e])
    BY <1>1, <2>1, <2>3 DEF StartTag, Naming
  <2>6. e = Len(t) + 1 /\ f[e] = f[x]
    BY <2>1, <2>2, <2>4, <2>5 DEF Item, Outside
  <2>7. f[e] = Len(cs)
    BY <2>2, <2>6 DEF Laid, LaidOut
  <2> QED
    BY <1>2, <2>6, <2>7
<1> QED
  BY <1>3, <1>4

\* So a loop that stops where the text ends has made all the calls, and one that
\* stops at the cut a first part of them.
LEMMA Stops ==
  ASSUME NEW t, NEW cs, NEW f, NEW ends, NEW en \in 0 .. Len(t), Laid(t, cs, f, ends),
         NEW ph \in Phases \ {"done"}, NEW x \in Nat, NEW fr, NEW made,
         Place(t, cs, f, ends, en, ph, x, fr, made),
         x > en \/ (ph = "out" /\ x >= en)
  PROVE  Stopped(t, cs, en, made) /\ (ph # "out" => Cut(t, cs, en, made))
<1>1. /\ \E p \in 0 .. Len(cs) : made = SubSeq(cs, 1, p)
      /\ ph # "out" => x <= Len(t)
  BY PlacesTell
<1>2. Len(t) \in Nat /\ Len(cs) \in Nat
  BY LaidNumbers
<1>3. CASE en # Len(t)
  BY <1>1, <1>2, <1>3 DEF Stopped, Cut
<1>4. CASE en = Len(t)
  <2>1. ph = "out" /\ x >= Len(t)
    BY <1>1, <1>2, <1>4
  <2>2. made = SubSeq(cs, 1, Len(cs))
    BY <2>1, OutEnds DEF Place
  <2> QED
    BY <1>2, <2>1, <2>2 DEF Stopped
<1> QED
  BY <1>3, <1>4

-----------------------------------------------------------------------------
\* Between two items.
LEMMA OutItem ==
  ASSUME NEW t, NEW cs, NEW f, NEW ends, Laid(t, cs, f, ends),
         NEW x \in 1 .. Len(t), NEW made, OutPlace(t, cs, f, x, made)
  PROVE  /\ Upto(cs, f[x], made) /\ x \in DOMAIN f
         /\ \E e \in DOMAIN f :
              \/ Outside(t, x, e) /\ f[e] = f[x]
              \/ EndItem(t, cs, f, ends, x, e)
              \/ StartTag(t, cs, x, e, f[x], f[e])
<1>1. x \in DOMAIN f /\ Upto(cs, f[x], made) /\ Len(t) \in Nat
  BY LaidNumbers DEF OutPlace
<1>2. x # Len(t) + 1
  BY <1>1
<1>3. PICK e \in DOMAIN f : Item(t, cs, ends, x, e, f[x], f[e])
  BY <1>1, <1>2 DEF Laid, LaidOut
<1> QED
  BY <1>1, <1>3 DEF Item, EndItem

LEMMA Skips ==
  ASSUME NEW t, NEW cs, NEW f, NEW ends, Laid(t, cs, f, ends),
         NEW x \in 1 .. Len(t), NEW made, OutPlace(t, cs, f, x, made),
         t[x] # "<" \/ t[x + 1] = "?"
  PROVE  OutPlace(t, cs, f, x + 1, made)
<1>1. PICK e \in DOMAIN f :
        \/ Outside(t, x, e) /\ f[e] = f[x]
        \/ EndItem(t, cs, f, ends, x, e)
        \/ StartTag(t, cs, x, e, f[x], f[e])
  BY OutItem
<1>2. Upto(cs, f[x], made)
  BY OutItem
<1>3. ~EndItem(t, cs, f, ends, x, e)
  BY DEF EndItem, EndTag
<1>4. ~StartTag(t, cs, x, e, f[x], f[e])
  BY DEF StartTag, Naming
<1> QED
  BY <1>1, <1>2, <1>3, <1>4 DEF Outside, OutPlace

LEMMA Tags ==
  ASSUME NEW t, NEW cs, NEW f, NEW ends, Laid(t, cs, f, ends),
         NEW x \in 1 .. Len(t), NEW made, OutPlace(t, cs, f, x, made),
         t[x] = "<", t[x + 1] # "?"
  PROVE  NamePlace(t, cs, f, ends, x + 1, x + 1, made)
<1>1. PICK e \in DOMAIN f :
        \/ Outside(t, x, e) /\ f[e] = f[x]
        \/ EndItem(t, cs, f, ends, x, e)
        \/ StartTag(t, cs, x, e, f[x], f[e])
  BY OutItem
<1>2. Upto(cs, f[x], made) /\ x \in DOMAIN f
  BY OutItem
<1>0. Len(t) \in Nat /\ Len(cs) \in Nat /\ DOMAIN cs = 1 .. Len(cs)
  BY LenProperties DEF Laid
<1>3. CASE Outside(t, x, e) /\ f[e] = f[x]
  <2>1. e = x + 1 /\ x < Len(t) /\ t[x + 1] \in {Space, ">"}
    BY <1>3 DEF Outside
  <2>2. OutPlace(t, cs, f, x + 1, made)
    BY <1>2, <1>3, <2>1 DEF OutPlace
  <2>3. x + 1 <= Len(t)
    BY <1>0, <2>1
  <2> QED
    BY <2>1, <2>2, <2>3 DEF NamePlace
<1>4. CASE EndItem(t, cs, f, ends, x, e)
  BY <1>2, <1>4 DEF NamePlace
<1>5. CASE StartTag(t, cs, x, e, f[x], f[e])
  <2> DEFINE p == f[x]
  <2>1. PICK k \in x + 1 .. e, z \in x + 1 .. e, g \in x + 1 .. e :
          /\ Naming(t, x, k, z) /\ z <= g /\ g <= Len(t)
          /\ NextCall(cs, p, p + 1, "start", SubSeq(t, k, z - 1))
          /\ TagEnds(t, cs, g, e, p + 1, f[e])
          /\ \E A \in SUBSET (z .. g) : z \in A /\ Attributes(t, g, A)
    BY <1>5 DEF StartTag
  <2>2. PICK A \in SUBSET (z .. g) : z \in A /\ Attributes(t, g, A)
    BY <2>1
  <2>3. e \in Nat /\ k \in 1 .. Len(t) /\ z \in 1 .. Len(t) /\ g \in 1 .. Len(t)
        /\ A \in SUBSET (1 .. g)
    BY <1>0, <2>1, <2>2, LaidNumbers, SMTT(30) DEF Naming
  <2>4. p + 1 \in 0 .. Len(cs)
    BY <1>0, <1>2, <2>1 DEF NextCall, Upto
  <2>5. Upto(cs, p + 1, SubSeq(cs, 1, p + 1))
    BY <2>4 DEF Upto
  <2>6. TagPlace(t, cs, f, g, e, A, SubSeq(cs, 1, p + 1))
    BY <2>1, <2>2, <2>3, <2>4, <2>5 DEF TagPlace
  <2>7. \/ x + 1 = k /\ x + 1 \in k .. z
        \/ k # x + 1 /\ x + 1 \in x + 1 .. k - 2
    BY <2>1, <2>3 DEF Naming
  <2>8. StartPlace(t, cs, f, x, x + 1, x + 1, made)
    BY <1>2, <2>1, <2>2, <2>3, <2>6, <2>7 DEF StartPlace
  <2> QED
    BY <1>2, <2>8 DEF NamePlace
<1> QED
  BY <1>1, <1>3, <1>4, <1>5

\* In a name.
LEMMA StartPlaceIs ==
  ASSUME NEW t, NEW cs, NEW f, NEW ends, Laid(t, cs, f, ends),
         NEW x \in 1 .. Len(t), NEW fr, NEW made, NEW b, StartPlace(t, cs, f, b, x, fr, made)
  PROVE  \E k, z, g \in 1 .. Len(t), e \in DOMAIN f : \E A \in SUBSET (1 .. g) :
           /\ b \in DOMAIN f /\ b \in Nat /\ Naming(t, b, k, z) /\ Upto(cs, f[b], made)
           /\ NextCall(cs, f[b], f[b] + 1, "start", SubSeq(t, k, z - 1))
           /\ z \in A /\ TagPlace(t, cs, f, g, e, A, SubSeq(cs, 1, f[b] + 1))
           /\ \/ fr = k /\ x \in k .. z
              \/ k # b + 1 /\ fr = b + 1 /\ x \in fr .. k - 2
  BY LaidNumbers, SMTT(30) DEF StartPlace

LEMMA Names ==
  ASSUME NEW t, NEW cs, NEW f, NEW ends, Laid(t, cs, f, ends),
         NEW x \in 1 .. Len(t), NEW fr, NEW made, NamePlace(t, cs, f, ends, x, fr, made),
         t[x] \notin {Space, ">", "/"}
  PROVE  /\ x < Len(t)
         /\ t[x + 1] = ":" => NamePlace(t, cs, f, ends, x + 2, x + 2, made)
         /\ t[x + 1] # ":" => NamePlace(t, cs, f, ends, x + 1, fr, made)
<1>1. PICK b \in DOMAIN f : StartPlace(t, cs, f, b, x, fr, made)
  BY DEF NamePlace, EndItem, EndTag
<1>2. PICK k \in 1 .. Len(t), z \in 1 .. Len(t), g \in 1 .. Len(t), e \in DOMAIN f :
        \E A \in SUBSET (1 .. g) :
           /\ b \in DOMAIN f /\ b \in Nat /\ Naming(t, b, k, z) /\ Upto(cs, f[b], made)
           /\ NextCall(cs, f[b], f[b] + 1, "start", SubSeq(t, k, z - 1))
           /\ z \in A /\ TagPlace(t, cs, f, g, e, A, SubSeq(cs, 1, f[b] + 1))
           /\ \/ fr = k /\ x \in k .. z
              \/ k # b + 1 /\ fr = b + 1 /\ x \in fr .. k - 2
  BY <1>1, StartPlaceIs
<1>3. PICK A \in SUBSET (1 .. g) :
         z \in A /\ TagPlace(t, cs, f, g, e, A, SubSeq(cs, 1, f[b] + 1))
  BY <1>2
<1>4. Len(t) \in Nat
  BY LaidNumbers
<1>5. /\ b < k /\ k < z /\ z <= Len(t) /\ t[z] \in {Space, ">", "/"}
      /\ \A j \in b + 1 .. z - 1 : t[j] \notin {Space, ">", "/"}
      /\ \A j \in k .. z - 1 : t[j] # ":"
      /\ k # b + 1 => k > b + 2 /\ t[k - 1] = ":" /\ \A j \in b + 1 .. k - 2 : t[j] # ":"
  BY <1>2 DEF Naming, Free
<1>6. ASSUME NEW y, NEW r,
             \/ r = k /\ y \in k .. z
             \/ k # b + 1 /\ r = b + 1 /\ y \in r .. k - 2
      PROVE  NamePlace(t, cs, f, ends, y, r, made)
  <2>1. StartPlace(t, cs, f, b, y, r, made)
    BY <1>2, <1>3, <1>6 DEF StartPlace
  <2> QED
    BY <1>1, <2>1 DEF NamePlace
<1>7. CASE fr = k /\ x \in k .. z
  <2>1. x # z
    BY <1>5
  <2>2. x + 1 \in k .. z /\ x < Len(t)
    BY <1>4, <1>5, <1>7, <2>1
  <2>3. t[x + 1] # ":"
    <3>1. CASE x + 1 = z
      BY <1>5, <3>1 DEF Space
    <3>2. CASE x + 1 # z
      <4>1. x + 1 \in k .. z - 1
        BY <2>2, <3>2
      <4> QED
        BY <1>5, <4>1
    <3> QED
      BY <3>1, <3>2
  <2> QED
    BY <1>6, <1>7, <2>2, <2>3
<1>8. CASE k # b + 1 /\ fr = b + 1 /\ x \in fr .. k - 2
  <2>1. k > b + 2 /\ t[k - 1] = ":" /\ \A j \in b + 1 .. k - 2 : t[j] # ":"
    BY <1>5, <1>8
  <2>2. x < Len(t)
    BY <1>2, <1>4, <1>5, <1>8
  <2>3. CASE x = k - 2
    <3>1. t[x + 1] = ":" /\ x + 2 = k /\ x + 2 \in k .. z
      BY <1>2, <1>5, <2>1, <2>3
    <3> QED
      BY <1>6, <2>2, <3>1
  <2>4. CASE x # k - 2
    <3>1. x + 1 \in b + 1 .. k - 2
      BY <1>2, <1>8, <2>4
    <3>2. t[x + 1] # ":"
      BY <2>1, <3>1
    <3> QED
      BY <1>6, <1>8, <2>2, <3>1, <3>2
  <2> QED
    BY <2>3, <2>4
<1> QED
  BY <1>2, <1>7, <1>8

LEMMA NameDone ==
  ASSUME NEW t, NEW cs, NEW f, NEW ends, Laid(t, cs, f, ends),
         NEW x \in 1 .. Len(t), NEW fr, NEW made, NamePlace(t, cs, f, ends, x, fr, made),
         t[x] \in {Space, ">", "/"}, fr # x
  PROVE  AttPlace(t, cs, f, x, Append(made, [call |-> "start", part |-> SubSeq(t, fr, x - 1)]))
<1>1. PICK b \in DOMAIN f : StartPlace(t, cs, f, b, x, fr, made)
  BY DEF NamePlace
<1>2. PICK k \in 1 .. Len(t), z \in 1 .. Len(t), g \in 1 .. Len(t), e \in DOMAIN f :
        \E A \in SUBSET (1 .. g) :
           /\ b \in DOMAIN f /\ b \in Nat /\ Naming(t, b, k, z) /\ Upto(cs, f[b], made)
           /\ NextCall(cs, f[b], f[b] + 1, "start", SubSeq(t, k, z - 1))
           /\ z \in A /\ TagPlace(t, cs, f, g, e, A, SubSeq(cs, 1, f[b] + 1))
           /\ \/ fr = k /\ x \in k .. z
              \/ k # b + 1 /\ fr = b + 1 /\ x \in fr .. k - 2
  BY <1>1, StartPlaceIs
<1>3. PICK A \in SUBSET (1 .. g) :
         z \in A /\ TagPlace(t, cs, f, g, e, A, SubSeq(cs, 1, f[b] + 1))
  BY <1>2
<1>4. /\ b < k /\ k < z
      /\ \A j \in b + 1 .. z - 1 : t[j] \notin {Space, ">", "/"}
  BY <1>2 DEF Naming, Free
<1>5. fr = k /\ x = z
  <2>1. x \notin b + 1 .. z - 1
    BY <1>4
  <2> QED
    BY <1>2, <1>4, <2>1
<1>6. Upto(cs, f[b] + 1, Append(made, [call |-> "start", part |-> SubSeq(t, fr, x - 1)]))
  BY <1>2, <1>5, OneMore, ZenonT(40) DEF Laid
<1>7. Append(made, [call |-> "start", part |-> SubSeq(t, fr, x - 1)]) = SubSeq(cs, 1, f[b] + 1)
  BY <1>6 DEF Upto
<1> QED
  BY <1>2, <1>3, <1>5, <1>7 DEF AttPlace

\* Where a name would begin there is none.
LEMMA NoName ==
  ASSUME NEW t, NEW cs, NEW f, NEW ends, Laid(t, cs, f, ends),
         NEW x \in 1 .. Len(t), NEW made, NamePlace(t, cs, f, ends, x, x, made)
  PROVE  /\ t[x] = "/" => ClosePlace(t, cs, f, ends, x + 1, x + 1, made)
         /\ t[x] \in {Space, ">"} => OutPlace(t, cs, f, x, made)
<1>1. CASE OutPlace(t, cs, f, x, made) /\ t[x] \in {Space, ">"}
  BY <1>1 DEF Space
<1>2. CASE \E b, e \in DOMAIN f :
             EndItem(t, cs, f, ends, b, e) /\ Upto(cs, f[b], made) /\ x = b + 1
  <2>1. PICK b \in DOMAIN f, e \in DOMAIN f :
          EndItem(t, cs, f, ends, b, e) /\ Upto(cs, f[b], made) /\ x = b + 1
    BY <1>2
  <2>2. b + 2 < e /\ t[x] = "/" /\ b \in Nat /\ e \in Nat
    BY <2>1, LaidNumbers, SMTT(30) DEF EndItem, EndTag
  <2>3. x + 1 = b + 2 /\ x + 1 \in x + 1 .. e - 1
    BY <2>1, <2>2
  <2>4. ClosePlace(t, cs, f, ends, x + 1, x + 1, made)
    BY <2>1, <2>3 DEF ClosePlace
  <2> QED
    BY <2>2, <2>4 DEF Space
<1>3. CASE \E b \in DOMAIN f : StartPlace(t, cs, f, b, x, x, made)
  <2>1. PICK b \in DOMAIN f : StartPlace(t, cs, f, b, x, x, made)
    BY <1>3
  <2>2. PICK k \in 1 .. Len(t), z \in 1 .. Len(t) :
          /\ b \in Nat /\ Naming(t, b, k, z)
          /\ \/ x = k /\ x \in k .. z
             \/ k # b + 1 /\ x = b + 1 /\ x \in x .. k - 2
    BY <2>1, StartPlaceIs
  <2>3. t[x] \notin {Space, ">", "/"}
    BY <2>2 DEF Naming, Free
  <2> QED
    BY <2>3
<1> QED
  BY <1>1, <1>2, <1>3 DEF NamePlace

\* In the name of an end tag.
LEMMA CloseGoes ==
  ASSUME NEW t, NEW cs, NEW f, NEW ends, Laid(t, cs, f, ends),
         NEW x \in 1 .. Len(t), NEW fr, NEW made, ClosePlace(t, cs, f, ends, x, fr, made)
  PROVE  /\ t[x] # ">" => ClosePlace(t, cs, f, ends, x + 1, fr, made)
         /\ t[x] = ">" =>
              OutPlace(t, cs, f, x + 1,
                       IF ends THEN Append(made, [call |-> "end", part |-> SubSeq(t, fr, x - 1)])
                       ELSE made)
<1>1. PICK b \in DOMAIN f, e \in DOMAIN f :
        /\ EndItem(t, cs, f, ends, b, e) /\ Upto(cs, f[b], made)
        /\ fr = b + 2 /\ x \in fr .. e - 1
  BY DEF ClosePlace
<1>2. b \in Nat /\ e \in Nat
  BY LaidNumbers
<1>3. t[e - 1] = ">" /\ Free(t, b + 2, e - 2, {">"})
  BY <1>1 DEF EndItem, EndTag
<1>4. CASE t[x] # ">"
  <2>1. x # e - 1
    BY <1>3, <1>4
  <2>2. x + 1 \in fr .. e - 1
    BY <1>1, <1>2, <2>1
  <2> QED
    BY <1>1, <1>4, <2>2 DEF ClosePlace
<1>5. CASE t[x] = ">"
  <2>1. x \notin b + 2 .. e - 2
    BY <1>3, <1>5 DEF Free
  <2>2. x + 1 = e /\ x - 1 = e - 2
    BY <1>1, <1>2, <2>1
  <2>3. CASE ends
    <3>1. NextCall(cs, f[b], f[e], "end", SubSeq(t, fr, x - 1))
      BY <1>1, <2>2, <2>3 DEF EndItem
    <3>2. Upto(cs, f[e], Append(made, [call |-> "end", part |-> SubSeq(t, fr, x - 1)]))
      BY <1>1, <3>1, OneMore DEF Laid
    <3> QED
      BY <1>5, <2>2, <2>3, <3>2 DEF OutPlace
  <2>4. CASE ~ends
    BY <1>1, <1>5, <2>2, <2>4 DEF OutPlace, EndItem
  <2> QED
    BY <2>3, <2>4
<1> QED
  BY <1>4, <1>5

-----------------------------------------------------------------------------
\* Among the attributes.
LEMMA TagPlaceIs ==
  ASSUME NEW t, NEW cs, NEW f, NEW g, NEW e, NEW A, NEW made,
         TagPlace(t, cs, f, g, e, A, made)
  PROVE  /\ g \in 1 .. Len(t) /\ A \in SUBSET (1 .. g) /\ t[g] \in {"/", ">"}
         /\ \A a \in A : \/ a = g
                         \/ \E n \in A : (n = a + 1 /\ t[a] = Space) \/ Attribute(t, a, n)
  BY DEF TagPlace, TagEnds, Attributes

LEMMA Atts ==
  ASSUME NEW t, NEW cs, NEW f, NEW ends, Laid(t, cs, f, ends),
         NEW x \in 1 .. Len(t), NEW made, AttPlace(t, cs, f, x, made)
  PROVE  /\ t[x] = Space => AttPlace(t, cs, f, x + 1, made)
         /\ t[x] \notin {Space, "/", ">"} => t[x] # "=" /\ SignPlace(t, cs, f, x + 1, made)
         /\ t[x] = "/" => OutPlace(t, cs, f, x, made)
         /\ t[x] = ">" => GapPlace(t, cs, f, x + 1, x + 1, made)
<1>1. PICK g \in 1 .. Len(t), e \in DOMAIN f : \E A \in SUBSET (1 .. g) :
        TagPlace(t, cs, f, g, e, A, made) /\ x \in A
  BY DEF AttPlace
<1>2. PICK A \in SUBSET (1 .. g) : TagPlace(t, cs, f, g, e, A, made) /\ x \in A
  BY <1>1
<1>3. /\ t[g] \in {"/", ">"}
      /\ \/ x = g
         \/ \E n \in A : (n = x + 1 /\ t[x] = Space) \/ Attribute(t, x, n)
  BY <1>2, TagPlaceIs
<1>4. Len(t) \in Nat
  BY LaidNumbers
<1>5. CASE x = g
  <2>1. PICK p \in 0 .. Len(cs) : Upto(cs, p, made) /\ TagEnds(t, cs, g, e, p, f[e])
    BY <1>2 DEF TagPlace
  <2>2. CASE t[x] = "/"
    BY <1>5, <2>1, <2>2 DEF TagEnds, OutPlace, Space
  <2>3. CASE t[x] = ">"
    <3>1. Content(t, cs, x + 1, e, p, f[e])
      BY <1>5, <2>1, <2>3 DEF TagEnds
    <3>2. x + 1 <= Len(t)
      BY <1>4, <3>1, LaidNumbers DEF Content, Words, Section
    <3>3. Filled(t, x + 1, (x + 1) - 1) /\ x + 1 \in 1 .. x + 1
      BY DEF Filled
    <3>4. GapPlace(t, cs, f, x + 1, x + 1, made)
      BY <2>1, <3>1, <3>2, <3>3 DEF GapPlace
    <3> QED
      BY <2>3, <3>4 DEF Space
  <2> QED
    BY <1>3, <1>5, <2>2, <2>3
<1>6. CASE \E n \in A : n = x + 1 /\ t[x] = Space
  BY <1>1, <1>2, <1>6 DEF AttPlace, Space
<1>7. CASE \E n \in A : Attribute(t, x, n)
  <2>1. PICK n \in A : Attribute(t, x, n)
    BY <1>7
  <2>2. n \in 1 .. Len(t)
    BY <1>4, <1>2, <2>1
  <2>3. PICK s \in x + 1 .. n - 1, q \in x + 1 .. n - 1 :
          t[x] \notin {Space, "/", ">", "="} /\ Free(t, x, s - 1, {"="}) /\ Valued(t, s, q, n)
    BY <2>1 DEF Attribute
  <2>4. s \in 1 .. Len(t) /\ q \in 1 .. Len(t) /\ x + 1 \in 1 .. s
    BY <1>4, <2>2, <2>3
  <2>5. ValuePlace(t, cs, f, s, q, n, made)
    BY <1>1, <1>2, <2>1, <2>3 DEF ValuePlace
  <2>6. Free(t, x + 1, s - 1, {"="})
    BY <2>3 DEF Free
  <2>7. SignPlace(t, cs, f, x + 1, made)
    BY <2>2, <2>4, <2>5, <2>6 DEF SignPlace
  <2> QED
    BY <2>3, <2>7
<1> QED
  BY <1>3, <1>5, <1>6, <1>7

\* In the name of an attribute, or behind it.
LEMMA Signs ==
  ASSUME NEW t, NEW cs, NEW f, NEW ends, Laid(t, cs, f, ends),
         NEW x \in 1 .. Len(t), NEW made, SignPlace(t, cs, f, x, made)
  PROVE  /\ t[x] # "=" => SignPlace(t, cs, f, x + 1, made)
         /\ t[x] = "=" => AttGapPlace(t, cs, f, x + 1, made)
<1>1. PICK s \in 1 .. Len(t), q \in 1 .. Len(t), n \in 1 .. Len(t) :
        ValuePlace(t, cs, f, s, q, n, made) /\ x \in 1 .. s /\ Free(t, x, s - 1, {"="})
  BY DEF SignPlace
<1>2. t[s] = "=" /\ s < q
  BY <1>1 DEF ValuePlace, Valued
<1>3. CASE t[x] # "="
  <2>1. x + 1 \in 1 .. s
    BY <1>1, <1>2, <1>3
  <2>2. Free(t, x + 1, s - 1, {"="})
    BY <1>1 DEF Free
  <2> QED
    BY <1>1, <1>3, <2>1, <2>2 DEF SignPlace
<1>4. CASE t[x] = "="
  <2>1. x = s
    BY <1>1, <1>4 DEF Free
  <2>2. x + 1 \in s + 1 .. q
    BY <1>2, <2>1
  <2> QED
    BY <1>1, <1>4, <2>2 DEF AttGapPlace
<1> QED
  BY <1>3, <1>4

\* Between the equal sign and the value, and in a value.
LEMMA AttGaps ==
  ASSUME NEW t, NEW cs, NEW f, NEW ends, Laid(t, cs, f, ends),
         NEW x \in 1 .. Len(t), NEW made, AttGapPlace(t, cs, f, x, made)
  PROVE  /\ t[x] = Space => AttGapPlace(t, cs, f, x + 1, made)
         /\ t[x] \in Quotes => QuotedPlace(t, cs, f, x + 1, x + 1, made)
         /\ t[x] \notin Quotes \cup {Space} =>
              t[x] \notin {">", "/"} /\ BarePlace(t, cs, f, x + 1, made)
<1>1. PICK s \in 1 .. Len(t), q \in 1 .. Len(t), n \in 1 .. Len(t) :
        ValuePlace(t, cs, f, s, q, n, made) /\ x \in s + 1 .. q
  BY DEF AttGapPlace
<1>2. Valued(t, s, q, n)
  BY <1>1 DEF ValuePlace
<1>3. t[q] # Space /\ \A j \in s + 1 .. q - 1 : t[j] = Space
  BY <1>2 DEF Valued, Filled
<1>4. CASE t[x] = Space
  <2>1. x + 1 \in s + 1 .. q
    BY <1>1, <1>3, <1>4
  <2> QED
    BY <1>1, <1>4, <2>1 DEF AttGapPlace, Quotes, Space
<1>5. CASE t[x] # Space
  <2>1. x = q
    BY <1>1, <1>3, <1>5
  <2>2. CASE t[q] \in Quotes
    <3>1. x + 1 \in x + 1 .. n - 1
      BY <1>2, <2>1, <2>2 DEF Valued
    <3> QED
      BY <1>1, <1>5, <2>1, <2>2, <3>1 DEF QuotedPlace
  <2>3. CASE t[q] \notin Quotes
    <3>1. q < n /\ t[n - 1] = Space /\ \A j \in q .. n - 2 : t[j] \notin {Space, ">", "/"}
      BY <1>2, <2>3 DEF Valued, Free
    <3>2. q # n - 1
      BY <1>3, <3>1
    <3>3. q \in q .. n - 2 /\ x + 1 \in q + 1 .. n - 1
      BY <2>1, <3>1, <3>2
    <3> QED
      BY <1>1, <1>5, <2>1, <2>3, <3>1, <3>3 DEF BarePlace
  <2> QED
    BY <2>2, <2>3
<1> QED
  BY <1>4, <1>5

LEMMA ValueEnds ==
  ASSUME NEW t, NEW cs, NEW f, NEW s, NEW q, NEW n, NEW made,
         ValuePlace(t, cs, f, s, q, n, made)
  PROVE  AttPlace(t, cs, f, n, made)
  BY DEF ValuePlace, AttPlace

LEMMA Quoteds ==
  ASSUME NEW t, NEW cs, NEW f, NEW ends, Laid(t, cs, f, ends),
         NEW x \in 1 .. Len(t), NEW fr, NEW made, QuotedPlace(t, cs, f, x, fr, made)
  PROVE  /\ t[x] = t[fr - 1] => AttPlace(t, cs, f, x + 1, made)
         /\ t[x] # t[fr - 1] => QuotedPlace(t, cs, f, x + 1, fr, made)
<1>1. PICK s \in 1 .. Len(t), q \in 1 .. Len(t), n \in 1 .. Len(t) :
        /\ ValuePlace(t, cs, f, s, q, n, made) /\ t[q] \in Quotes
        /\ fr = q + 1 /\ x \in fr .. n - 1
  BY DEF QuotedPlace
<1>2. t[n - 1] = t[q] /\ \A j \in q + 1 .. n - 2 : t[j] # t[q]
  BY <1>1 DEF ValuePlace, Valued, Free
<1>3. fr - 1 = q
  BY <1>1
<1>4. CASE t[x] = t[q]
  <2>1. x + 1 = n
    BY <1>1, <1>2, <1>4
  <2> QED
    BY <1>1, <1>3, <1>4, <2>1, ValueEnds
<1>5. CASE t[x] # t[q]
  <2>1. x + 1 \in fr .. n - 1
    BY <1>1, <1>2, <1>5
  <2> QED
    BY <1>1, <1>3, <1>5, <2>1 DEF QuotedPlace
<1> QED
  BY <1>4, <1>5

LEMMA Bares ==
  ASSUME NEW t, NEW cs, NEW f, NEW ends, Laid(t, cs, f, ends),
         NEW x \in 1 .. Len(t), NEW made, BarePlace(t, cs, f, x, made)
  PROVE  /\ t[x] \in {Space, ">", "/"} => AttPlace(t, cs, f, x + 1, made)
         /\ t[x] \notin {Space, ">", "/"} => BarePlace(t, cs, f, x + 1, made)
<1>1. PICK s \in 1 .. Len(t), q \in 1 .. Len(t), n \in 1 .. Len(t) :
        /\ ValuePlace(t, cs, f, s, q, n, made) /\ t[q] \notin Quotes /\ x \in q + 1 .. n - 1
  BY DEF BarePlace
<1>2. t[n - 1] = Space /\ \A j \in q .. n - 2 : t[j] \notin {Space, ">", "/"}
  BY <1>1 DEF ValuePlace, Valued, Free
<1>3. CASE t[x] \in {Space, ">", "/"}
  <2>1. x + 1 = n
    BY <1>1, <1>2, <1>3
  <2> QED
    BY <1>1, <1>3, <2>1, ValueEnds
<1>4. CASE t[x] \notin {Space, ">", "/"}
  <2>1. x + 1 \in q + 1 .. n - 1
    BY <1>1, <1>2, <1>4
  <2> QED
    BY <1>1, <1>4, <2>1 DEF BarePlace
<1> QED
  BY <1>3, <1>4

-----------------------------------------------------------------------------
\* In the content of an element.
LEMMA Gaps ==
  ASSUME NEW t, NEW cs, NEW f, NEW ends, Laid(t, cs, f, ends), NEW en \in 0 .. Len(t),
         NEW x \in 1 .. en, NEW fr, NEW made, GapPlace(t, cs, f, x, fr, made)
  PROVE  /\ t[x] = Space => GapPlace(t, cs, f, x + 1, fr, made)
         /\ t[x] = "<" /\ (x < en => t[x + 1] = CdataStart) =>
              IF x < en THEN CdataPlace(t, cs, f, en, x + 2, x + 2, made)
              ELSE Cut(t, cs, en, made)
         /\ t[x] # Space /\ (t[x] = "<" => (x < en => t[x + 1] # CdataStart)) =>
              DataPlace(t, cs, f, en, x, fr, made)
<1>1. PICK e \in DOMAIN f, p \in 0 .. Len(cs) :
        /\ Upto(cs, p, made) /\ Content(t, cs, fr, e, p, f[e])
        /\ fr \in 1 .. x /\ x <= Len(t) /\ Filled(t, fr, x - 1)
  BY DEF GapPlace
<1>2. e \in Nat /\ Len(t) \in Nat /\ fr \in Nat /\ x \in Nat /\ en \in Nat /\ x <= en
  BY <1>1, LaidNumbers
<1>3. \A j \in fr .. x - 1 : t[j] = Space
  BY <1>1 DEF Filled
<1>4. "<" # Space
  BY DEF Space
<1>5. ASSUME t[x] = Space, x + 1 <= Len(t)
      PROVE  GapPlace(t, cs, f, x + 1, fr, made)
  <2>1. Filled(t, fr, (x + 1) - 1)
    BY <1>2, <1>3, <1>5 DEF Filled
  <2>2. fr \in 1 .. x + 1
    BY <1>1, <1>2
  <2> QED
    BY <1>1, <1>5, <2>1, <2>2 DEF GapPlace
<1>6. CASE WordsAre(t, cs, fr, e, p, f[e])
  <2>1. /\ fr <= e /\ e < Len(t) /\ t[e] = "<" /\ \A j \in fr .. e - 1 : t[j] # "<"
        /\ t[e + 1] = CdataStart => ~Filled(t, fr, e - 1)
    BY <1>6 DEF WordsAre, Words, Free
  <2>2. x <= e
    BY <1>2, <1>3, <1>4, <2>1
  <2>3. CASE t[x] = Space
    <3>1. x + 1 <= Len(t)
      BY <1>2, <2>1, <2>2
    <3> QED
      BY <1>4, <1>5, <2>3, <3>1
  <2>4. CASE t[x] # Space
    <3>1. ~(t[x] = "<" /\ t[x + 1] = CdataStart)
      <4>1. ASSUME t[x] = "<" PROVE x = e
        BY <1>2, <2>1, <2>2, <4>1, <1>1
      <4> QED
        BY <1>1, <2>1, <4>1
    <3>2. DataPlace(t, cs, f, en, x, fr, made)
      BY <1>1, <1>6, <2>2 DEF DataPlace
    <3>3. ASSUME t[x] = "<", ~(x < en) PROVE Cut(t, cs, en, made)
      <4>1. en < Len(t)
        BY <1>2, <2>1, <2>2, <3>3
      <4> QED
        BY <1>1, <4>1 DEF Cut, Upto
    <3> QED
      BY <2>4, <3>1, <3>2, <3>3
  <2> QED
    BY <2>3, <2>4
<1>7. CASE \E b, y \in fr .. e : SectionIs(t, cs, fr, b, y, e, p, f[e])
  <2>1. PICK b \in fr .. e, y \in fr .. e : SectionIs(t, cs, fr, b, y, e, p, f[e])
    BY <1>7
  <2>2. /\ b + 1 < y /\ y < e /\ e <= Len(t) /\ t[b] = "<" /\ t[b + 1] = CdataStart
        /\ \A j \in fr .. b - 1 : t[j] = Space
    BY <2>1 DEF SectionIs, Section, Filled
  <2>3. x <= b
    BY <1>2, <1>3, <1>4, <2>1, <2>2
  <2>4. CASE t[x] = Space
    <3>1. x + 1 <= Len(t)
      BY <1>2, <2>1, <2>2, <2>3
    <3> QED
      BY <1>4, <1>5, <2>4, <3>1
  <2>5. CASE t[x] # Space
    <3>1. x = b
      BY <1>1, <1>2, <2>1, <2>2, <2>3, <2>5
    <3>2. x + 2 \in x + 2 .. y /\ b \in 1 .. Len(t) /\ y \in 1 .. Len(t) /\ fr \in 1 .. Len(t)
      BY <1>1, <1>2, <2>1, <2>2, <3>1
    <3>3. CdataPlace(t, cs, f, en, x + 2, x + 2, made)
      BY <1>1, <2>1, <3>1, <3>2 DEF CdataPlace
    <3>4. CASE x < en
      BY <2>2, <2>5, <3>1, <3>3, <3>4
    <3>5. CASE ~(x < en)
      <4>1. x = en /\ en < Len(t)
        BY <1>2, <2>1, <2>2, <3>1, <3>5
      <4>2. DataPlace(t, cs, f, en, x, fr, made) /\ Cut(t, cs, en, made)
        BY <1>1, <4>1 DEF DataPlace, Cut, Upto
      <4> QED
        BY <2>5, <3>5, <4>2
    <3> QED
      BY <3>4, <3>5
  <2> QED
    BY <2>4, <2>5
<1> QED
  BY <1>1, <1>6, <1>7 DEF Content, WordsAre, SectionIs

LEMMA Cdatas ==
  ASSUME NEW t, NEW cs, NEW f, NEW ends, Laid(t, cs, f, ends), NEW en \in 0 .. Len(t),
         NEW x \in 1 .. en, NEW fr, NEW made, CdataPlace(t, cs, f, en, x, fr, made)
  PROVE  /\ (t[x] = CdataEnd => (x < en => t[x + 1] # ">")) =>
              IF x + 2 >= en THEN Stopped(t, cs, en, made)
              ELSE CdataPlace(t, cs, f, en, x + 1, fr, made)
         /\ t[x] = CdataEnd /\ (x < en => t[x + 1] = ">") =>
              TailPlace(t, cs, f, en, x,
                        IF x > fr THEN Append(made, [call |-> "data", part |-> SubSeq(t, fr, x - 1)])
                        ELSE made)
<1>1. PICK e \in DOMAIN f, i \in 1 .. Len(t), b \in 1 .. Len(t), y \in 1 .. Len(t), p \in 0 .. Len(cs) :
        /\ Upto(cs, p, made) /\ SectionIs(t, cs, i, b, y, e, p, f[e])
        /\ fr = b + 2 /\ x \in fr .. y /\ (x = fr \/ x + 1 < en)
  BY DEF CdataPlace
<1>2. /\ y < e /\ e <= Len(t) /\ t[y] = CdataEnd /\ t[e] = "<" /\ t[y + 1] = ">"
      /\ \A j \in b + 2 .. y - 1 : t[j] = CdataEnd => t[j + 1] # ">"
      /\ \A j \in y + 1 .. e - 1 : t[j] # "<"
  BY <1>1 DEF SectionIs, Section, Free
<1>3. e \in Nat /\ Len(t) \in Nat /\ en \in Nat /\ en <= Len(t) /\ x \in Nat /\ y \in Nat /\ fr \in Nat
  BY <1>1, LaidNumbers
<1>4. y + 1 < e
  <2>1. y + 1 # e
    BY <1>2
  <2> QED
    BY <1>2, <1>3, <2>1
<1>5. ASSUME t[x] = CdataEnd => (x < en => t[x + 1] # ">")
      PROVE  IF x + 2 >= en THEN Stopped(t, cs, en, made)
             ELSE CdataPlace(t, cs, f, en, x + 1, fr, made)
  <2>1. x < en => x < y
    <3>1. x < en => x # y
      BY <1>2, <1>5
    <3> QED
      BY <1>1, <1>3, <3>1
  <2>2. CASE x + 2 >= en
    <3>1. en < Len(t)
      BY <1>1, <1>2, <1>3, <1>4, <2>1, <2>2
    <3> QED
      BY <1>1, <2>2, <3>1 DEF Stopped, Upto
  <2>3. CASE ~(x + 2 >= en)
    <3>1. x + 1 \in fr .. y /\ (x + 1) + 1 < en
      BY <1>1, <1>3, <2>1, <2>3
    <3>2. CdataPlace(t, cs, f, en, x + 1, fr, made)
      BY <1>1, <3>1 DEF CdataPlace
    <3> QED
      BY <2>3, <3>2
  <2> QED
    BY <2>2, <2>3
<1>6. ASSUME t[x] = CdataEnd, x < en => t[x + 1] = ">"
      PROVE  TailPlace(t, cs, f, en, x,
                       IF x > fr THEN Append(made, [call |-> "data", part |-> SubSeq(t, fr, x - 1)])
                       ELSE made)
  <2>1. t[x] # "<"
    BY <1>6 DEF CdataEnd
  <2>2. CASE ~(x < en)
    <3>1. x = en /\ x = fr /\ en < Len(t)
      BY <1>1, <1>2, <1>3, <2>2
    <3>2. Cut(t, cs, en, made)
      BY <1>1, <3>1 DEF Cut, Upto
    <3> QED
      BY <1>3, <2>1, <3>1, <3>2 DEF TailPlace
  <2>3. CASE x < en
    <3>1. x = y
      BY <1>1, <1>2, <1>3, <1>6, <2>3
    <3>2. Free(t, x, e - 1, {"<"}) /\ x \in 1 .. e
      BY <1>1, <1>2, <1>3, <2>1, <3>1 DEF Free
    <3>3. CASE x > fr
      <4>1. NextCall(cs, p, f[e], "data", SubSeq(t, fr, x - 1))
        BY <1>1, <3>1, <3>3 DEF SectionIs
      <4>2. Upto(cs, f[e], Append(made, [call |-> "data", part |-> SubSeq(t, fr, x - 1)]))
        BY <1>1, <4>1, OneMore DEF Laid
      <4> QED
        BY <1>2, <3>2, <3>3, <4>2 DEF TailPlace
    <3>4. CASE ~(x > fr)
      <4>1. Upto(cs, f[e], made)
        BY <1>1, <3>1, <3>4 DEF SectionIs
      <4> QED
        BY <1>2, <3>2, <3>4, <4>1 DEF TailPlace
    <3> QED
      BY <3>3, <3>4
  <2> QED
    BY <2>2, <2>3
<1> QED
  BY <1>5, <1>6

LEMMA Tails ==
  ASSUME NEW t, NEW cs, NEW f, NEW ends, Laid(t, cs, f, ends), NEW en \in 0 .. Len(t),
         NEW x \in 1 .. en, NEW made, TailPlace(t, cs, f, en, x, made)
  PROVE  /\ t[x] = "<" => OutPlace(t, cs, f, x, made)
         /\ t[x] # "<" => IF x + 1 > en THEN Stopped(t, cs, en, made)
                          ELSE TailPlace(t, cs, f, en, x + 1, made)
<1>1. Len(t) \in Nat /\ en \in Nat /\ x \in Nat /\ \A b \in DOMAIN f : b \in Nat /\ f[b] \in 0 .. Len(cs)
  BY LaidNumbers
<1>2. CASE x = en /\ t[x] # "<" /\ Cut(t, cs, en, made)
  BY <1>1, <1>2 DEF Cut, Stopped
<1>3. CASE \E e \in DOMAIN f :
             /\ Upto(cs, f[e], made) /\ x \in 1 .. e /\ e <= Len(t) /\ t[e] = "<"
             /\ Free(t, x, e - 1, {"<"})
  <2>1. PICK e \in DOMAIN f :
          /\ Upto(cs, f[e], made) /\ x \in 1 .. e /\ e <= Len(t) /\ t[e] = "<"
          /\ Free(t, x, e - 1, {"<"})
    BY <1>3
  <2>2. CASE t[x] = "<"
    <3>1. x = e
      BY <1>1, <2>1, <2>2 DEF Free
    <3> QED
      BY <2>1, <2>2, <3>1 DEF OutPlace
  <2>3. CASE t[x] # "<"
    <3>1. x + 1 \in 1 .. e
      BY <1>1, <2>1, <2>3
    <3>2. Free(t, x + 1, e - 1, {"<"})
      BY <2>1 DEF Free
    <3>3. CASE x + 1 > en
      <4>1. en < Len(t)
        BY <1>1, <2>1, <3>1, <3>3
      <4>2. f[e] \in 0 .. Len(cs) /\ made = SubSeq(cs, 1, f[e])
        BY <2>1 DEF Upto
      <4>3. Stopped(t, cs, en, made)
        BY <1>1, <4>1, <4>2 DEF Stopped
      <4> QED
        BY <2>3, <3>3, <4>3
    <3>4. CASE ~(x + 1 > en)
      BY <2>1, <2>3, <3>1, <3>2, <3>4 DEF TailPlace
    <3> QED
      BY <3>3, <3>4
  <2> QED
    BY <2>2, <2>3
<1> QED
  BY <1>2, <1>3 DEF TailPlace

\* In a text, also the last symbol that has arrived.
LEMMA TextGoes ==
  ASSUME NEW t, NEW cs, NEW f, NEW ends, Laid(t, cs, f, ends), NEW en \in 0 .. Len(t),
         NEW x \in 1 .. en, NEW fr, NEW made, DataPlace(t, cs, f, en, x, fr, made),
         t[x] # "<"
  PROVE  IF x + 1 >= en THEN Stopped(t, cs, en, made)
         ELSE DataPlace(t, cs, f, en, x + 1, fr, made)
<1>1. PICK e \in DOMAIN f, p \in 0 .. Len(cs) :
        /\ Upto(cs, p, made) /\ fr \in 1 .. x
        /\ \/ WordsAre(t, cs, fr, e, p, f[e]) /\ x <= e
           \/ x = en /\ en < Len(t)
  BY DEF DataPlace
<1>2. e \in Nat /\ Len(t) \in Nat /\ en \in Nat /\ x \in Nat /\ x <= en /\ fr \in Nat
  BY <1>1, LaidNumbers
<1>3. WordsAre(t, cs, fr, e, p, f[e]) => e < Len(t) /\ t[e] = "<"
  BY DEF WordsAre, Words
<1>4. CASE x + 1 >= en
  <2>1. en < Len(t)
    <3>1. CASE WordsAre(t, cs, fr, e, p, f[e]) /\ x <= e
      <4>1. x # e
        BY <1>3, <3>1
      <4> QED
        BY <1>2, <1>3, <1>4, <3>1, <4>1
    <3> QED
      BY <1>1, <3>1
  <2> QED
    BY <1>1, <1>2, <1>4, <2>1 DEF Stopped, Upto
<1>5. CASE ~(x + 1 >= en)
  <2>1. WordsAre(t, cs, fr, e, p, f[e]) /\ x <= e
    BY <1>1, <1>2, <1>5
  <2>2. x # e
    BY <1>3, <2>1
  <2>3. x + 1 <= e /\ x + 1 < en /\ fr \in 1 .. x + 1
    BY <1>1, <1>2, <1>5, <2>1, <2>2
  <2>4. DataPlace(t, cs, f, en, x + 1, fr, made)
    BY <1>1, <2>1, <2>3 DEF DataPlace
  <2> QED
    BY <1>5, <2>4
<1> QED
  BY <1>4, <1>5

\* White space is blank.
LEMMA BlankPart ==
  ASSUME NEW t \in Seq(STRING), NEW i \in Nat \ {0}, NEW j \in Nat, j <= Len(t), Filled(t, i, j)
  PROVE  IsBlank(SubSeq(t, i, j)) /\ SubSeq(t, i, j) \in Seq(STRING)
<1>1. SubSeq(t, i, j) \in Seq(STRING)
  BY PartOf
<1>2. \A k \in DOMAIN SubSeq(t, i, j) : SubSeq(t, i, j)[k] = Space
  <2>1. Len(t) \in Nat
    BY LenProperties
  <2> QED
    BY <2>1 DEF Filled
<1>3. ToSet(SubSeq(t, i, j)) \subseteq {Space}
  BY <1>2 DEF ToSet
<1> QED
  BY <1>1, <1>3 DEF IsBlank

\* What follows the text is known, unless the cut is there: then it may be taken
\* for an end tag, and white space for a value.
LEMMA TextEnded ==
  ASSUME NEW t, NEW cs, NEW f, NEW ends, Laid(t, cs, f, ends), NEW en \in 0 .. Len(t),
         NEW x \in 1 .. en, NEW fr, NEW made, DataPlace(t, cs, f, en, x, fr, made),
         t[x] = "<", NEW now,
         \/ /\ x > fr /\ (x < en => t[x + 1] = "/")
            /\ now = Append(made, [call |-> "data", part |-> SubSeq(t, fr, x - 1)])
         \/ (x = fr \/ (x < en => t[x + 1] # "/")) /\ now = made
  PROVE  IF x >= en THEN Stopped(t, cs, en, now) ELSE OutPlace(t, cs, f, x, now)
<1>1. PICK e \in DOMAIN f, p \in 0 .. Len(cs) :
        /\ Upto(cs, p, made) /\ fr \in 1 .. x
        /\ x < en \/ Filled(t, fr, x - 1)
        /\ \/ WordsAre(t, cs, fr, e, p, f[e]) /\ x <= e
           \/ x = en /\ en < Len(t)
  BY DEF DataPlace
<1>2. e \in Nat /\ Len(t) \in Nat /\ en \in Nat /\ x \in Nat /\ x <= en /\ fr \in Nat \ {0}
  BY <1>1, LaidNumbers
<1>3. WordsAre(t, cs, fr, e, p, f[e]) => e < Len(t) /\ t[e] = "<" /\ \A j \in fr .. e - 1 : t[j] # "<"
  BY DEF WordsAre, Words, Free
<1>4. WordsAre(t, cs, fr, e, p, f[e]) /\ x <= e => x = e
  BY <1>1, <1>2, <1>3
<1>5. CASE x >= en
  <2>1. x = en /\ en < Len(t) /\ Filled(t, fr, x - 1)
    BY <1>1, <1>2, <1>3, <1>4, <1>5
  <2>2. made = SubSeq(cs, 1, p)
    BY <1>1 DEF Upto
  <2>3. CASE now = made
    BY <1>5, <2>1, <2>2, <2>3 DEF Stopped
  <2>4. CASE now = Append(made, [call |-> "data", part |-> SubSeq(t, fr, x - 1)])
    <3>1. x - 1 \in Nat /\ x - 1 <= Len(t) /\ t \in Seq(STRING)
      BY <1>2, <2>1 DEF Laid
    <3>2. IsBlank(SubSeq(t, fr, x - 1)) /\ SubSeq(t, fr, x - 1) \in Seq(STRING)
      BY <1>2, <2>1, <3>1, BlankPart
    <3> QED
      BY <1>5, <2>1, <2>2, <2>4, <3>2 DEF Stopped
  <2> QED
    BY <2>3, <2>4
<1>6. CASE ~(x >= en)
  <2>1. x < en /\ x = e /\ WordsAre(t, cs, fr, e, p, f[e])
    BY <1>1, <1>2, <1>4, <1>6
  <2>2. CASE x > fr /\ t[x + 1] = "/"
    <3>1. NextCall(cs, p, f[e], "data", SubSeq(t, fr, x - 1))
      BY <1>2, <2>1, <2>2 DEF WordsAre
    <3>2. Upto(cs, f[e], Append(made, [call |-> "data", part |-> SubSeq(t, fr, x - 1)]))
      BY <1>1, <3>1, OneMore DEF Laid
    <3>3. now = Append(made, [call |-> "data", part |-> SubSeq(t, fr, x - 1)])
      BY <1>2, <2>1, <2>2
    <3> QED
      BY <1>6, <2>1, <3>2, <3>3 DEF OutPlace
  <2>3. CASE ~(x > fr /\ t[x + 1] = "/")
    <3>1. f[e] = p
      BY <1>2, <2>1, <2>3 DEF WordsAre
    <3>2. now = made
      BY <1>2, <2>1, <2>3
    <3> QED
      BY <1>1, <1>6, <2>1, <3>1, <3>2 DEF OutPlace
  <2> QED
    BY <2>2, <2>3
<1> QED
  BY <1>5, <1>6

-----------------------------------------------------------------------------
Read(cs, f) == Reading(text, cs, f, closes, end, phase, at, from, calls)
LaidAs(cs, f) == Laid(text, cs, f, closes)
HereIs(cs, f, p, n) == Place(text, cs, f, closes, end, p, n, from', calls')

\* A loop that moves to one of its places goes on there or has stopped.
LEMMA Arrives ==
  ASSUME NEW cs, NEW f, PlaceOK, LaidAs(cs, f),
         NEW n \in {at, at + 1, at + 2}, NEW p \in Phases \ {"done"}, HereIs(cs, f, p, n),
         \/ MoveTo(n, p) \/ (p = "out" /\ MoveBefore(n, p))
         \/ p # "out" /\ MoveOn(n, p)
  PROVE  Read(cs, f)'
<1>1. /\ text' = text /\ end' = end /\ closes' = closes /\ at' = n
      /\ phase' = "done" \/ phase' = p
      /\ phase' = "done" => n > end \/ (p = "out" /\ n >= end)
  BY DEF MoveTo, MoveBefore, MoveOn, Moves
<1>2. end \in 0 .. Len(text) /\ n \in Nat /\ end \in Nat
  BY LenProperties DEF PlaceOK
<1>3. CASE phase' = "done"
  <2>1. n > end \/ (p = "out" /\ n >= end)
    BY <1>1, <1>3
  <2>2. Stopped(text, cs, end, calls')
    BY <1>2, <2>1, Stops DEF LaidAs, HereIs
  <2> QED
    BY <1>1, <1>3, <2>2 DEF Read, Reading
<1>4. CASE phase' # "done" /\ n > end
  <2>1. p # "out"
    BY <1>2, <1>4 DEF MoveTo, MoveBefore, Moves
  <2>2. Cut(text, cs, end, calls')
    BY <1>2, <1>4, <2>1, Stops DEF LaidAs, HereIs
  <2> QED
    BY <1>1, <1>4, <2>2 DEF Read, Reading
<1>5. CASE phase' # "done" /\ ~(n > end)
  <2>1. phase' = p
    BY <1>1, <1>5
  <2> QED
    BY <1>1, <1>5, <2>1 DEF Read, Reading, HereIs
<1> QED
  BY <1>3, <1>4, <1>5

\* Where the parser is, and what a step of it may use.
LEMMA Here ==
  ASSUME NEW cs, NEW f, PlaceOK, LaidAs(cs, f), phase # "done", at <= end, Read(cs, f)
  PROVE  /\ Place(text, cs, f, closes, end, phase, at, from, calls)
         /\ Laid(text, cs, f, closes) /\ end \in 0 .. Len(text)
         /\ at \in 1 .. end /\ at \in 1 .. Len(text) /\ closes \in BOOLEAN
<1>1. end \in 0 .. Len(text) /\ Len(text) \in Nat /\ at <= end /\ at \in Nat /\ end \in Nat
  BY LenProperties DEF PlaceOK
<1>2. ~(at > end)
  BY <1>1
<1> QED
  BY <1>1, <1>2 DEF PlaceOK, Read, Reading, LaidAs

\* Behind the end nothing more is found.
LEMMA ReadingEnds ==
  ASSUME NEW cs, NEW f, ParserTypeOK, Read(cs, f), Parse, ~(at <= end)
  PROVE  Read(cs, f)'
<1>1. phase # "done" /\ MoveTo(at, "done") /\ Quiet
  BY Shapes DEF StepShape
<1>2. at \in Nat /\ end \in Nat
  BY LenProperties DEF ParserTypeOK
<1>3. at > end
  BY <1>2
<1>4. Cut(text, cs, end, calls)
  BY <1>1, <1>3 DEF Read, Reading
<1>5. text' = text /\ end' = end /\ phase' = "done" /\ calls' = calls
  BY <1>1 DEF MoveTo, Moves, Quiet
<1>6. Stopped(text, cs, end, calls)
  BY <1>4, LenProperties DEF Cut, Stopped, ParserTypeOK
<1> QED
  BY <1>5, <1>6 DEF Read, Reading

LEMMA ReadingGoesOn ==
  ASSUME NEW cs, NEW f, ParserTypeOK, LaidAs(cs, f), Read(cs, f), Parse
  PROVE  Read(cs, f)'
<1> SUFFICES ASSUME at <= end PROVE Read(cs, f)'
  BY ReadingEnds
<1>a. PlaceOK /\ phase # "done"
  BY Halves, Shapes DEF StepShape
<1>b. /\ Place(text, cs, f, closes, end, phase, at, from, calls)
      /\ Laid(text, cs, f, closes) /\ end \in 0 .. Len(text)
      /\ at \in 1 .. end /\ at \in 1 .. Len(text) /\ closes \in BOOLEAN
  BY <1>a, Here
<1> USE DEF In, Cur
<1>1. CASE Skip
  <2>1. OutPlace(text, cs, f, at, calls)
        /\ (text[at] # "<" \/ text[at + 1] = "?")
    BY <1>b, <1>1 DEF Skip, Place
  <2>2. OutPlace(text, cs, f, at + 1, calls)
    BY <1>b, <2>1, Skips
  <2>3. HereIs(cs, f, "out", at + 1)
    BY <1>1, <2>2 DEF Skip, Quiet, HereIs, Place
  <2> QED
    BY <1>a, <1>1, <2>3, Arrives DEF Skip, Phases
<1>2. CASE Tag
  <2>1. OutPlace(text, cs, f, at, calls)
        /\ text[at] = "<" /\ text[at + 1] # "?"
    BY <1>b, <1>2 DEF Tag, Place
  <2>2. NamePlace(text, cs, f, closes, at + 1, at + 1, calls)
    BY <1>b, <2>1, Tags
  <2>3. HereIs(cs, f, "name", at + 1)
    BY <1>2, <2>2 DEF Tag, Began, HereIs, Place
  <2> QED
    BY <1>a, <1>2, <2>3, Arrives DEF Tag, Phases
<1>3. CASE Name
  <2>1. NamePlace(text, cs, f, closes, at, from, calls)
    BY <1>b, <1>3 DEF Name, Place
  <2>2. /\ at < Len(text)
        /\ text[at + 1] = ":" => NamePlace(text, cs, f, closes, at + 2, at + 2, calls)
        /\ text[at + 1] # ":" => NamePlace(text, cs, f, closes, at + 1, from, calls)
    BY <1>b, <1>3, <2>1, Names DEF Name, NameEnds
  <2>3. CASE at < end
    <3>1. CASE text[at + 1] = ":"
      <4>1. NamePlace(text, cs, f, closes, at + 2, from', calls') /\ MoveOn(at + 2, "name")
        BY <1>3, <2>2, <2>3, <3>1 DEF Name, Began
      <4>2. HereIs(cs, f, "name", at + 2)
        BY <4>1 DEF HereIs, Place
      <4> QED
        BY <1>a, <4>1, <4>2, Arrives DEF Phases
    <3>2. CASE text[at + 1] # ":"
      <4>1. NamePlace(text, cs, f, closes, at + 1, from', calls') /\ MoveTo(at + 1, "name")
        BY <1>3, <2>2, <2>3, <3>2 DEF Name, Quiet
      <4>2. HereIs(cs, f, "name", at + 1)
        BY <4>1 DEF HereIs, Place
      <4> QED
        BY <1>a, <4>1, <4>2, Arrives DEF Phases
    <3> QED
      BY <3>1, <3>2
  <2>4. CASE ~(at < end)
    <3>1. MoveTo(at + 1, "name") /\ Quiet
      BY <1>3, <2>4 DEF Name
    <3>2. at = end /\ end # Len(text) /\ at + 1 > end
      BY <1>b, <2>2, <2>4
    <3>3. text' = text /\ end' = end /\ phase' = "done" /\ calls' = calls
      BY <3>1, <3>2 DEF MoveTo, Moves, Quiet
    <3>4. \E p \in 0 .. Len(cs) : calls = SubSeq(cs, 1, p)
      BY <1>a, <1>b, PlacesTell DEF PlaceOK
    <3>5. Stopped(text, cs, end, calls)
      <4>1. end < Len(text)
        BY <1>b, <2>2, <3>2
      <4> QED
        BY <3>4, <4>1 DEF Stopped
    <3> QED
      BY <3>3, <3>5 DEF Read, Reading
  <2> QED
    BY <2>3, <2>4
<1>4. CASE Start
  <2>1. NamePlace(text, cs, f, closes, at, from, calls)
        /\ text[at] \in {Space, ">", "/"} /\ from # at
    BY <1>b, <1>4 DEF Start, Place, NameEnds, FoundOK
  <2>2. AttPlace(text, cs, f, at, Append(calls, [call |-> "start", part |-> SubSeq(text, from, at - 1)]))
    BY <1>b, <2>1, NameDone
  <2>3. HereIs(cs, f, "att", at)
    BY <1>4, <2>2 DEF Start, NameEnds, Emit, Part, HereIs, Place
  <2> QED
    BY <1>a, <1>4, <2>3, Arrives DEF Start, Phases
<1>5. CASE CloseTag
  <2>1. NamePlace(text, cs, f, closes, at, from, calls)
        /\ text[at] = "/" /\ at = from
    BY <1>b, <1>5 DEF CloseTag, Place
  <2>2. ClosePlace(text, cs, f, closes, at + 1, at + 1, calls)
    BY <1>b, <2>1, NoName
  <2>3. HereIs(cs, f, "close", at + 1)
    BY <1>5, <2>2 DEF CloseTag, Began, HereIs, Place
  <2> QED
    BY <1>a, <1>5, <2>3, Arrives DEF CloseTag, Phases
<1>6. CASE NoTag
  <2>1. NamePlace(text, cs, f, closes, at, from, calls)
        /\ text[at] \in {Space, ">"} /\ at = from
    BY <1>b, <1>6 DEF NoTag, Place
  <2>2. OutPlace(text, cs, f, at, calls)
    BY <1>b, <2>1, NoName
  <2>3. HereIs(cs, f, "out", at)
    BY <1>6, <2>2 DEF NoTag, Quiet, HereIs, Place
  <2> QED
    BY <1>a, <1>6, <2>3, Arrives DEF NoTag, Phases
<1>7. CASE CloseName
  <2>1. ClosePlace(text, cs, f, closes, at, from, calls)
        /\ text[at] # ">"
    BY <1>b, <1>7 DEF CloseName, Place
  <2>2. ClosePlace(text, cs, f, closes, at + 1, from, calls)
    BY <1>b, <2>1, CloseGoes
  <2>3. HereIs(cs, f, "close", at + 1)
    BY <1>7, <2>2 DEF CloseName, Quiet, HereIs, Place
  <2> QED
    BY <1>a, <1>7, <2>3, Arrives DEF CloseName, Phases
<1>8. CASE End
  <2>1. ClosePlace(text, cs, f, closes, at, from, calls) /\ text[at] = ">"
    BY <1>b, <1>8 DEF End, Place
  <2>2. OutPlace(text, cs, f, at + 1,
                 IF closes THEN Append(calls, [call |-> "end", part |-> SubSeq(text, from, at - 1)])
                 ELSE calls)
    BY <1>b, <2>1, CloseGoes
  <2>3. calls' = IF closes THEN Append(calls, [call |-> "end", part |-> SubSeq(text, from, at - 1)])
                 ELSE calls
    BY <1>8 DEF End, Emit, Part, Quiet
  <2>4. HereIs(cs, f, "out", at + 1)
    BY <2>2, <2>3 DEF HereIs, Place
  <2> QED
    BY <1>a, <1>8, <2>4, Arrives DEF End, Phases
<1>9. CASE AttSpace
  <2>1. AttPlace(text, cs, f, at, calls)
        /\ text[at] = Space
    BY <1>b, <1>9 DEF AttSpace, Place
  <2>2. AttPlace(text, cs, f, at + 1, calls)
    BY <1>b, <2>1, Atts
  <2>3. HereIs(cs, f, "att", at + 1)
    BY <1>9, <2>2 DEF AttSpace, Quiet, HereIs, Place
  <2> QED
    BY <1>a, <1>9, <2>3, Arrives DEF AttSpace, Phases
<1>10. CASE AttName
  <2>1. SignPlace(text, cs, f, at + 1, calls)
    <3>1. CASE phase = "att"
      <4>1. AttPlace(text, cs, f, at, calls)
        BY <1>b, <3>1 DEF Place
      <4>2. text[at] \notin {Space, "/", ">"}
        BY <1>10, <3>1 DEF AttName
      <4> QED
        BY <1>b, <4>1, <4>2, Atts
    <3>2. CASE phase = "attname"
      <4>1. SignPlace(text, cs, f, at, calls)
        BY <1>b, <3>2 DEF Place
      <4>2. text[at] # "="
        BY <1>10, <3>2 DEF AttName
      <4> QED
        BY <1>b, <4>1, <4>2, Signs
    <3> QED
      BY <1>10, <3>1, <3>2 DEF AttName
  <2>2. HereIs(cs, f, "attname", at + 1)
    BY <1>10, <2>1 DEF AttName, Quiet, HereIs, Place
  <2> QED
    BY <1>a, <1>10, <2>2, Arrives DEF AttName, Phases
<1>11. CASE AttSign
  <2>1. SignPlace(text, cs, f, at, calls)
    <3>1. CASE phase = "att" /\ text[at] = "="
      <4>1. AttPlace(text, cs, f, at, calls)
        BY <1>b, <3>1 DEF Place
      <4>2. text[at] \notin {Space, "/", ">"}
        BY <3>1 DEF Space
      <4> QED
        BY <1>b, <3>1, <4>1, <4>2, Atts
    <3>2. CASE phase \in {"attname", "attsign"}
      BY <1>b, <3>2 DEF Place
    <3> QED
      BY <1>11, <3>1, <3>2 DEF AttSign
  <2>2. calls' = calls
    BY <1>11 DEF AttSign, Quiet
  <2>3. CASE text[at] = "="
    <3>1. AttGapPlace(text, cs, f, at + 1, calls)
      BY <1>b, <2>1, <2>3, Signs
    <3>2. HereIs(cs, f, "attgap", at + 1)
      BY <2>2, <3>1 DEF HereIs, Place
    <3> QED
      BY <1>a, <1>11, <2>3, <3>2, Arrives DEF AttSign, Phases
  <2>4. CASE text[at] # "="
    <3>1. SignPlace(text, cs, f, at + 1, calls)
      BY <1>b, <2>1, <2>4, Signs
    <3>2. HereIs(cs, f, "attsign", at + 1)
      BY <2>2, <3>1 DEF HereIs, Place
    <3> QED
      BY <1>a, <1>11, <2>4, <3>2, Arrives DEF AttSign, Phases
  <2> QED
    BY <2>3, <2>4
<1>12. CASE AttGap
  <2>1. AttGapPlace(text, cs, f, at, calls)
        /\ text[at] = Space
    BY <1>b, <1>12 DEF AttGap, Place
  <2>2. AttGapPlace(text, cs, f, at + 1, calls)
    BY <1>b, <2>1, AttGaps
  <2>3. HereIs(cs, f, "attgap", at + 1)
    BY <1>12, <2>2 DEF AttGap, Quiet, HereIs, Place
  <2> QED
    BY <1>a, <1>12, <2>3, Arrives DEF AttGap, Phases
<1>13. CASE AttQuote
  <2>1. AttGapPlace(text, cs, f, at, calls)
        /\ text[at] \in Quotes
    BY <1>b, <1>13 DEF AttQuote, Place
  <2>2. QuotedPlace(text, cs, f, at + 1, at + 1, calls)
    BY <1>b, <2>1, AttGaps
  <2>3. HereIs(cs, f, "quoted", at + 1)
    BY <1>13, <2>2 DEF AttQuote, Began, HereIs, Place
  <2> QED
    BY <1>a, <1>13, <2>3, Arrives DEF AttQuote, Phases
<1>14. CASE AttBare
  <2>1. calls' = calls
    BY <1>14 DEF AttBare, Quiet
  <2>2. IF text[at] \in {Space, ">", "/"} THEN AttPlace(text, cs, f, at + 1, calls)
        ELSE BarePlace(text, cs, f, at + 1, calls)
    <3>1. CASE phase = "attgap"
      <4>1. AttGapPlace(text, cs, f, at, calls)
        BY <1>b, <3>1 DEF Place
      <4>2. text[at] \notin Quotes \cup {Space}
        BY <1>14, <3>1 DEF AttBare
      <4>3. text[at] \notin {">", "/"} /\ BarePlace(text, cs, f, at + 1, calls)
        BY <1>b, <4>1, <4>2, AttGaps
      <4> QED
        BY <4>2, <4>3
    <3>2. CASE phase = "bare"
      <4>1. BarePlace(text, cs, f, at, calls)
        BY <1>b, <3>2 DEF Place
      <4> QED
        BY <1>b, <4>1, Bares
    <3> QED
      BY <1>14, <3>1, <3>2 DEF AttBare
  <2>3. CASE text[at] \in {Space, ">", "/"}
    <3>1. HereIs(cs, f, "att", at + 1)
      BY <2>1, <2>2, <2>3 DEF HereIs, Place
    <3> QED
      BY <1>a, <1>14, <2>3, <3>1, Arrives DEF AttBare, Phases
  <2>4. CASE text[at] \notin {Space, ">", "/"}
    <3>1. HereIs(cs, f, "bare", at + 1)
      BY <2>1, <2>2, <2>4 DEF HereIs, Place
    <3> QED
      BY <1>a, <1>14, <2>4, <3>1, Arrives DEF AttBare, Phases
  <2> QED
    BY <2>3, <2>4
<1>15. CASE AttValue
  <2>1. QuotedPlace(text, cs, f, at, from, calls)
    BY <1>b, <1>15 DEF AttValue, Place
  <2>2. /\ text[at] = text[from - 1] => AttPlace(text, cs, f, at + 1, calls)
        /\ text[at] # text[from - 1] => QuotedPlace(text, cs, f, at + 1, from, calls)
    BY <1>b, <2>1, Quoteds
  <2>3. calls' = calls /\ from' = from
    BY <1>15 DEF AttValue, Quiet
  <2>4. CASE text[at] = text[from - 1]
    <3>1. HereIs(cs, f, "att", at + 1)
      BY <2>2, <2>3, <2>4 DEF HereIs, Place
    <3> QED
      BY <1>a, <1>15, <2>4, <3>1, Arrives DEF AttValue, Phases
  <2>5. CASE text[at] # text[from - 1]
    <3>1. HereIs(cs, f, "quoted", at + 1)
      BY <2>2, <2>3, <2>5 DEF HereIs, Place
    <3> QED
      BY <1>a, <1>15, <2>5, <3>1, Arrives DEF AttValue, Phases
  <2> QED
    BY <2>4, <2>5
<1>16. CASE EmptyTag
  <2>1. AttPlace(text, cs, f, at, calls)
        /\ text[at] = "/"
    BY <1>b, <1>16 DEF EmptyTag, Place
  <2>2. OutPlace(text, cs, f, at, calls)
    BY <1>b, <2>1, Atts
  <2>3. HereIs(cs, f, "out", at)
    BY <1>16, <2>2 DEF EmptyTag, Quiet, HereIs, Place
  <2> QED
    BY <1>a, <1>16, <2>3, Arrives DEF EmptyTag, Phases
<1>17. CASE OpenTag
  <2>1. AttPlace(text, cs, f, at, calls)
        /\ text[at] = ">"
    BY <1>b, <1>17 DEF OpenTag, Place
  <2>2. GapPlace(text, cs, f, at + 1, at + 1, calls)
    BY <1>b, <2>1, Atts
  <2>3. HereIs(cs, f, "gap", at + 1)
    BY <1>17, <2>2 DEF OpenTag, Began, HereIs, Place
  <2> QED
    BY <1>a, <1>17, <2>3, Arrives DEF OpenTag, Phases
<1>18. CASE Gap
  <2>1. GapPlace(text, cs, f, at, from, calls)
        /\ text[at] = Space
    BY <1>b, <1>18 DEF Gap, Place
  <2>2. GapPlace(text, cs, f, at + 1, from, calls)
    BY <1>b, <2>1, Gaps
  <2>3. HereIs(cs, f, "gap", at + 1)
    BY <1>18, <2>2 DEF Gap, Quiet, HereIs, Place
  <2> QED
    BY <1>a, <1>18, <2>3, Arrives DEF Gap, Phases
<1>19. CASE Cdata
  <2>1. GapPlace(text, cs, f, at, from, calls)
        /\ text[at] = "<" /\ (at < end => text[at + 1] = CdataStart)
    BY <1>b, <1>19 DEF Cdata, Place, Followed
  <2>2. IF at < end THEN CdataPlace(text, cs, f, end, at + 2, at + 2, calls)
        ELSE Cut(text, cs, end, calls)
    BY <1>b, <2>1, Gaps
  <2>3. MoveOn(at + 2, "cdata") /\ from' = at + 2 /\ calls' = calls
    BY <1>19 DEF Cdata, Began
  <2>4. CASE at < end
    <3>1. HereIs(cs, f, "cdata", at + 2)
      BY <2>2, <2>3, <2>4 DEF HereIs, Place
    <3> QED
      BY <1>a, <2>3, <3>1, Arrives DEF Phases
  <2>5. CASE ~(at < end)
    <3>1. text' = text /\ end' = end /\ at' > end /\ phase' = "cdata"
      BY <1>b, <2>3, <2>5 DEF MoveOn, Moves
    <3> QED
      BY <2>2, <2>3, <2>5, <3>1 DEF Read, Reading
  <2> QED
    BY <2>4, <2>5
<1>20. CASE Plain
  <2>1. GapPlace(text, cs, f, at, from, calls)
        /\ text[at] # Space /\ (text[at] = "<" => (at < end => text[at + 1] # CdataStart))
    BY <1>b, <1>20 DEF Plain, Place, NotFollowed
  <2>2. DataPlace(text, cs, f, end, at, from, calls)
    BY <1>b, <2>1, Gaps
  <2>3. HereIs(cs, f, "data", at)
    BY <1>20, <2>2 DEF Plain, Quiet, HereIs, Place
  <2> QED
    BY <1>a, <1>20, <2>3, Arrives DEF Plain, Phases
<1>21. CASE CdataText
  <2>1. CdataPlace(text, cs, f, end, at, from, calls)
        /\ (text[at] = CdataEnd => (at < end => text[at + 1] # ">"))
    BY <1>b, <1>21 DEF CdataText, Place, NotFollowed
  <2>2. IF at + 2 >= end THEN Stopped(text, cs, end, calls)
        ELSE CdataPlace(text, cs, f, end, at + 1, from, calls)
    BY <1>b, <2>1, Cdatas
  <2>3. /\ text' = text /\ end' = end /\ closes' = closes /\ from' = from /\ calls' = calls
        /\ at' = at + 1 /\ phase' = IF at + 2 >= end THEN "done" ELSE "cdata"
        /\ phase' = "cdata" => ~(at' > end)
    BY <1>b, <1>21 DEF CdataText, MoveWithin, Moves, Quiet
  <2> QED
    BY <2>2, <2>3 DEF Read, Reading, Place
<1>22. CASE CdataEnds
  <2>1. CdataPlace(text, cs, f, end, at, from, calls) /\ text[at] = CdataEnd
        /\ (at < end => text[at + 1] = ">")
    BY <1>b, <1>22 DEF CdataEnds, Place, Followed
  <2>2. TailPlace(text, cs, f, end, at,
                  IF at > from THEN Append(calls, [call |-> "data", part |-> SubSeq(text, from, at - 1)])
                  ELSE calls)
    BY <1>b, <2>1, Cdatas
  <2>3. calls' = IF at > from THEN Append(calls, [call |-> "data", part |-> SubSeq(text, from, at - 1)])
                 ELSE calls
    BY <1>22 DEF CdataEnds, Emit, Part, Quiet
  <2>4. HereIs(cs, f, "tail", at)
    BY <2>2, <2>3 DEF HereIs, Place
  <2> QED
    BY <1>a, <1>22, <2>4, Arrives DEF CdataEnds, Phases
<1>23. CASE AfterCdata
  <2>1. TailPlace(text, cs, f, end, at, calls)
    BY <1>b, <1>23 DEF AfterCdata, Place
  <2>2. /\ text[at] = "<" => OutPlace(text, cs, f, at, calls)
        /\ text[at] # "<" => IF at + 1 > end THEN Stopped(text, cs, end, calls)
                             ELSE TailPlace(text, cs, f, end, at + 1, calls)
    BY <1>b, <2>1, Tails
  <2>3. calls' = calls
    BY <1>23 DEF AfterCdata, Quiet
  <2>4. CASE text[at] = "<"
    <3>1. HereIs(cs, f, "out", at)
      BY <2>2, <2>3, <2>4 DEF HereIs, Place
    <3> QED
      BY <1>a, <1>23, <2>4, <3>1, Arrives DEF AfterCdata, Phases
  <2>5. CASE text[at] # "<"
    <3>1. /\ text' = text /\ end' = end /\ closes' = closes /\ at' = at + 1
          /\ phase' = IF at + 1 > end THEN "done" ELSE "tail"
      BY <1>23, <2>5 DEF AfterCdata, MoveTo, Moves
    <3> QED
      BY <2>2, <2>3, <2>5, <3>1 DEF Read, Reading, Place
  <2> QED
    BY <2>4, <2>5
<1>24. CASE Text
  <2>1. DataPlace(text, cs, f, end, at, from, calls) /\ text[at] # "<"
    BY <1>b, <1>24 DEF Text, Place
  <2>2. IF at + 1 >= end THEN Stopped(text, cs, end, calls)
        ELSE DataPlace(text, cs, f, end, at + 1, from, calls)
    BY <1>b, <2>1, TextGoes
  <2>3. /\ text' = text /\ end' = end /\ closes' = closes /\ from' = from /\ calls' = calls
        /\ at' = at + 1 /\ phase' = IF at + 1 >= end THEN "done" ELSE "data"
    BY <1>24 DEF Text, MoveBefore, Moves, Quiet
  <2>4. phase' = "data" => ~(at' > end)
    BY <1>b, <2>3
  <2> QED
    BY <2>2, <2>3, <2>4 DEF Read, Reading, Place
<1>25. CASE TextEnds
  <2>1. DataPlace(text, cs, f, end, at, from, calls) /\ text[at] = "<"
    BY <1>b, <1>25 DEF TextEnds, Place
  <2>2. \/ /\ at > from /\ (at < end => text[at + 1] = "/")
           /\ calls' = Append(calls, [call |-> "data", part |-> SubSeq(text, from, at - 1)])
        \/ (at = from \/ (at < end => text[at + 1] # "/")) /\ calls' = calls
    BY <1>25 DEF TextEnds, Followed, NotFollowed, Emit, Part, Quiet
  <2>3. IF at >= end THEN Stopped(text, cs, end, calls')
        ELSE OutPlace(text, cs, f, at, calls')
    BY <1>b, <2>1, <2>2, TextEnded
  <2>4. /\ text' = text /\ end' = end /\ closes' = closes
        /\ at' = at /\ phase' = IF at >= end THEN "done" ELSE "out"
    BY <1>25 DEF TextEnds, MoveBefore, Moves
  <2>5. ~(at' > end)
    BY <1>b, <2>4
  <2> QED
    BY <2>3, <2>4, <2>5 DEF Read, Reading, Place
<1>26. ~PastEnd
  BY <1>b DEF PastEnd
<1> QED
  BY <1>1, <1>2, <1>3, <1>4, <1>5, <1>6, <1>7, <1>8, <1>9, <1>10, <1>11, <1>12, <1>13, <1>14, <1>15, <1>16, <1>17, <1>18, <1>19, <1>20, <1>21, <1>22, <1>23, <1>24, <1>25, <1>26 DEF Parse

\* What the consumers are called for is laid out in the documents.
AllLaid ==
  /\ \A d \in Descriptions : \E f : LaidOut(d.text, d.calls, f, TRUE)
  /\ \A d \in Replies : \E f : LaidOut(d.text, d.calls, f, FALSE)

InHand == text = doc.text /\ \E f : LaidAs(doc.calls, f) /\ Read(doc.calls, f)
InOrder == stage \in {"description", "reply"} => InHand

\* The first symbol is the first item.
LEMMA ReadingBegins ==
  ASSUME NEW t \in Seq(STRING), NEW cs \in Seq(CallRecords), NEW ends \in BOOLEAN, NEW f,
         LaidOut(t, cs, f, ends), NEW n \in 0 .. Len(t), ParserStarts(t, n, ends)
  PROVE  LaidAs(cs, f)' /\ Read(cs, f)'
<1>1. Laid(t, cs, f, ends)
  BY DEF Laid
<1>2. Len(t) \in Nat /\ Len(cs) \in Nat /\ n \in Nat
  BY LenProperties
<1>3. /\ text' = t /\ end' = n /\ at' = 1 /\ closes' = ends /\ calls' = <<>>
      /\ phase' = IF n > 1 THEN "out" ELSE "done"
  BY DEF ParserStarts
<1>4. OutPlace(t, cs, f, 1, <<>>)
  <2>1. 1 \in DOMAIN f /\ f[1] = 0
    BY <1>1 DEF Laid, LaidOut
  <2>2. SubSeq(cs, 1, 0) = <<>>
    BY <1>2
  <2> QED
    BY <1>2, <2>1, <2>2 DEF OutPlace, Upto
<1>5. LaidAs(cs, f)'
  BY <1>1, <1>3 DEF LaidAs
<1>6. CASE n > 1
  <2>1. Reading(text', cs, f, closes', end', phase', at', from', calls')
    BY <1>3, <1>4, <1>6 DEF Reading, Place
  <2> QED
    BY <1>5, <2>1 DEF Read
<1>7. CASE ~(n > 1)
  <2>1. Stopped(t, cs, n, <<>>)
    <3>1. CASE n = Len(t)
      <4>1. 1 >= Len(t) /\ 1 \in Nat
        BY <1>2, <1>7, <3>1
      <4>2. <<>> = SubSeq(cs, 1, Len(cs))
        BY <1>1, <1>4, <4>1, OutEnds
      <4> QED
        BY <1>2, <4>2 DEF Stopped
    <3>2. CASE n # Len(t)
      <4>1. <<>> = SubSeq(cs, 1, 0) /\ 0 \in 0 .. Len(cs)
        BY <1>2
      <4> QED
        BY <3>2, <4>1 DEF Stopped
    <3> QED
      BY <3>1, <3>2
  <2>2. Reading(text', cs, f, closes', end', phase', at', from', calls')
    BY <1>3, <1>7, <2>1 DEF Reading
  <2> QED
    BY <1>5, <2>2 DEF Read
<1> QED
  BY <1>6, <1>7

\* As long as the walk goes on the calls are a first part of those of the document.
LEMMA FirstPart ==
  ASSUME NEW cs, NEW f, ParserTypeOK, LaidAs(cs, f), Read(cs, f), phase # "done"
  PROVE  \E p \in 0 .. Len(cs) : calls = SubSeq(cs, 1, p)
<1>1. phase \in Phases \ {"done"} /\ at \in Nat /\ end \in 0 .. Len(text)
  BY LenProperties DEF ParserTypeOK, Phases
<1>2. CASE at > end
  BY <1>2 DEF Read, Reading, Cut
<1>3. CASE ~(at > end)
  <2>1. Place(text, cs, f, closes, end, phase, at, from, calls)
    BY <1>3 DEF Read, Reading
  <2> QED
    BY <1>1, <2>1, PlacesTell DEF LaidAs
<1> QED
  BY <1>2, <1>3

LEMMA ReadingStarts ==
  ASSUME NEW d, d.text \in Seq(STRING), d.calls \in Seq(CallRecords),
         NEW ends \in BOOLEAN, \E f : LaidOut(d.text, d.calls, f, ends),
         NEW n \in 0 .. Len(d.text), doc' = d, ParserStarts(d.text, n, ends)
  PROVE  InHand'
<1>1. PICK f : LaidOut(d.text, d.calls, f, ends)
  OBVIOUS
<1>2. LaidAs(d.calls, f)' /\ Read(d.calls, f)'
  BY <1>1, ReadingBegins
<1>3. text' = d.text
  BY DEF ParserStarts
<1> QED
  BY <1>2, <1>3 DEF InHand

LEMMA PlaceKept ==
  ASSUME NEW cs, NEW f, ParserTypeOK, LaidAs(cs, f), Read(cs, f), Parse
  PROVE  LaidAs(cs, f)' /\ Read(cs, f)' /\ text' = text /\ end' = end
<1>1. text' = text /\ closes' = closes /\ end' = end
  BY TextStays
<1> QED
  BY <1>1, ReadingGoesOn DEF LaidAs

LEMMA OrderGoesOn ==
  ASSUME ParserTypeOK, InHand, Parse, doc' = doc
  PROVE  InHand'
<1>1. PICK cs, f : cs = doc.calls /\ LaidAs(cs, f) /\ Read(cs, f)
  BY DEF InHand
<1>2. LaidAs(cs, f)' /\ Read(cs, f)' /\ text' = text
  BY <1>1, PlaceKept
<1> QED
  BY <1>1, <1>2 DEF InHand

\* Between two steps of the parser nothing is read.
LEMMA InOrderHolds == AllLaid => (Spec => []InOrder)
<1> SUFFICES ASSUME AllLaid PROVE Spec => []InOrder
  OBVIOUS
<1>1. Init => InOrder
  BY DEF Init, InOrder
<1>2. TypeOK /\ InOrder /\ [Next]_vars => InOrder'
  <2> SUFFICES ASSUME ParserTypeOK, InOrder, [Next]_vars PROVE InOrder'
    BY DEF TypeOK
  <2> USE DEF Goto
  <2>1. CASE UNCHANGED vars
    <3>1. UNCHANGED <<text, end, at, phase, from, closes, calls, doc, stage>>
      BY <2>1 DEF vars, parser
    <3> QED
      BY <3>1 DEF InOrder, InHand, LaidAs, Read
  <2>2. CASE Hear
    BY <2>2 DEF Hear, InOrder
  <2>3. CASE BadUrl
    BY <2>3 DEF BadUrl, InOrder
  <2>4. CASE Fetch
    <3>1. PICK d \in Descriptions : \E n \in 0 .. Len(d.text) :
            doc' = d /\ ParserStarts(d.text, n, TRUE)
      BY <2>4 DEF Fetch
    <3>2. d.text \in Seq(STRING) /\ d.calls \in Seq(CallRecords)
      BY DocumentsAssumption DEF CallRecords
    <3>3. \E f : LaidOut(d.text, d.calls, f, TRUE)
      BY DEF AllLaid
    <3>4. InHand'
      BY <3>1, <3>2, <3>3, ReadingStarts
    <3> QED
      BY <3>4 DEF InOrder
  <2>5. CASE ReadDescription
    <3>1. InHand'
      BY <2>5, OrderGoesOn DEF ReadDescription, InOrder
    <3> QED
      BY <3>1 DEF InOrder
  <2>6. CASE TakeDevice
    BY <2>6 DEF TakeDevice, Uses, InOrder
  <2>7. CASE TakeSecond
    BY <2>7 DEF TakeSecond, Uses, InOrder
  <2>8. CASE PassOver
    BY <2>8 DEF PassOver, InOrder
  <2>9. CASE Call
    <3>1. PICK d \in Replies : \E n \in 0 .. Len(d.text) :
            doc' = d /\ ParserStarts(d.text, n, FALSE)
      BY <2>9 DEF Call
    <3>2. d.text \in Seq(STRING) /\ d.calls \in Seq(CallRecords)
      BY DocumentsAssumption DEF CallRecords
    <3>3. \E f : LaidOut(d.text, d.calls, f, FALSE)
      BY DEF AllLaid
    <3>4. InHand'
      BY <3>1, <3>2, <3>3, ReadingStarts
    <3> QED
      BY <3>4 DEF InOrder
  <2>10. CASE ReadReply
    <3>1. InHand'
      BY <2>10, OrderGoesOn DEF ReadReply, InOrder
    <3> QED
      BY <3>1 DEF InOrder
  <2>11. CASE Replied
    <3>1. stage' \in {"listing", "over"}
      BY <2>11 DEF Replied
    <3> QED
      BY <3>1 DEF InOrder
  <2>12. CASE ReadListing
    BY <2>12 DEF ReadListing, InOrder
  <2>13. CASE Listed
    BY <2>13 DEF Listed, InOrder
  <2>14. CASE Ended
    <3>1. UNCHANGED <<text, end, at, phase, from, closes, calls, doc, stage>>
      BY <2>14 DEF Ended, vars, parser
    <3> QED
      BY <3>1 DEF InOrder, InHand, LaidAs, Read
  <2> QED
    BY <2>1, <2>2, <2>3, <2>4, <2>5, <2>6, <2>7, <2>8, <2>9, <2>10, <2>11,
       <2>12, <2>13, <2>14 DEF Next
<1>3. Spec => []TypeOK
  BY ParserInside
<1> QED
  BY <1>1, <1>2, <1>3, PTL DEF Spec

\* What is in front of the last call.
LEMMA AppendFront ==
  ASSUME NEW S, NEW s \in Seq(S), NEW e \in S, NEW c, c = Append(s, e)
  PROVE  /\ Len(c) = Len(s) + 1 /\ c[Len(s) + 1] = e
         /\ SubSeq(c, 1, Len(s)) = s
<1>1. Len(s) \in Nat
  BY LenProperties
<1>2. c \in Seq(S) /\ Len(c) = Len(s) + 1 /\ c[Len(s) + 1] = e
      /\ \A i \in 1 .. Len(s) : c[i] = s[i]
  BY AppendProperties
<1>3. SubSeq(c, 1, Len(s)) \in Seq(S) /\ Len(SubSeq(c, 1, Len(s))) = Len(s)
      /\ \A i \in 1 .. Len(s) : SubSeq(c, 1, Len(s))[i] = c[i]
  BY <1>1, <1>2
<1>4. SubSeq(c, 1, Len(s)) = s
  BY <1>1, <1>2, <1>3, SeqEqual
<1> QED
  BY <1>2, <1>4

LEMMA PrefixIs ==
  ASSUME NEW S, NEW s \in Seq(S), NEW p \in 0 .. Len(s)
  PROVE  IsPrefix(SubSeq(s, 1, p), s)
<1>1. Len(s) \in Nat
  BY LenProperties
<1>2. Len(SubSeq(s, 1, p)) = p
  BY <1>1
<1>3. SubSeq(SubSeq(s, 1, p), 1, p) = SubSeq(s, 1, p)
  BY <1>1
<1> QED
  BY <1>1, <1>2, <1>3 DEF IsPrefix

LEMMA OrderIsKept ==
  ASSUME ParserTypeOK, InOrder
  PROVE  CallsInOrder
<1> SUFFICES ASSUME stage \in {"description", "reply"}
             PROVE  \/ /\ IsPrefix(calls, doc.calls)
                       /\ phase = "done" /\ Whole => calls = doc.calls
                    \/ /\ phase = "done" /\ ~Whole
                       /\ Last(calls).call = "data" /\ IsBlank(Last(calls).part)
                       /\ IsPrefix(Front(calls), doc.calls)
  BY DEF CallsInOrder
<1>1. PICK f : LaidAs(doc.calls, f) /\ Read(doc.calls, f)
  BY DEF InOrder, InHand
<1> DEFINE cs == doc.calls
<1>2. /\ cs \in Seq(CallRecords) /\ Len(cs) \in Nat
      /\ end \in 0 .. Len(text) /\ at \in Nat /\ Len(text) \in Nat
  BY <1>1, LenProperties DEF LaidAs, Laid, ParserTypeOK
<1>3. CASE phase # "done"
  <2>1. \E p \in 0 .. Len(cs) : calls = SubSeq(cs, 1, p)
    BY <1>1, <1>3, FirstPart
  <2> QED
    BY <1>2, <1>3, <2>1, PrefixIs
<1>4. CASE phase = "done"
  <2>1. PICK p \in 0 .. Len(cs) :
          \/ calls = SubSeq(cs, 1, p) /\ (end = Len(text) => p = Len(cs))
          \/ /\ end < Len(text)
             /\ \E v \in Seq(STRING) :
                  IsBlank(v) /\ calls = Append(SubSeq(cs, 1, p), [call |-> "data", part |-> v])
    BY <1>1, <1>4 DEF Read, Reading, Stopped
  <2>2. IsPrefix(SubSeq(cs, 1, p), cs)
    BY <1>2, PrefixIs
  <2>3. CASE calls = SubSeq(cs, 1, p) /\ (end = Len(text) => p = Len(cs))
    <3>1. SubSeq(cs, 1, Len(cs)) = cs
      BY <1>2
    <3> QED
      BY <2>2, <2>3, <3>1 DEF Whole
  <2>4. CASE /\ end < Len(text)
             /\ \E v \in Seq(STRING) :
                  IsBlank(v) /\ calls = Append(SubSeq(cs, 1, p), [call |-> "data", part |-> v])
    <3>1. PICK v \in Seq(STRING) :
             IsBlank(v) /\ calls = Append(SubSeq(cs, 1, p), [call |-> "data", part |-> v])
      BY <2>4
    <3>2. SubSeq(cs, 1, p) \in Seq(CallRecords) /\ Len(SubSeq(cs, 1, p)) = p
          /\ [call |-> "data", part |-> v] \in CallRecords
      <4>1. p \in Int /\ p <= Len(cs) /\ 1 \in Nat \ {0}
        BY <1>2
      <4>2. SubSeq(cs, 1, p) \in Seq(CallRecords)
        BY <1>2, <4>1, PartOf
      <4> QED
        BY <1>2, <4>2 DEF CallRecords
    <3> DEFINE h == SubSeq(cs, 1, p)
               e == [call |-> "data", part |-> v]
    <3>3. Len(calls) = p + 1 /\ calls[p + 1] = e /\ SubSeq(calls, 1, p) = h
      <4>1. h \in Seq(CallRecords) /\ e \in CallRecords /\ calls = Append(h, e) /\ Len(h) = p
        BY <3>1, <3>2
      <4> HIDE DEF h, e
      <4>2. Len(calls) = Len(h) + 1 /\ calls[Len(h) + 1] = e /\ SubSeq(calls, 1, Len(h)) = h
        BY <4>1, AppendFront, Zenon
      <4> QED
        BY <4>1, <4>2
    <3>4. Last(calls) = [call |-> "data", part |-> v] /\ Front(calls) = SubSeq(cs, 1, p)
      BY <3>3 DEF Last, Front
    <3>5. ~Whole
      BY <1>2, <2>4 DEF Whole
    <3>6. Last(calls).call = "data" /\ Last(calls).part = v
      BY <3>4
    <3>7. IsBlank(Last(calls).part) /\ IsPrefix(Front(calls), cs)
      BY <2>2, <3>1, <3>4, <3>6, Zenon
    <3> QED
      BY <1>4, <3>5, <3>6, <3>7, Zenon
  <2> QED
    BY <2>1, <2>3, <2>4
<1> QED
  BY <1>3, <1>4

\* If a document is written in items, the consumer hears of each of them in turn,
\* with its whole name and its whole text, wherever the document is cut, and of
\* all of them if it has arrived; the one call too many is that for white space
\* at the cut (parseelt and parseatt of minixml.c).
THEOREM CallsAreInOrder == AllLaid => (Spec => []CallsInOrder)
<1>1. TypeOK /\ InOrder => CallsInOrder
  BY OrderIsKept DEF TypeOK
<1> QED
  BY <1>1, InOrderHolds, ParserInside, PTL

-----------------------------------------------------------------------------
(***************************************************************************)
(* What the consumers keep.  A step of the parser makes no call, or the    *)
(* next one of the document, or the one that is too many at the cut.       *)
(***************************************************************************)
OneCall(cs) ==
  \/ /\ calls' # calls /\ Len(calls') = Len(calls) + 1
     /\ Len(calls') \in DOMAIN cs /\ Last(calls') = cs[Len(calls')]
  \/ /\ calls' # calls /\ phase' = "done" /\ ~Whole'
     /\ Last(calls').call = "data" /\ IsBlank(Last(calls').part)

\* A sequence that ends with e.
LEMMA EndsWith ==
  ASSUME NEW S, NEW s \in Seq(S), NEW e \in S, NEW c, c = Append(s, e)
  PROVE  Len(c) = Len(s) + 1 /\ Len(s) \in Nat /\ Last(c) = e /\ c # s
<1>1. Len(s) \in Nat
  BY LenProperties
<1>2. Len(c) = Len(s) + 1 /\ c[Len(s) + 1] = e
  BY AppendProperties
<1> QED
  BY <1>1, <1>2 DEF Last

LEMMA NextComes ==
  ASSUME NEW cs, NEW f, ParserTypeOK, LaidAs(cs, f), Read(cs, f), Parse
  PROVE  calls' = calls \/ OneCall(cs)
<1>3. Read(cs, f)' /\ LaidAs(cs, f)'
  BY PlaceKept
<1>4. ParserTypeOK'
  BY ParserStep
<1>5. cs \in Seq(CallRecords) /\ Len(cs) \in Nat /\ DOMAIN cs = 1 .. Len(cs)
  BY LenProperties DEF LaidAs, Laid
<1>6. \A p \in 0 .. Len(cs) : Len(SubSeq(cs, 1, p)) = p /\ \A i \in 1 .. p : SubSeq(cs, 1, p)[i] = cs[i]
  BY <1>5
<1>7. PICK p \in 0 .. Len(cs) : calls = SubSeq(cs, 1, p)
  <2>1. phase # "done"
    BY Shapes DEF StepShape
  <2> QED
    BY <2>1, FirstPart
<1>8. CASE calls' # calls
  <2>1. PICK e \in CallRecords : calls' = Append(calls, e)
    <3>1. PlaceOK /\ FoundOK /\ StepShape
      BY Halves, Shapes
    <3>2. PICK c \in {"start", "data", "end"} : at <= end /\ Emit(c)
      BY <1>8, <3>1 DEF StepShape, Quiet, Began
    <3>3. [call |-> c, part |-> Part] \in CallRecords
      BY <3>1, <3>2, PartTyped DEF CallRecords
    <3> QED
      BY <3>2, <3>3 DEF Emit
  <2>2. Len(calls') = p + 1 /\ Last(calls') = e /\ Last(calls') = calls'[p + 1]
    <3>1. calls \in Seq(CallRecords)
      BY Halves DEF FoundOK
    <3>2. Len(calls') = Len(calls) + 1 /\ Last(calls') = e
      BY <2>1, <3>1, EndsWith
    <3> QED
      BY <1>6, <1>7, <3>2 DEF Last
  <2>3. CASE \E q \in 0 .. Len(cs) : calls' = SubSeq(cs, 1, q)
    <3>1. PICK q \in 0 .. Len(cs) : calls' = SubSeq(cs, 1, q)
      BY <2>3
    <3>2. q = p + 1 /\ p + 1 \in 1 .. Len(cs)
      BY <1>5, <1>6, <2>2, <3>1
    <3>3. Last(calls') = cs[p + 1] /\ Len(calls) = p
      BY <1>6, <1>7, <2>2, <3>1, <3>2
    <3> QED
      BY <1>5, <1>8, <2>2, <3>2, <3>3 DEF OneCall
  <2>4. CASE ~\E q \in 0 .. Len(cs) : calls' = SubSeq(cs, 1, q)
    <3>1. phase' = "done"
      <4> SUFFICES ASSUME phase' # "done" PROVE FALSE
        OBVIOUS
      <4>1. ~Cut(text', cs, end', calls')
        BY <2>4 DEF Cut
      <4>2. Place(text', cs, f, closes', end', phase', at', from', calls')
        BY <1>3, <4>1 DEF Read, Reading
      <4>3. phase' \in Phases \ {"done"} /\ at' \in Nat /\ end' \in 0 .. Len(text')
        BY <1>4, LenProperties DEF ParserTypeOK, Phases
      <4> QED
        BY <1>3, <2>4, <4>2, <4>3, PlacesTell DEF LaidAs
    <3>2. Stopped(text', cs, end', calls')
      BY <1>3, <3>1 DEF Read, Reading
    <3>3. PICK q \in 0 .. Len(cs), v \in Seq(STRING) :
            /\ end' < Len(text') /\ IsBlank(v)
            /\ calls' = Append(SubSeq(cs, 1, q), [call |-> "data", part |-> v])
      BY <2>4, <3>2 DEF Stopped
    <3>4. Last(calls') = [call |-> "data", part |-> v]
      <4>1. SubSeq(cs, 1, q) \in Seq(CallRecords) /\ [call |-> "data", part |-> v] \in CallRecords
        <5>1. q \in Int /\ q <= Len(cs) /\ 1 \in Nat \ {0}
          BY <1>5
        <5>2. SubSeq(cs, 1, q) \in Seq(CallRecords)
          BY <1>5, <5>1, PartOf
        <5> QED
          BY <5>2 DEF CallRecords
      <4> DEFINE h == SubSeq(cs, 1, q)
                 b == [call |-> "data", part |-> v]
      <4>2. h \in Seq(CallRecords) /\ b \in CallRecords /\ calls' = Append(h, b)
        BY <3>3, <4>1
      <4> HIDE DEF h, b
      <4>3. Last(calls') = b
        BY <4>2, EndsWith, Zenon
      <4> QED
        BY <4>3 DEF b
    <3>5. ~Whole'
      BY <1>4, <3>3, LenProperties DEF ParserTypeOK, Whole
    <3>6. Last(calls').call = "data" /\ IsBlank(Last(calls').part)
      BY <3>3, <3>4
    <3> QED
      BY <1>8, <3>1, <3>5, <3>6 DEF OneCall
  <2> QED
    BY <2>3, <2>4
<1> QED
  BY <1>8

LEMMA CallComes ==
  ASSUME ParserTypeOK, InHand, Parse, doc' = doc
  PROVE  InHand' /\ (calls' = calls \/ OneCall(doc.calls))
<1>1. PICK cs, f : cs = doc.calls /\ LaidAs(cs, f) /\ Read(cs, f)
  BY DEF InHand
<1>2. calls' = calls \/ OneCall(cs)
  BY <1>1, NextComes
<1> QED
  BY <1>1, <1>2, OrderGoesOn

-----------------------------------------------------------------------------
\* The values of a reply.  Of its pairs those are in the list whose call has
\* been made.
AllPaired == \A d \in Replies : Paired(d)

ReplyHas(d, w, p, r) ==
  \E n \in 0 .. Len(d.pairs) :
    /\ \A i \in DOMAIN d.pairs : w[i] <= p <=> i <= n
    /\ r.list = Pairs(d, n)
    /\ p > 0 /\ d.calls[p].call = "start" => r.curelt = Capped(d.calls[p].part, ValueMax)

BlankOnTop(d, r) ==
  \E n \in 0 .. Len(d.pairs) :
    \/ r.list = Pairs(d, n)
    \/ r.list # <<>> /\ IsBlank(Head(r.list).value) /\ Tail(r.list) = Pairs(d, n)

LEMMA ShortenedIs ==
  ASSUME NEW p \in PairRecords
  PROVE  Shortened(p) = [name |-> p.name, value |-> Capped(p.value, ValueMax)]
  BY DEF Shortened, PairRecords

LEMMA PairsGrow ==
  ASSUME NEW d, d.pairs \in Seq(PairRecords)
  PROVE  /\ Pairs(d, 0) = <<>>
         /\ \A n \in 0 .. Len(d.pairs) : Pairs(d, n) \in Seq(PairRecords)
         /\ \A n \in 0 .. Len(d.pairs) - 1 :
              Pairs(d, n + 1) = <<Shortened(d.pairs[n + 1])>> \o Pairs(d, n)
<1>1. Len(d.pairs) \in Nat /\ DOMAIN d.pairs = 1 .. Len(d.pairs)
  BY LenProperties
<1>2. \A p \in PairRecords : Shortened(p) = [name |-> p.name, value |-> Capped(p.value, ValueMax)]
  BY ShortenedIs
<1>3. \A i \in DOMAIN d.pairs : Shortened(d.pairs[i]) \in PairRecords
  <2> SUFFICES ASSUME NEW i \in DOMAIN d.pairs PROVE Shortened(d.pairs[i]) \in PairRecords
    OBVIOUS
  <2>1. d.pairs[i] \in PairRecords
    BY <1>1
  <2>2. d.pairs[i].name \in Seq(STRING) /\ d.pairs[i].value \in Seq(STRING)
    BY <2>1 DEF PairRecords
  <2>3. Capped(d.pairs[i].value, ValueMax) \in Seq(STRING)
    BY <2>2, CappedTyped, DocumentsAssumption
  <2> QED
    BY <1>2, <2>1, <2>2, <2>3 DEF PairRecords
<1>4. \A n \in 0 .. Len(d.pairs) :
        Pairs(d, n) = [i \in 1 .. n |-> Shortened(d.pairs[n - i + 1])]
  <2> SUFFICES ASSUME NEW n \in 0 .. Len(d.pairs)
               PROVE  Pairs(d, n) = [i \in 1 .. n |-> Shortened(d.pairs[n - i + 1])]
    OBVIOUS
  <2> DEFINE s == [i \in 1 .. n |-> Shortened(d.pairs[i])]
  <2>1. Pairs(d, n) = Reverse(s)
    BY DEF Pairs
  <2>2. s \in Seq(PairRecords) /\ Len(s) = n /\ \A i \in 1 .. n : s[i] = Shortened(d.pairs[i])
    BY <1>1, <1>3
  <2> HIDE DEF s
  <2>3. Reverse(s) = [i \in 1 .. n |-> s[(n - i) + 1]]
    BY <2>2 DEF Reverse
  <2>4. \A i \in 1 .. n : n - i + 1 \in 1 .. n /\ s[(n - i) + 1] = Shortened(d.pairs[n - i + 1])
    BY <1>1, <2>2
  <2> QED
    BY <2>1, <2>3, <2>4
<1>5. \A n \in 0 .. Len(d.pairs) : /\ Pairs(d, n) \in Seq(PairRecords) /\ Len(Pairs(d, n)) = n
                                  /\ \A i \in 1 .. n : Pairs(d, n)[i] = Shortened(d.pairs[n - i + 1])
  <2> SUFFICES ASSUME NEW n \in 0 .. Len(d.pairs)
               PROVE  /\ Pairs(d, n) \in Seq(PairRecords) /\ Len(Pairs(d, n)) = n
                      /\ \A i \in 1 .. n : Pairs(d, n)[i] = Shortened(d.pairs[n - i + 1])
    OBVIOUS
  <2>1. \A i \in 1 .. n : Shortened(d.pairs[n - i + 1]) \in PairRecords
    BY <1>1, <1>3
  <2> QED
    BY <1>1, <1>4, <2>1
<1>6. ASSUME NEW n \in 0 .. Len(d.pairs) - 1
      PROVE  Pairs(d, n + 1) = <<Shortened(d.pairs[n + 1])>> \o Pairs(d, n)
  <2> DEFINE e == Shortened(d.pairs[n + 1])
             s == Pairs(d, n)
  <2>1. n \in 0 .. Len(d.pairs) /\ n + 1 \in 0 .. Len(d.pairs) /\ n + 1 \in DOMAIN d.pairs /\ n \in Nat
    BY <1>1
  <2>2. s \in Seq(PairRecords) /\ Len(s) = n /\ e \in PairRecords
    BY <1>3, <1>5, <2>1
  <2>3. Pairs(d, n + 1) \in Seq(PairRecords) /\ Len(Pairs(d, n + 1)) = n + 1
    BY <1>5, <2>1
  <2>4. \A i \in 1 .. n + 1 : Pairs(d, n + 1)[i] = IF i = 1 THEN e ELSE s[i - 1]
    <3> SUFFICES ASSUME NEW i \in 1 .. n + 1
                 PROVE  Pairs(d, n + 1)[i] = IF i = 1 THEN e ELSE s[i - 1]
      OBVIOUS
    <3>1. Pairs(d, n + 1)[i] = Shortened(d.pairs[(n + 1) - i + 1])
      BY <1>5, <2>1
    <3>2. CASE i = 1
      BY <2>1, <3>1, <3>2
    <3>3. CASE i # 1
      <4>1. i - 1 \in 1 .. n /\ n - (i - 1) + 1 = (n + 1) - i + 1
        BY <2>1, <3>3
      <4>2. s[i - 1] = Shortened(d.pairs[n - (i - 1) + 1])
        BY <1>5, <2>1, <4>1
      <4> QED
        BY <3>1, <3>3, <4>1, <4>2
    <3> QED
      BY <3>2, <3>3
  <2> HIDE DEF e, s
  <2>5. /\ <<e>> \o s \in Seq(PairRecords) /\ Len(<<e>> \o s) = n + 1
        /\ \A i \in 1 .. n + 1 : (<<e>> \o s)[i] = IF i = 1 THEN e ELSE s[i - 1]
    BY <2>1, <2>2, SMTT(30)
  <2>6. Pairs(d, n + 1) = <<e>> \o s
    BY <2>1, <2>3, <2>4, <2>5, SeqEqual
  <2> QED
    BY <2>6 DEF e, s
<1>7. Pairs(d, 0) = <<>>
  BY <1>1, <1>5, EmptySeq
<1> QED
  BY <1>5, <1>6, <1>7

LEMMA CappedShort ==
  ASSUME NEW s \in Seq(STRING), Len(s) <= ValueMax
  PROVE  Capped(s, ValueMax) = s
<1>1. Len(s) \in Nat
  BY LenProperties
<1>2. Lesser(Len(s), ValueMax) = Len(s)
  BY <1>1, DocumentsAssumption DEF Lesser
<1> QED
  BY <1>1, <1>2 DEF Capped

LEMMA ElementShort ==
  ASSUME NEW n, Element(n) \in Seq(STRING)
  PROVE  Capped(Element(n), ValueMax) = Element(n)
<1>1. Len(Element(n)) = 1
  BY DEF Element
<1>2. ValueMax \in Nat \ {0}
  BY DocumentsAssumption
<1>3. Len(Element(n)) <= ValueMax
  BY <1>1, <1>2
<1> QED
  BY <1>1, <1>3, CappedShort

LEMMA CappedBlank ==
  ASSUME NEW s \in Seq(STRING), IsBlank(s)
  PROVE  IsBlank(Capped(s, ValueMax))
<1> DEFINE m == Lesser(Len(s), ValueMax)
<1>1. Len(s) \in Nat /\ m \in 0 .. Len(s)
  BY LenProperties, DocumentsAssumption DEF Lesser
<1> HIDE DEF m
<1>2. /\ SubSeq(s, 1, m) \in Seq(STRING) /\ Len(SubSeq(s, 1, m)) = m
      /\ \A i \in 1 .. m : SubSeq(s, 1, m)[i] = s[i]
  BY <1>1
<1>3. ToSet(SubSeq(s, 1, m)) \subseteq ToSet(s)
  <2>1. DOMAIN SubSeq(s, 1, m) = 1 .. m /\ 1 .. m \subseteq DOMAIN s
    BY <1>1, <1>2
  <2> QED
    BY <1>2, <2>1 DEF ToSet
<1> QED
  BY <1>3 DEF IsBlank, Capped, m

\* A call the document has.
LEMMA ReplyGrows ==
  ASSUME NEW d, d.pairs \in Seq(PairRecords), d.calls \in Seq(CallRecords),
         NEW w \in [DOMAIN d.pairs -> DOMAIN d.calls], Pairing(d, w),
         NEW p \in 0 .. Len(d.calls) - 1, NEW r \in ReplyRecords, ReplyHas(d, w, p, r),
         d.calls[p + 1].call # "end"
  PROVE  ReplyHas(d, w, p + 1, ReplyCall(r, d.calls[p + 1]))
<1> DEFINE c == d.calls[p + 1]
           L == Len(d.pairs)
<1>1. /\ Len(d.calls) \in Nat /\ DOMAIN d.calls = 1 .. Len(d.calls) /\ p \in Nat
      /\ L \in Nat /\ DOMAIN d.pairs = 1 .. L
  BY LenProperties
<1>2. p + 1 \in DOMAIN d.calls /\ c \in CallRecords
  BY <1>1
<1>3. PICK n \in 0 .. L :
        /\ \A i \in DOMAIN d.pairs : w[i] <= p <=> i <= n
        /\ r.list = Pairs(d, n)
        /\ p > 0 /\ d.calls[p].call = "start" => r.curelt = Capped(d.calls[p].part, ValueMax)
  BY DEF ReplyHas
<1>4. \A i \in DOMAIN d.pairs : w[i] \in Nat
  BY <1>1
<1>5. CASE c.call = "start"
  <2>1. ReplyCall(r, c).list = r.list /\ ReplyCall(r, c).curelt = Capped(c.part, ValueMax)
    BY <1>5 DEF ReplyCall, ReplyRecords
  <2>2. \A i \in DOMAIN d.pairs : w[i] # p + 1
    <3> SUFFICES ASSUME NEW i \in DOMAIN d.pairs, w[i] = p + 1 PROVE FALSE
      OBVIOUS
    <3>1. c = [call |-> "data", part |-> d.pairs[i].value]
      BY DEF Pairing
    <3> QED
      BY <1>5, <3>1
  <2>3. \A i \in DOMAIN d.pairs : w[i] <= p + 1 <=> i <= n
    BY <1>1, <1>3, <1>4, <2>2
  <2> QED
    BY <1>3, <2>1, <2>3 DEF ReplyHas
<1>6. CASE c.call = "data"
  <2>1. ReplyCall(r, c) = NameValueParserGetData(r, c.part)
    BY <1>6 DEF ReplyCall
  <2>2. CASE \E i \in DOMAIN d.pairs : w[i] = p + 1
    <3>1. PICK i \in DOMAIN d.pairs : w[i] = p + 1
      BY <2>2
    <3>2. /\ w[i] > 1 /\ c = [call |-> "data", part |-> d.pairs[i].value]
          /\ d.calls[p] = [call |-> "start", part |-> d.pairs[i].name]
          /\ Len(d.pairs[i].name) <= ValueMax /\ d.pairs[i].name # Element("NewPortListing")
      <4>1. w[i] - 1 = p
        BY <1>1, <3>1
      <4> QED
        BY <3>1, <4>1 DEF Pairing
    <3>3. i = n + 1
      <4>1. i > n
        BY <1>1, <1>3, <3>1
      <4>2. CASE i > n + 1
        <5>1. n + 1 \in DOMAIN d.pairs /\ n + 1 < i
          BY <1>1, <4>2
        <5>2. w[n + 1] < w[i]
          BY <5>1 DEF Pairing
        <5>3. w[n + 1] <= p
          BY <1>1, <1>4, <3>1, <5>1, <5>2
        <5> QED
          BY <1>1, <1>3, <5>1, <5>3
      <4> QED
        BY <1>1, <4>1, <4>2
    <3>4. d.pairs[i] \in PairRecords
      BY <1>1
    <3>5. d.pairs[i].name \in Seq(STRING) /\ d.pairs[i].value \in Seq(STRING)
      BY <3>4 DEF PairRecords
    <3>6. r.curelt = d.pairs[i].name
      <4>1. p > 0 /\ d.calls[p].call = "start" /\ d.calls[p].part = d.pairs[i].name
        BY <1>1, <3>1, <3>2
      <4> QED
        BY <1>3, <3>2, <3>5, <4>1, CappedShort
    <3>7. ReplyCall(r, c).list = <<[name |-> r.curelt, value |-> Capped(c.part, ValueMax)]>> \o r.list
      BY <2>1, <3>2, <3>6 DEF NameValueParserGetData, ReplyRecords
    <3>8. Shortened(d.pairs[i]) = [name |-> r.curelt, value |-> Capped(c.part, ValueMax)]
      <4>1. d.pairs[i].value = c.part
        BY <3>2
      <4> QED
        BY <3>4, <3>6, <4>1, ShortenedIs
    <3>9. ReplyCall(r, c).list = Pairs(d, n + 1) /\ n + 1 \in 0 .. L
      <4>1. n \in 0 .. L - 1
        BY <1>1, <3>3
      <4>2. Pairs(d, n + 1) = <<Shortened(d.pairs[n + 1])>> \o Pairs(d, n)
        BY <4>1, PairsGrow
      <4> QED
        BY <1>1, <1>3, <3>3, <3>7, <3>8, <4>1, <4>2
    <3>10. \A j \in DOMAIN d.pairs : w[j] <= p + 1 <=> j <= n + 1
      <4> SUFFICES ASSUME NEW j \in DOMAIN d.pairs PROVE w[j] <= p + 1 <=> j <= n + 1
        OBVIOUS
      <4>1. CASE j <= n
        BY <1>1, <1>3, <1>4, <4>1
      <4>2. CASE j = n + 1
        BY <1>1, <3>1, <3>3, <4>2
      <4>3. CASE j > n + 1
        <5>1. w[i] < w[j]
          BY <3>3, <4>3 DEF Pairing
        <5> QED
          BY <1>1, <1>4, <3>1, <4>3, <5>1
      <4> QED
        BY <1>1, <4>1, <4>2, <4>3
    <3> QED
      BY <1>1, <1>6, <3>9, <3>10 DEF ReplyHas
  <2>3. CASE ~\E i \in DOMAIN d.pairs : w[i] = p + 1
    <3>1. p + 1 > 1 /\ d.calls[(p + 1) - 1] = [call |-> "start", part |-> Element("NewPortListing")]
      BY <1>2, <1>6, <2>3 DEF Pairing
    <3>2. p > 0 /\ d.calls[p] = [call |-> "start", part |-> Element("NewPortListing")]
      BY <1>1, <3>1
    <3>3. r.curelt = Element("NewPortListing")
      <4>1. Element("NewPortListing") \in Seq(STRING)
        <5>1. d.calls[p] \in CallRecords
          BY <1>1, <3>2
        <5>2. d.calls[p].part \in Seq(STRING)
          BY <5>1 DEF CallRecords
        <5> QED
          BY <3>2, <5>2
      <4>2. Capped(Element("NewPortListing"), ValueMax) = Element("NewPortListing")
        BY <4>1, ElementShort
      <4> QED
        BY <1>3, <3>2, <4>2
    <3>4. ReplyCall(r, c).list = r.list
      BY <2>1, <3>3 DEF NameValueParserGetData, ReplyRecords
    <3>5. \A j \in DOMAIN d.pairs : w[j] <= p + 1 <=> j <= n
      BY <1>1, <1>3, <1>4, <2>3
    <3> QED
      BY <1>1, <1>3, <1>6, <3>4, <3>5 DEF ReplyHas
  <2> QED
    BY <2>2, <2>3
<1> QED
  BY <1>2, <1>5, <1>6 DEF CallRecords

\* The call for white space at the cut.
LEMMA ReplyBlank ==
  ASSUME NEW d, d.pairs \in Seq(PairRecords), NEW w, NEW p,
         NEW r \in ReplyRecords, ReplyHas(d, w, p, r),
         NEW c \in CallRecords, c.call = "data", IsBlank(c.part)
  PROVE  BlankOnTop(d, ReplyCall(r, c))
<1>1. PICK n \in 0 .. Len(d.pairs) : r.list = Pairs(d, n)
  BY DEF ReplyHas
<1>2. ReplyCall(r, c) = NameValueParserGetData(r, c.part)
  BY DEF ReplyCall
<1>3. CASE r.curelt = Element("NewPortListing")
  <2>1. ReplyCall(r, c).list = r.list
    BY <1>2, <1>3 DEF NameValueParserGetData, ReplyRecords
  <2> QED
    BY <1>1, <2>1 DEF BlankOnTop
<1>4. CASE r.curelt # Element("NewPortListing")
  <2> DEFINE e == [name |-> r.curelt, value |-> Capped(c.part, ValueMax)]
             l == Pairs(d, n)
  <2>1. ReplyCall(r, c).list = <<e>> \o l
    BY <1>1, <1>2, <1>4 DEF NameValueParserGetData, ReplyRecords
  <2>2. c.part \in Seq(STRING) /\ Capped(c.part, ValueMax) \in Seq(STRING)
    BY CappedTyped, DocumentsAssumption DEF CallRecords
  <2>3. e \in PairRecords /\ l \in Seq(PairRecords)
    BY <2>2, PairsGrow DEF PairRecords, ReplyRecords
  <2>4. IsBlank(e.value)
    BY <2>2, CappedBlank
  <2> HIDE DEF e, l
  <2>5. <<e>> \o l # <<>> /\ Head(<<e>> \o l) = e /\ Tail(<<e>> \o l) = l
    BY <2>3
  <2> QED
    BY <2>1, <2>4, <2>5 DEF BlankOnTop, l
<1> QED
  BY <1>3, <1>4

\* Of a reply that is read the values are kept whose calls have been made.
ReplyIs ==
  /\ stage = "call" => reply = NoReply
  /\ stage = "reply" =>
       /\ doc \in Replies
       /\ \E w \in [DOMAIN doc.pairs -> DOMAIN doc.calls] :
            /\ Pairing(doc, w)
            /\ \/ ReplyHas(doc, w, Len(calls), reply)
               \/ phase = "done" /\ ~Whole /\ BlankOnTop(doc, reply)

LEMMA ReplyStarts ==
  ASSUME NEW d, d.pairs \in Seq(PairRecords), d.calls \in Seq(CallRecords),
         NEW w \in [DOMAIN d.pairs -> DOMAIN d.calls], Pairing(d, w)
  PROVE  ReplyHas(d, w, 0, NoReply)
<1>1. /\ Len(d.calls) \in Nat /\ DOMAIN d.calls = 1 .. Len(d.calls)
      /\ Len(d.pairs) \in Nat /\ DOMAIN d.pairs = 1 .. Len(d.pairs)
  BY LenProperties
<1>2. \A i \in DOMAIN d.pairs : ~(w[i] <= 0) /\ ~(i <= 0)
  BY <1>1
<1>3. NoReply.list = Pairs(d, 0)
  BY PairsGrow DEF NoReply
<1> QED
  BY <1>1, <1>2, <1>3 DEF ReplyHas

LEMMA ReplyGoesOn ==
  ASSUME AllPaired, ParserTypeOK, InHand, ReplyOK, ReplyIs, stage = "reply", ReadReply
  PROVE  ReplyIs'
<1>1. /\ Parse /\ doc' = doc /\ stage' = "reply"
      /\ reply' = IF calls' = calls THEN reply ELSE ReplyCall(reply, Last(calls'))
  BY DEF ReadReply
<1>2. doc \in Replies
  BY DEF ReplyIs
<1>3. /\ doc.pairs \in Seq(PairRecords) /\ doc.calls \in Seq(CallRecords)
  BY <1>2, DocumentsAssumption DEF AllPaired, Paired, PairRecords, CallRecords
<1>4. PICK w \in [DOMAIN doc.pairs -> DOMAIN doc.calls] :
        /\ Pairing(doc, w)
        /\ \/ ReplyHas(doc, w, Len(calls), reply)
           \/ phase = "done" /\ ~Whole /\ BlankOnTop(doc, reply)
  BY DEF ReplyIs
<1>5. ReplyHas(doc, w, Len(calls), reply)
  BY <1>1, <1>4, Shapes DEF StepShape
<1>6. calls' = calls \/ OneCall(doc.calls)
  BY <1>1, CallComes
<1>7. reply \in ReplyRecords /\ Len(calls) \in Nat
  BY LenProperties DEF ReplyOK, ParserTypeOK
<1>8. CASE calls' = calls
  BY <1>1, <1>2, <1>4, <1>5, <1>8 DEF ReplyIs
<1>9. CASE /\ calls' # calls /\ Len(calls') = Len(calls) + 1
           /\ Len(calls') \in DOMAIN doc.calls /\ Last(calls') = doc.calls[Len(calls')]
  <2> DEFINE p == Len(calls)
  <2>1. p \in 0 .. Len(doc.calls) - 1
    BY <1>3, <1>7, <1>9, LenProperties
  <2>2. doc.calls[p + 1].call # "end"
    BY <1>1, <1>9, LastCall DEF ReplyOK
  <2>3. ReplyHas(doc, w, p + 1, ReplyCall(reply, doc.calls[p + 1]))
    BY <1>3, <1>4, <1>5, <1>7, <2>1, <2>2, ReplyGrows
  <2>4. reply' = ReplyCall(reply, doc.calls[p + 1])
    BY <1>1, <1>9
  <2> QED
    BY <1>1, <1>2, <1>4, <1>9, <2>3, <2>4 DEF ReplyIs
<1>10. CASE /\ calls' # calls /\ phase' = "done" /\ ~Whole'
            /\ Last(calls').call = "data" /\ IsBlank(Last(calls').part)
  <2>1. Last(calls') \in CallRecords
    BY <1>1, <1>10, LastCall
  <2>2. BlankOnTop(doc, reply')
    BY <1>1, <1>3, <1>5, <1>7, <1>10, <2>1, ReplyBlank
  <2> QED
    BY <1>1, <1>2, <1>4, <1>10, <2>2 DEF ReplyIs
<1> QED
  BY <1>6, <1>8, <1>9, <1>10 DEF OneCall

LEMMA ReplyIsKept ==
  ASSUME AllPaired, ParserTypeOK, InOrder, ReplyOK, ReplyIs, [Next]_vars
  PROVE  ReplyIs'
<1> USE DEF Goto
<1>1. CASE UNCHANGED vars \/ Ended
  <2>1. UNCHANGED <<text, end, phase, calls, doc, stage, reply>>
    BY <1>1 DEF Ended, vars, parser, told
  <2>2. Whole' = Whole
    BY <2>1 DEF Whole
  <2> QED
    BY <2>1, <2>2 DEF ReplyIs
<1>2. CASE Call
  <2>1. PICK d \in Replies : \E n \in 0 .. Len(d.text) :
          doc' = d /\ ParserStarts(d.text, n, FALSE)
    BY <1>2 DEF Call
  <2>2. stage' = "reply" /\ reply' = NoReply /\ calls' = <<>>
    BY <1>2, <2>1 DEF Call, ParserStarts, told, ReplyIs
  <2>3. d.pairs \in Seq(PairRecords) /\ d.calls \in Seq(CallRecords)
    BY DocumentsAssumption DEF AllPaired, Paired, PairRecords, CallRecords
  <2>4. PICK w \in [DOMAIN d.pairs -> DOMAIN d.calls] : Pairing(d, w)
    BY DEF AllPaired, Paired
  <2>5. ReplyHas(d, w, 0, NoReply) /\ Len(calls') = 0
    BY <2>2, <2>3, <2>4, ReplyStarts
  <2> QED
    BY <2>1, <2>2, <2>4, <2>5 DEF ReplyIs
<1>3. CASE ReadReply
  <2>1. stage = "reply" /\ InHand
    BY <1>3 DEF ReadReply, InOrder, InHand
  <2> QED
    BY <1>3, <2>1, ReplyGoesOn
<1>4. CASE \/ Hear \/ BadUrl \/ Fetch \/ ReadDescription
           \/ TakeDevice \/ TakeSecond \/ PassOver \/ Replied \/ ReadListing \/ Listed
  <2>1. stage' \notin {"call", "reply"}
    BY <1>4 DEF Hear, BadUrl, Fetch, ReadDescription, TakeDevice, TakeSecond, PassOver,
                Replied, ReadListing, Listed, Uses, Described
  <2> QED
    BY <2>1 DEF ReplyIs
<1> QED
  BY <1>1, <1>2, <1>3, <1>4 DEF Next

LEMMA ReplyIsExact ==
  ASSUME AllPaired, ParserTypeOK, InOrder, ReplyIs
  PROVE  ReplyExact
<1> SUFFICES ASSUME stage = "reply", phase = "done"
             PROVE  \E n \in 0 .. Len(doc.pairs) :
                      \/ reply.list = Pairs(doc, n) /\ (Whole => n = Len(doc.pairs))
                      \/ /\ ~Whole /\ reply.list # <<>> /\ IsBlank(Head(reply.list).value)
                         /\ Tail(reply.list) = Pairs(doc, n)
  BY DEF ReplyExact
<1>1. PICK w \in [DOMAIN doc.pairs -> DOMAIN doc.calls] :
        /\ Pairing(doc, w)
        /\ \/ ReplyHas(doc, w, Len(calls), reply)
           \/ phase = "done" /\ ~Whole /\ BlankOnTop(doc, reply)
  BY DEF ReplyIs
<1>2. CASE ~Whole /\ BlankOnTop(doc, reply)
  BY <1>2 DEF BlankOnTop
<1>3. CASE ReplyHas(doc, w, Len(calls), reply)
  <2>1. PICK n \in 0 .. Len(doc.pairs) :
          /\ \A i \in DOMAIN doc.pairs : w[i] <= Len(calls) <=> i <= n
          /\ reply.list = Pairs(doc, n)
    BY <1>3 DEF ReplyHas
  <2>2. ASSUME Whole PROVE n = Len(doc.pairs)
    <3>1. calls = doc.calls
      BY <2>2, OrderIsKept DEF CallsInOrder
    <3>2. doc \in Replies
      BY DEF ReplyIs
    <3>3. doc.pairs \in Seq(PairRecords) /\ doc.calls \in Seq(CallRecords)
      BY <3>2, DocumentsAssumption DEF AllPaired, Paired, PairRecords, CallRecords
    <3>4. /\ Len(doc.calls) \in Nat /\ DOMAIN doc.calls = 1 .. Len(doc.calls)
          /\ Len(doc.pairs) \in Nat /\ DOMAIN doc.pairs = 1 .. Len(doc.pairs)
      BY <3>3, LenProperties
    <3>5. \A i \in DOMAIN doc.pairs : w[i] <= Len(calls)
      BY <3>1, <3>4
    <3> QED
      BY <2>1, <3>4, <3>5
  <2> QED
    BY <2>1, <2>2
<1> QED
  BY <1>1, <1>2, <1>3

LEMMA ReplyHolds == AllLaid /\ AllPaired => (Spec => []ReplyIs)
<1> SUFFICES ASSUME AllLaid, AllPaired PROVE Spec => []ReplyIs
  OBVIOUS
<1>1. Init => ReplyIs
  BY DEF Init, ReplyIs
<1>2. Inside /\ InOrder /\ ReplyIs /\ [Next]_vars => ReplyIs'
  BY ReplyIsKept DEF Inside
<1>3. Spec => []InOrder
  BY InOrderHolds
<1> QED
  BY <1>1, <1>2, <1>3, InsideHolds, PTL DEF Spec

\* The values of a reply are those of the elements that hold a value, each under
\* the name of its element, however many there are and wherever the reply is cut
\* (NameValueParserStartElt and NameValueParserGetData of upnpreplyparse.c).
THEOREM ReplyIsTheDocument == AllLaid /\ AllPaired => (Spec => []ReplyExact)
<1> SUFFICES ASSUME AllLaid, AllPaired PROVE Spec => []ReplyExact
  OBVIOUS
<1>1. Inside /\ InOrder /\ ReplyIs => ReplyExact
  BY ReplyIsExact DEF Inside
<1>2. Spec => []InOrder
  BY InOrderHolds
<1>3. Spec => []ReplyIs
  BY ReplyHolds
<1> QED
  BY <1>1, <1>2, <1>3, InsideHolds, PTL

-----------------------------------------------------------------------------
(***************************************************************************)
(* The services of a description.                                          *)
(***************************************************************************)
OfTypes(ss, n, types) == {i \in 1 .. n : Stored(ss[i]).serviceType \in types}
LastOf(ss, S) == IF S = {} THEN NoService ELSE Stored(ss[Max(S)])
FirstWan(ss, n) == IF OfTypes(ss, n, Wan) = {} THEN {} ELSE {Min(OfTypes(ss, n, Wan))}

LEMMA MaxIs ==
  ASSUME NEW I \in SUBSET Nat, NEW k \in I, \A j \in I : j <= k
  PROVE  Max(I) = k
<1> DEFINE m == CHOOSE x \in I : \A y \in I : x >= y
<1>1. \A y \in I : k >= y
  OBVIOUS
<1>2. m \in I /\ \A y \in I : m >= y
  BY <1>1, Zenon
<1>3. m >= k /\ m <= k /\ m \in Nat /\ k \in Nat
  BY <1>2
<1> HIDE DEF m
<1>4. m = k
  BY <1>3
<1> QED
  BY <1>4 DEF Max, m

LEMMA KeptIs ==
  ASSUME NEW ss, NEW n
  PROVE  /\ KeptOf(ss, n)["CIF"] = LastOf(ss, OfTypes(ss, n, {Cif}))
         /\ KeptOf(ss, n)["IPv6FC"] = LastOf(ss, OfTypes(ss, n, {V6}))
         /\ KeptOf(ss, n)["first"] = LastOf(ss, FirstWan(ss, n))
         /\ KeptOf(ss, n)["second"] = LastOf(ss, OfTypes(ss, n, Wan) \ FirstWan(ss, n))
         /\ KeptOf(ss, n) = [s \in Slots |-> KeptOf(ss, n)[s]]
  BY DEF KeptOf, OfTypes, LastOf, FirstWan, Slots

\* One service more.
LEMMA TypesGrow ==
  ASSUME NEW ss, NEW n \in Nat, NEW T
  PROVE  OfTypes(ss, n + 1, T) = IF Stored(ss[n + 1]).serviceType \in T
                                 THEN OfTypes(ss, n, T) \cup {n + 1} ELSE OfTypes(ss, n, T)
<1>1. 1 .. n + 1 = (1 .. n) \cup {n + 1} /\ n + 1 \notin 1 .. n
  OBVIOUS
<1> QED
  BY <1>1 DEF OfTypes

LEMMA LastIsNew ==
  ASSUME NEW ss, NEW n \in Nat, NEW S \in SUBSET (1 .. n)
  PROVE  LastOf(ss, S \cup {n + 1}) = Stored(ss[n + 1])
<1>1. S \cup {n + 1} \in SUBSET Nat /\ \A j \in S \cup {n + 1} : j <= n + 1
  OBVIOUS
<1>2. Max(S \cup {n + 1}) = n + 1
  BY <1>1, MaxIs
<1> QED
  BY <1>2 DEF LastOf

LEMMA LastOfOne ==
  ASSUME NEW ss, NEW k \in Nat
  PROVE  LastOf(ss, {k}) = Stored(ss[k])
<1>1. Max({k}) = k
  BY MaxIs
<1> QED
  BY <1>1 DEF LastOf

\* The first connection service has its place, and every other takes the other.
LEMMA WanGrows ==
  ASSUME NEW ss, NEW n \in Nat
  PROVE  LET new == Stored(ss[n + 1])
             old == OfTypes(ss, n, Wan)
             now == OfTypes(ss, n + 1, Wan)
         IN  /\ LastOf(ss, FirstWan(ss, n + 1)) =
                  IF new.serviceType \in Wan /\ old = {} THEN new ELSE LastOf(ss, FirstWan(ss, n))
             /\ LastOf(ss, now \ FirstWan(ss, n + 1)) =
                  IF new.serviceType \in Wan /\ old # {} THEN new
                  ELSE LastOf(ss, old \ FirstWan(ss, n))
<1> DEFINE new == Stored(ss[n + 1])
           old == OfTypes(ss, n, Wan)
           now == OfTypes(ss, n + 1, Wan)
<1>1. old \in SUBSET (1 .. n)
  BY DEF OfTypes
<1>2. now = IF new.serviceType \in Wan THEN old \cup {n + 1} ELSE old
  BY TypesGrow
<1> HIDE DEF new, old, now
<1>3. /\ FirstWan(ss, n) = IF old = {} THEN {} ELSE {Min(old)}
      /\ FirstWan(ss, n + 1) = IF now = {} THEN {} ELSE {Min(now)}
  BY DEF FirstWan, old, now
<1>4. CASE new.serviceType \notin Wan
  <2>1. now = old /\ FirstWan(ss, n + 1) = FirstWan(ss, n)
    BY <1>2, <1>3, <1>4
  <2> QED
    BY <1>4, <2>1 DEF new, old, now
<1>5. CASE new.serviceType \in Wan /\ old = {}
  <2>1. now = {n + 1} /\ FirstWan(ss, n) = {}
    BY <1>2, <1>3, <1>5
  <2>2. Min(now) = n + 1
    BY <2>1, MinIs
  <2>3. FirstWan(ss, n + 1) = {n + 1} /\ now \ FirstWan(ss, n + 1) = {} /\ old \ FirstWan(ss, n) = {}
    BY <1>3, <1>5, <2>1, <2>2
  <2>4. LastOf(ss, {n + 1}) = Stored(ss[n + 1])
    BY LastOfOne
  <2> QED
    BY <1>5, <2>3, <2>4 DEF new, old, now
<1>6. CASE new.serviceType \in Wan /\ old # {}
  <2>1. old \in SUBSET Nat /\ now \in SUBSET Nat /\ now = old \cup {n + 1}
    BY <1>1, <1>2, <1>6
  <2>2. PICK k \in old : \A j \in old : k <= j
    BY <1>6, <2>1, Smallest
  <2>3. Min(old) = k
    BY <2>1, <2>2, MinIs
  <2>4. k \in now /\ \A j \in now : k <= j
    BY <1>1, <2>1, <2>2
  <2>5. Min(now) = k
    BY <2>1, <2>4, MinIs
  <2>6. FirstWan(ss, n) = {k} /\ FirstWan(ss, n + 1) = {k}
    BY <1>3, <1>6, <2>1, <2>3, <2>5
  <2>7. now \ {k} = (old \ {k}) \cup {n + 1} /\ old \ {k} \in SUBSET (1 .. n)
    BY <1>1, <2>1, <2>2
  <2>8. LastOf(ss, now \ {k}) = Stored(ss[n + 1])
    BY <2>7, LastIsNew
  <2> QED
    BY <1>6, <2>6, <2>8 DEF new, old, now
<1>7. \/ new.serviceType \notin Wan
      \/ new.serviceType \in Wan /\ old = {}
      \/ new.serviceType \in Wan /\ old # {}
  OBVIOUS
<1> QED
  BY <1>4, <1>5, <1>6, <1>7 DEF new, old, now

LEMMA FirstIsFree ==
  ASSUME NEW ss, NEW n \in Nat
  PROVE  KeptOf(ss, n)["first"].serviceType = <<>> <=> OfTypes(ss, n, Wan) = {}
<1> DEFINE old == OfTypes(ss, n, Wan)
<1>1. old \in SUBSET (1 .. n) /\ \A i \in old : Stored(ss[i]).serviceType \in Wan
  BY DEF OfTypes
<1>2. KeptOf(ss, n)["first"] = LastOf(ss, FirstWan(ss, n))
  BY KeptIs
<1>3. CASE old = {}
  <2>1. KeptOf(ss, n)["first"] = NoService
    BY <1>2, <1>3 DEF FirstWan, LastOf
  <2> QED
    BY <1>3, <2>1 DEF NoService, Fields
<1>4. CASE old # {}
  <2>1. old \in SUBSET Nat
    BY <1>1
  <2>2. Min(old) \in old
    BY <1>4, <2>1, MinAmong
  <2>3. FirstWan(ss, n) = {Min(old)}
    BY <1>4 DEF FirstWan
  <2>4. LastOf(ss, {Min(old)}) = Stored(ss[Min(old)])
    BY <2>1, <2>2, LastOfOne
  <2>5. KeptOf(ss, n)["first"].serviceType \in Wan
    BY <1>1, <1>2, <2>2, <2>3, <2>4
  <2>6. <<>> \notin Wan
    BY DEF Wan
  <2> QED
    BY <1>4, <2>5, <2>6
<1> QED
  BY <1>3, <1>4

\* What is kept of the first services is what the end of each of them leaves.
LEMMA KeptGrows ==
  ASSUME NEW ss, NEW n \in Nat
  PROVE  KeptOf(ss, n + 1) =
           [s \in Slots |-> IF s \in SlotFor(KeptOf(ss, n), Stored(ss[n + 1]).serviceType)
                            THEN Stored(ss[n + 1]) ELSE KeptOf(ss, n)[s]]
<1> DEFINE new == Stored(ss[n + 1])
           k == KeptOf(ss, n)
           type == new.serviceType
<1>0. OfTypes(ss, n, {Cif}) \in SUBSET (1 .. n) /\ OfTypes(ss, n, {V6}) \in SUBSET (1 .. n)
  BY DEF OfTypes
<1>k. /\ KeptOf(ss, n + 1)["CIF"] = LastOf(ss, OfTypes(ss, n + 1, {Cif}))
      /\ KeptOf(ss, n + 1)["IPv6FC"] = LastOf(ss, OfTypes(ss, n + 1, {V6}))
      /\ KeptOf(ss, n + 1)["first"] = LastOf(ss, FirstWan(ss, n + 1))
      /\ KeptOf(ss, n + 1)["second"] = LastOf(ss, OfTypes(ss, n + 1, Wan) \ FirstWan(ss, n + 1))
  BY KeptIs
<1>l. /\ k["CIF"] = LastOf(ss, OfTypes(ss, n, {Cif}))
      /\ k["IPv6FC"] = LastOf(ss, OfTypes(ss, n, {V6}))
      /\ k["first"] = LastOf(ss, FirstWan(ss, n))
      /\ k["second"] = LastOf(ss, OfTypes(ss, n, Wan) \ FirstWan(ss, n))
  BY KeptIs
<1>1. KeptOf(ss, n + 1)["CIF"] = IF type = Cif THEN new ELSE k["CIF"]
  <2>1. OfTypes(ss, n + 1, {Cif}) = IF type \in {Cif}
                                   THEN OfTypes(ss, n, {Cif}) \cup {n + 1} ELSE OfTypes(ss, n, {Cif})
    BY TypesGrow
  <2>2. LastOf(ss, OfTypes(ss, n, {Cif}) \cup {n + 1}) = new
    BY <1>0, LastIsNew
  <2> HIDE DEF new, k
  <2> QED
    BY <1>k, <1>l, <2>1, <2>2
<1>2. KeptOf(ss, n + 1)["IPv6FC"] = IF type = V6 THEN new ELSE k["IPv6FC"]
  <2>1. OfTypes(ss, n + 1, {V6}) = IF type \in {V6}
                                  THEN OfTypes(ss, n, {V6}) \cup {n + 1} ELSE OfTypes(ss, n, {V6})
    BY TypesGrow
  <2>2. LastOf(ss, OfTypes(ss, n, {V6}) \cup {n + 1}) = new
    BY <1>0, LastIsNew
  <2> HIDE DEF new, k
  <2> QED
    BY <1>k, <1>l, <2>1, <2>2
<1>3. /\ KeptOf(ss, n + 1)["first"] =
            IF type \in Wan /\ OfTypes(ss, n, Wan) = {} THEN new ELSE k["first"]
      /\ KeptOf(ss, n + 1)["second"] =
            IF type \in Wan /\ OfTypes(ss, n, Wan) # {} THEN new ELSE k["second"]
  <2>1. /\ LastOf(ss, FirstWan(ss, n + 1)) =
             IF type \in Wan /\ OfTypes(ss, n, Wan) = {} THEN new ELSE LastOf(ss, FirstWan(ss, n))
        /\ LastOf(ss, OfTypes(ss, n + 1, Wan) \ FirstWan(ss, n + 1)) =
             IF type \in Wan /\ OfTypes(ss, n, Wan) # {} THEN new
             ELSE LastOf(ss, OfTypes(ss, n, Wan) \ FirstWan(ss, n))
    BY WanGrows
  <2> HIDE DEF new, k
  <2> QED
    BY <1>k, <1>l, <2>1
<1>4. k["first"].serviceType = <<>> <=> OfTypes(ss, n, Wan) = {}
  BY FirstIsFree
<1>5. /\ "CIF" \in SlotFor(k, type) <=> type = Cif
      /\ "IPv6FC" \in SlotFor(k, type) <=> type = V6
      /\ "first" \in SlotFor(k, type) <=> type \in Wan /\ OfTypes(ss, n, Wan) = {}
      /\ "second" \in SlotFor(k, type) <=> type \in Wan /\ OfTypes(ss, n, Wan) # {}
  BY <1>4 DEF SlotFor, Slots
<1> DEFINE r(s) == IF s \in SlotFor(k, type) THEN new ELSE k[s]
<1>6. \A s \in Slots : KeptOf(ss, n + 1)[s] = r(s)
  BY <1>1, <1>2, <1>3, <1>5 DEF Slots
<1>7. KeptOf(ss, n + 1) = [s \in Slots |-> KeptOf(ss, n + 1)[s]]
  BY KeptIs
<1> QED
  BY <1>6, <1>7

LEMMA NothingKept ==
  ASSUME NEW ss
  PROVE  KeptOf(ss, 0) = [s \in Slots |-> NoService]
<1>1. \A T : OfTypes(ss, 0, T) = {}
  BY DEF OfTypes
<1>2. \A s \in Slots : KeptOf(ss, 0)[s] = NoService
  BY <1>1, KeptIs DEF Slots, LastOf, FirstWan
<1> QED
  BY <1>2, KeptIs, ZenonT(40)

-----------------------------------------------------------------------------
\* What of a description is kept after the first p calls.
AllServed == \A d \in Descriptions : Served(d)
IgdRecords == [cureltname : Seq(STRING), urlbase : Seq(STRING),
               tmp : [Fields -> Seq(STRING)], kept : [Slots -> [Fields -> Seq(STRING)]]]

Told(d, l, p, name) == \E k \in l + 1 .. p : TextOf(d, k, name)
TmpIs(d, a, z, p, g) ==
  \A i \in DOMAIN d.services, f \in Fields :
    a[i] <= p /\ p < z[i] =>
      g.tmp[f] = IF Told(d, a[i], p, f) THEN Stored(d.services[i])[f] ELSE <<>>
KeptIsOf(d, z, p, g, n) ==
  /\ \A i \in DOMAIN d.services : z[i] <= p <=> i <= n
  /\ g.kept = KeptOf(d.services, n)
NamedIs(d, a, p, g) ==
  /\ p > 0 /\ d.calls[p].call = "start" => g.cureltname = d.calls[p].part
  /\ \A i \in DOMAIN d.services : a[i] <= p => g.cureltname # Element("URLBase")
\* No name is written over the base that was not made good by the base itself.
Settled(d, p) ==
  \A k \in 1 .. p : Overlong(d.calls[k]) => \E j \in k + 1 .. p : TextOf(d, j, "URLBase")
BaseIs(d, p, g) ==
  Settled(d, p) => g.urlbase = IF Told(d, 0, p, "URLBase") THEN d.urlbase ELSE <<>>

IgdHas(d, a, z, p, g) ==
  /\ \E n \in 0 .. Len(d.services) : KeptIsOf(d, z, p, g, n)
  /\ TmpIs(d, a, z, p, g) /\ NamedIs(d, a, p, g) /\ BaseIs(d, p, g)

Serves(d, a, z) ==
  /\ d.services \in Seq(Services) /\ d.calls \in Seq(CallRecords)
  /\ a \in [DOMAIN d.services -> DOMAIN d.calls] /\ z \in [DOMAIN d.services -> DOMAIN d.calls]
  /\ Serving(d, a, z)

LEMMA ServedPlaces ==
  ASSUME NEW d, NEW a, NEW z, Serves(d, a, z)
  PROVE  /\ Len(d.calls) \in Nat /\ DOMAIN d.calls = 1 .. Len(d.calls)
         /\ Len(d.services) \in Nat /\ DOMAIN d.services = 1 .. Len(d.services)
         /\ \A i \in DOMAIN d.services :
              /\ a[i] \in Nat /\ z[i] \in Nat /\ a[i] < z[i] /\ a[i] > 0
              /\ a[i] \in DOMAIN d.calls /\ z[i] \in DOMAIN d.calls
              /\ d.calls[a[i]] = [call |-> "start", part |-> Element("service")]
              /\ d.calls[z[i]] = [call |-> "end", part |-> Element("service")]
              /\ \A k \in a[i] + 1 .. z[i] - 1 :
                   d.calls[k] # d.calls[a[i]] /\ d.calls[k] # d.calls[z[i]]
         /\ \A i, j \in DOMAIN d.services : i < j => z[i] < z[j]
<1>1. /\ Len(d.calls) \in Nat /\ DOMAIN d.calls = 1 .. Len(d.calls)
      /\ Len(d.services) \in Nat /\ DOMAIN d.services = 1 .. Len(d.services)
  BY LenProperties DEF Serves
<1>2. \A i \in DOMAIN d.services : a[i] \in 1 .. Len(d.calls) /\ z[i] \in 1 .. Len(d.calls)
  BY <1>1 DEF Serves
<1>3. \A i \in DOMAIN d.services : GivesService(d, d.services[i], a[i], z[i])
  BY DEF Serves, Serving
<1>4. \A i \in DOMAIN d.services :
        /\ a[i] < z[i] /\ d.calls[a[i]] = [call |-> "start", part |-> Element("service")]
        /\ d.calls[z[i]] = [call |-> "end", part |-> Element("service")]
        /\ \A k \in a[i] + 1 .. z[i] - 1 : d.calls[k] # d.calls[a[i]] /\ d.calls[k] # d.calls[z[i]]
  BY <1>3 DEF GivesService
<1>5. \A i, j \in DOMAIN d.services : i < j => z[i] < a[j]
  BY DEF Serves, Serving
<1>6. \A i, j \in DOMAIN d.services : i < j => z[i] < z[j]
  BY <1>1, <1>2, <1>4, <1>5
<1> QED
  BY <1>1, <1>2, <1>4, <1>6

\* One call more, that tells a text or not.
LEMMA ToldGrows ==
  ASSUME NEW d, NEW l \in Nat, NEW p \in Nat, NEW name, l <= p
  PROVE  Told(d, l, p + 1, name) <=> Told(d, l, p, name) \/ TextOf(d, p + 1, name)
<1>1. l + 1 .. p + 1 = (l + 1 .. p) \cup {p + 1}
  OBVIOUS
<1> QED
  BY <1>1 DEF Told

LEMMA NoText ==
  ASSUME NEW d, NEW k, NEW name, d.calls[k].call # "data"
  PROVE  ~TextOf(d, k, name)
  BY DEF TextOf

LEMMA SettledBefore ==
  ASSUME NEW d, NEW p \in Nat, Settled(d, p + 1), ~TextOf(d, p + 1, "URLBase")
  PROVE  Settled(d, p)
<1> SUFFICES ASSUME NEW k \in 1 .. p, Overlong(d.calls[k])
             PROVE  \E j \in k + 1 .. p : TextOf(d, j, "URLBase")
  BY DEF Settled
<1>1. k \in 1 .. p + 1
  OBVIOUS
<1>2. PICK j \in k + 1 .. p + 1 : TextOf(d, j, "URLBase")
  BY <1>1 DEF Settled
<1>3. j # p + 1
  BY <1>2
<1> QED
  BY <1>2, <1>3

LEMMA IgdStart ==
  ASSUME NEW d, NEW a, NEW z, Serves(d, a, z),
         NEW p \in 0 .. Len(d.calls) - 1, NEW g \in IgdRecords, IgdHas(d, a, z, p, g),
         d.calls[p + 1].call = "start"
  PROVE  IgdHas(d, a, z, p + 1, IgdCall(g, d.calls[p + 1]))
<1> DEFINE c == d.calls[p + 1]
           h == IgdCall(g, c)
<1>1. /\ Len(d.calls) \in Nat /\ DOMAIN d.calls = 1 .. Len(d.calls)
      /\ \A i \in DOMAIN d.services :
           /\ a[i] \in Nat /\ z[i] \in Nat /\ a[i] < z[i]
           /\ d.calls[a[i]] = [call |-> "start", part |-> Element("service")]
           /\ d.calls[z[i]] = [call |-> "end", part |-> Element("service")]
           /\ \A k \in a[i] + 1 .. z[i] - 1 : d.calls[k] # d.calls[a[i]]
  BY ServedPlaces
<1>2. p \in Nat /\ p + 1 \in DOMAIN d.calls /\ c \in CallRecords
  BY <1>1 DEF Serves
<1>3. /\ h.cureltname = c.part /\ h.urlbase = Spilled(g, c.part) /\ h.kept = g.kept
      /\ h.tmp = IF c.part = Element("service") THEN NoService ELSE g.tmp
  BY DEF IgdCall, IGDstartelt, IgdRecords
<1>4. c = [call |-> "start", part |-> c.part]
  BY <1>2 DEF CallRecords
<1>5. \A i \in DOMAIN d.services : z[i] # p + 1
  <2> SUFFICES ASSUME NEW i \in DOMAIN d.services, z[i] = p + 1 PROVE FALSE
    OBVIOUS
  <2>1. c = [call |-> "end", part |-> Element("service")]
    BY <1>1
  <2> QED
    BY <2>1
<1>6. ~TextOf(d, p + 1, "URLBase") /\ \A f \in Fields : ~TextOf(d, p + 1, f)
  BY NoText
<1> HIDE DEF h
<1>7. \E n \in 0 .. Len(d.services) : KeptIsOf(d, z, p + 1, h, n)
  <2>1. PICK n \in 0 .. Len(d.services) : KeptIsOf(d, z, p, g, n)
    BY DEF IgdHas
  <2>2. \A i \in DOMAIN d.services : z[i] <= p + 1 <=> z[i] <= p
    BY <1>1, <1>2, <1>5
  <2> QED
    BY <1>3, <2>1, <2>2 DEF KeptIsOf
<1>8. NamedIs(d, a, p + 1, h)
  <2>1. ASSUME NEW i \in DOMAIN d.services, a[i] <= p + 1, h.cureltname = Element("URLBase")
        PROVE  FALSE
    <3>1. c = [call |-> "start", part |-> Element("URLBase")]
      BY <1>3, <1>4, <2>1
    <3>2. p + 1 < a[i]
      BY <1>2, <3>1 DEF Serves, Serving, GivesBase
    <3> QED
      BY <1>1, <1>2, <2>1, <3>2
  <2> QED
    BY <1>3, <2>1 DEF NamedIs
<1>9. TmpIs(d, a, z, p + 1, h)
  <2> SUFFICES ASSUME NEW i \in DOMAIN d.services, NEW f \in Fields, a[i] <= p + 1, p + 1 < z[i]
               PROVE  h.tmp[f] = IF Told(d, a[i], p + 1, f) THEN Stored(d.services[i])[f] ELSE <<>>
    BY DEF TmpIs
  <2>1. CASE a[i] = p + 1
    <3>1. c.part = Element("service")
      BY <1>1, <2>1
    <3>2. h.tmp[f] = <<>>
      BY <1>3, <3>1 DEF NoService
    <3>3. ~Told(d, a[i], p + 1, f)
      BY <1>2, <2>1 DEF Told
    <3> QED
      BY <3>2, <3>3
  <2>2. CASE a[i] # p + 1
    <3>1. a[i] <= p /\ p < z[i] /\ p + 1 \in a[i] + 1 .. z[i] - 1
      BY <1>1, <1>2, <2>2
    <3>2. c # [call |-> "start", part |-> Element("service")]
      BY <1>1, <3>1
    <3>3. h.tmp = g.tmp
      BY <1>3, <1>4, <3>2
    <3>4. Told(d, a[i], p + 1, f) <=> Told(d, a[i], p, f)
      BY <1>1, <1>2, <1>6, <3>1, ToldGrows
    <3>5. g.tmp[f] = IF Told(d, a[i], p, f) THEN Stored(d.services[i])[f] ELSE <<>>
      BY <3>1 DEF IgdHas, TmpIs
    <3> QED
      BY <3>3, <3>4, <3>5
  <2> QED
    BY <2>1, <2>2
<1>10. BaseIs(d, p + 1, h)
  <2> SUFFICES ASSUME Settled(d, p + 1)
               PROVE  h.urlbase = IF Told(d, 0, p + 1, "URLBase") THEN d.urlbase ELSE <<>>
    BY DEF BaseIs
  <2>1. Told(d, 0, p + 1, "URLBase") <=> Told(d, 0, p, "URLBase")
    BY <1>2, <1>6, ToldGrows
  <2>2. Settled(d, p)
    BY <1>2, <1>6, SettledBefore
  <2>3. ~Overlong(c)
    <3>1. p + 1 \in 1 .. p + 1 /\ ~\E j \in p + 2 .. p + 1 : TextOf(d, j, "URLBase")
      BY <1>2
    <3>2. p + 1 + 1 = p + 2
      BY <1>2
    <3> QED
      BY <3>1, <3>2 DEF Settled
  <2>4. Len(c.part) < UrlMax
    <3>1. Len(c.part) \in Nat /\ UrlMax \in Nat
      BY <1>2, LenProperties, DocumentsAssumption DEF CallRecords
    <3> QED
      BY <2>3, <3>1 DEF Overlong
  <2>5. h.urlbase = g.urlbase
    BY <1>3, <2>4 DEF Spilled
  <2> QED
    BY <2>1, <2>2, <2>5 DEF IgdHas, BaseIs
<1> QED
  BY <1>7, <1>8, <1>9, <1>10 DEF IgdHas, h

LEMMA CappedLess ==
  ASSUME NEW s \in Seq(STRING), Len(s) < UrlMax
  PROVE  Capped(s, UrlMax - 1) = s
<1>1. Len(s) \in Nat /\ UrlMax \in Nat \ {0}
  BY LenProperties, DocumentsAssumption
<1>2. Lesser(Len(s), UrlMax - 1) = Len(s)
  BY <1>1 DEF Lesser
<1> QED
  BY <1>1, <1>2 DEF Capped

LEMMA IgdText ==
  ASSUME NEW d, NEW a, NEW z, Serves(d, a, z),
         NEW p \in 0 .. Len(d.calls) - 1, NEW g \in IgdRecords, IgdHas(d, a, z, p, g),
         d.calls[p + 1].call = "data"
  PROVE  IgdHas(d, a, z, p + 1, IgdCall(g, d.calls[p + 1]))
<1> DEFINE c == d.calls[p + 1]
           h == IgdCall(g, c)
           v == Capped(c.part, UrlMax - 1)
           e == d.calls[p].part
<1>1. /\ Len(d.calls) \in Nat /\ DOMAIN d.calls = 1 .. Len(d.calls)
      /\ \A i \in DOMAIN d.services :
           /\ a[i] \in Nat /\ z[i] \in Nat /\ a[i] < z[i]
           /\ d.calls[a[i]] = [call |-> "start", part |-> Element("service")]
           /\ d.calls[z[i]] = [call |-> "end", part |-> Element("service")]
  BY ServedPlaces
<1>2. p \in Nat /\ p + 1 \in DOMAIN d.calls /\ c \in CallRecords
  BY <1>1 DEF Serves
<1>3. /\ h.cureltname = g.cureltname /\ h.kept = g.kept
      /\ h.urlbase = IF g.cureltname = Element("URLBase") THEN v ELSE g.urlbase
      /\ h.tmp = [f \in Fields |-> IF g.cureltname = Element(f) THEN v ELSE g.tmp[f]]
  BY DEF IgdCall, IGDdata, IgdRecords
<1>4. p + 1 > 1 /\ p > 0 /\ d.calls[p].call = "start" /\ d.calls[p] \in CallRecords
  <2>1. p + 1 > 1 /\ d.calls[(p + 1) - 1].call = "start"
    BY <1>2 DEF Serves, Serving
  <2>2. p > 0 /\ d.calls[p].call = "start" /\ p \in DOMAIN d.calls
    BY <1>1, <1>2, <2>1
  <2> QED
    BY <2>1, <2>2 DEF Serves
<1>5. d.calls[p] = [call |-> "start", part |-> e] /\ g.cureltname = e
  BY <1>4 DEF CallRecords, IgdHas, NamedIs
<1>6. \A name : TextOf(d, p + 1, name) <=> e = Element(name)
  <2>1. (p + 1) - 1 = p
    BY <1>2
  <2> QED
    BY <1>4, <1>5, <2>1 DEF TextOf
<1>7. \A i \in DOMAIN d.services : z[i] # p + 1 /\ a[i] # p + 1
  <2> SUFFICES ASSUME NEW i \in DOMAIN d.services, z[i] = p + 1 \/ a[i] = p + 1 PROVE FALSE
    OBVIOUS
  <2>1. c = [call |-> "end", part |-> Element("service")] \/ c = [call |-> "start", part |-> Element("service")]
    BY <1>1
  <2> QED
    BY <2>1
<1> HIDE DEF h, v, e
<1>8. \E n \in 0 .. Len(d.services) : KeptIsOf(d, z, p + 1, h, n)
  <2>1. PICK n \in 0 .. Len(d.services) : KeptIsOf(d, z, p, g, n)
    BY DEF IgdHas
  <2>2. \A i \in DOMAIN d.services : z[i] <= p + 1 <=> z[i] <= p
    BY <1>1, <1>2, <1>7
  <2> QED
    BY <1>3, <2>1, <2>2 DEF KeptIsOf
<1>9. NamedIs(d, a, p + 1, h)
  <2>1. \A i \in DOMAIN d.services : a[i] <= p + 1 <=> a[i] <= p
    BY <1>1, <1>2, <1>7
  <2> QED
    BY <1>3, <2>1 DEF IgdHas, NamedIs
<1>10. TmpIs(d, a, z, p + 1, h)
  <2> SUFFICES ASSUME NEW i \in DOMAIN d.services, NEW f \in Fields, a[i] <= p + 1, p + 1 < z[i]
               PROVE  h.tmp[f] = IF Told(d, a[i], p + 1, f) THEN Stored(d.services[i])[f] ELSE <<>>
    BY DEF TmpIs
  <2>1. a[i] <= p /\ p < z[i] /\ p + 1 \in a[i] + 1 .. z[i] - 1
    BY <1>1, <1>2, <1>7
  <2>2. Told(d, a[i], p + 1, f) <=> Told(d, a[i], p, f) \/ e = Element(f)
    BY <1>1, <1>2, <1>6, <2>1, ToldGrows
  <2>3. g.tmp[f] = IF Told(d, a[i], p, f) THEN Stored(d.services[i])[f] ELSE <<>>
    BY <2>1 DEF IgdHas, TmpIs
  <2>4. h.tmp[f] = IF e = Element(f) THEN v ELSE g.tmp[f]
    BY <1>3, <1>5
  <2>5. ASSUME e = Element(f) PROVE v = Stored(d.services[i])[f]
    <3>1. TextOf(d, p + 1, f)
      BY <1>6, <2>5
    <3>2. GivesService(d, d.services[i], a[i], z[i])
      BY DEF Serves, Serving
    <3>3. c.part = d.services[i][f]
      BY <2>1, <3>1, <3>2 DEF GivesService
    <3> QED
      BY <3>3 DEF Stored, v
  <2> QED
    BY <2>2, <2>3, <2>4, <2>5
<1>11. BaseIs(d, p + 1, h)
  <2>1. Told(d, 0, p + 1, "URLBase") <=> Told(d, 0, p, "URLBase") \/ e = Element("URLBase")
    BY <1>2, <1>6, ToldGrows
  <2>2. ASSUME e = Element("URLBase") PROVE v = d.urlbase
    <3>1. TextOf(d, p + 1, "URLBase")
      BY <1>6, <2>2
    <3>2. /\ c.part = d.urlbase
          /\ d.urlbase \in Seq(STRING) /\ Len(d.urlbase) < UrlMax
      BY <1>2, <3>1 DEF Serves, Serving, GivesBase
    <3> QED
      BY <3>2, CappedLess DEF v
  <2>3. CASE e = Element("URLBase")
    BY <1>3, <1>5, <2>1, <2>2, <2>3 DEF BaseIs
  <2>4. CASE e # Element("URLBase")
    <3>1. ~TextOf(d, p + 1, "URLBase")
      BY <1>6, <2>4
    <3>2. Settled(d, p + 1) => Settled(d, p)
      BY <1>2, <3>1, SettledBefore
    <3> QED
      BY <1>3, <1>5, <2>1, <2>4, <3>2 DEF BaseIs, IgdHas
  <2> QED
    BY <2>3, <2>4
<1> QED
  BY <1>8, <1>9, <1>10, <1>11 DEF IgdHas, h

\* At its end the service that was read has all its fields and no other.
LEMMA ServiceWhole ==
  ASSUME NEW d, NEW a, NEW z, Serves(d, a, z),
         NEW p \in Nat, NEW g \in IgdRecords, TmpIs(d, a, z, p, g),
         NEW i \in DOMAIN d.services, z[i] = p + 1
  PROVE  g.tmp = Stored(d.services[i])
<1> DEFINE s == d.services[i]
<1>1. a[i] \in Nat /\ a[i] <= p /\ p < z[i] /\ z[i] - 1 = p
  BY ServedPlaces
<1>2. GivesService(d, s, a[i], z[i])
  BY DEF Serves, Serving
<1>3. \A f \in Fields : g.tmp[f] = Stored(s)[f]
  <2> SUFFICES ASSUME NEW f \in Fields PROVE g.tmp[f] = Stored(s)[f]
    OBVIOUS
  <2>1. g.tmp[f] = IF Told(d, a[i], p, f) THEN Stored(s)[f] ELSE <<>>
    BY <1>1 DEF TmpIs
  <2>2. CASE ~Told(d, a[i], p, f)
    <3>1. {k \in a[i] + 1 .. z[i] - 1 : TextOf(d, k, f)} = {}
      BY <1>1, <2>2 DEF Told
    <3>2. s[f] = <<>>
      BY <1>2, <3>1 DEF GivesService
    <3>3. Capped(<<>>, UrlMax - 1) = <<>>
      <4>1. <<>> \in Seq(STRING) /\ Len(<<>>) < UrlMax
        BY DocumentsAssumption
      <4> QED
        BY <4>1, CappedLess
    <3> QED
      BY <2>1, <2>2, <3>2, <3>3 DEF Stored
  <2> QED
    BY <2>1, <2>2
<1>4. g.tmp \in [Fields -> Seq(STRING)]
  BY DEF IgdRecords
<1>5. Stored(s) = [f \in Fields |-> Stored(s)[f]]
  BY DEF Stored
<1> QED
  BY <1>3, <1>4, <1>5

LEMMA IgdEnd ==
  ASSUME NEW d, NEW a, NEW z, Serves(d, a, z),
         NEW p \in 0 .. Len(d.calls) - 1, NEW g \in IgdRecords, IgdHas(d, a, z, p, g),
         d.calls[p + 1].call = "end"
  PROVE  IgdHas(d, a, z, p + 1, IgdCall(g, d.calls[p + 1]))
<1> DEFINE c == d.calls[p + 1]
           h == IgdCall(g, c)
<1>1. /\ Len(d.calls) \in Nat /\ DOMAIN d.calls = 1 .. Len(d.calls)
      /\ Len(d.services) \in Nat /\ DOMAIN d.services = 1 .. Len(d.services)
      /\ \A i \in DOMAIN d.services :
           /\ a[i] \in Nat /\ z[i] \in Nat /\ a[i] < z[i]
           /\ d.calls[a[i]] = [call |-> "start", part |-> Element("service")]
           /\ d.calls[z[i]] = [call |-> "end", part |-> Element("service")]
           /\ \A k \in a[i] + 1 .. z[i] - 1 : d.calls[k] # d.calls[z[i]]
      /\ \A i, j \in DOMAIN d.services : i < j => z[i] < z[j]
  BY ServedPlaces
<1>2. p \in Nat /\ p + 1 \in DOMAIN d.calls /\ c \in CallRecords
  BY <1>1 DEF Serves
<1>3. c = [call |-> "end", part |-> c.part]
  BY <1>2 DEF CallRecords
<1>4. ~TextOf(d, p + 1, "URLBase") /\ \A f \in Fields : ~TextOf(d, p + 1, f)
  BY NoText
<1>5. \A i \in DOMAIN d.services : a[i] # p + 1
  <2> SUFFICES ASSUME NEW i \in DOMAIN d.services, a[i] = p + 1 PROVE FALSE
    OBVIOUS
  <2>1. c = [call |-> "start", part |-> Element("service")]
    BY <1>1
  <2> QED
    BY <2>1
<1>6. /\ h.cureltname = g.cureltname /\ h.urlbase = g.urlbase /\ h.tmp = g.tmp
      /\ h.kept = IF c.part # Element("service") THEN g.kept
                  ELSE [s \in Slots |-> IF s \in SlotFor(g.kept, g.tmp.serviceType) THEN g.tmp
                                        ELSE g.kept[s]]
  BY DEF IgdCall, IGDendelt, IgdRecords
<1> HIDE DEF h
<1>7. NamedIs(d, a, p + 1, h)
  <2>1. \A i \in DOMAIN d.services : a[i] <= p + 1 <=> a[i] <= p
    BY <1>1, <1>2, <1>5
  <2> QED
    BY <1>6, <2>1 DEF IgdHas, NamedIs
<1>8. BaseIs(d, p + 1, h)
  <2>1. Told(d, 0, p + 1, "URLBase") <=> Told(d, 0, p, "URLBase")
    BY <1>2, <1>4, ToldGrows, SMTT(30)
  <2>2. Settled(d, p + 1) => Settled(d, p)
    BY <1>2, <1>4, SettledBefore
  <2> QED
    BY <1>6, <2>1, <2>2 DEF IgdHas, BaseIs
<1>9. TmpIs(d, a, z, p + 1, h)
  <2> SUFFICES ASSUME NEW i \in DOMAIN d.services, NEW f \in Fields, a[i] <= p + 1, p + 1 < z[i]
               PROVE  h.tmp[f] = IF Told(d, a[i], p + 1, f) THEN Stored(d.services[i])[f] ELSE <<>>
    BY DEF TmpIs
  <2>1. a[i] <= p /\ p < z[i]
    BY <1>1, <1>2, <1>5
  <2>2. Told(d, a[i], p + 1, f) <=> Told(d, a[i], p, f)
    BY <1>1, <1>2, <1>4, <2>1, ToldGrows
  <2> QED
    BY <1>6, <2>1, <2>2 DEF IgdHas, TmpIs
<1>10. PICK n \in 0 .. Len(d.services) : KeptIsOf(d, z, p, g, n)
  BY DEF IgdHas
<1>11. CASE c.part # Element("service")
  <2>1. \A i \in DOMAIN d.services : z[i] # p + 1
    BY <1>1, <1>11
  <2>2. \A i \in DOMAIN d.services : z[i] <= p + 1 <=> z[i] <= p
    BY <1>1, <1>2, <2>1
  <2>3. KeptIsOf(d, z, p + 1, h, n)
    BY <1>6, <1>10, <1>11, <2>2 DEF KeptIsOf
  <2> QED
    BY <1>7, <1>8, <1>9, <2>3 DEF IgdHas, h
<1>12. CASE c.part = Element("service")
  <2>1. PICK i \in DOMAIN d.services : z[i] = p + 1
    BY <1>2, <1>3, <1>12 DEF Serves, Serving
  <2>2. g.tmp = Stored(d.services[i])
    BY <1>2, <2>1, ServiceWhole DEF IgdHas
  <2>3. i = n + 1
    <3>1. i > n
      BY <1>1, <1>2, <1>10, <2>1 DEF KeptIsOf
    <3>2. CASE i > n + 1
      <4>1. n + 1 \in DOMAIN d.services /\ n + 1 < i
        BY <1>1, <3>2
      <4>2. z[n + 1] < z[i]
        BY <1>1, <4>1
      <4>3. z[n + 1] <= p
        BY <1>1, <1>2, <2>1, <4>1, <4>2
      <4>4. n + 1 <= n
        BY <1>10, <4>1, <4>3 DEF KeptIsOf
      <4> QED
        BY <1>1, <4>4
    <3> QED
      BY <1>1, <3>1, <3>2
  <2>4. h.kept = KeptOf(d.services, n + 1)
    <3>1. n \in Nat /\ g.kept = KeptOf(d.services, n)
      BY <1>1, <1>10 DEF KeptIsOf
    <3> DEFINE new == Stored(d.services[n + 1])
    <3>2. KeptOf(d.services, n + 1) =
            [s \in Slots |-> IF s \in SlotFor(KeptOf(d.services, n), new.serviceType) THEN new
                             ELSE KeptOf(d.services, n)[s]]
      BY <3>1, KeptGrows
    <3>3. g.tmp = new
      BY <2>2, <2>3
    <3>4. h.kept = [s \in Slots |-> IF s \in SlotFor(g.kept, g.tmp.serviceType) THEN g.tmp
                                    ELSE g.kept[s]]
      BY <1>6, <1>12
    <3> HIDE DEF new
    <3> QED
      BY <3>1, <3>2, <3>3, <3>4
  <2>5. \A j \in DOMAIN d.services : z[j] <= p + 1 <=> j <= n + 1
    <3> SUFFICES ASSUME NEW j \in DOMAIN d.services PROVE z[j] <= p + 1 <=> j <= n + 1
      OBVIOUS
    <3>1. z[j] <= p <=> j <= n
      BY <1>10 DEF KeptIsOf
    <3>2. CASE j > n + 1
      <4>1. z[i] < z[j]
        BY <1>1, <2>3, <3>2
      <4> QED
        BY <1>1, <1>2, <2>1, <3>2, <4>1
    <3>3. CASE j <= n + 1
      BY <1>1, <1>2, <2>1, <2>3, <3>1, <3>3
    <3> QED
      BY <1>1, <3>2, <3>3
  <2>6. KeptIsOf(d, z, p + 1, h, n + 1) /\ n + 1 \in 0 .. Len(d.services)
    BY <1>1, <2>3, <2>4, <2>5 DEF KeptIsOf
  <2> QED
    BY <1>7, <1>8, <1>9, <2>6 DEF IgdHas, h
<1> QED
  BY <1>11, <1>12

-----------------------------------------------------------------------------
ServicesOf(d, g) ==
  \E n \in 0 .. Len(d.services) :
    g.kept = KeptOf(d.services, n) /\ (n > 0 => g.urlbase = d.urlbase)

LEMMA IgdTyped ==
  ASSUME NEW g \in IgdRecords, NEW c \in CallRecords
  PROVE  IgdCall(g, c) \in IgdRecords
<1>1. c.part \in Seq(STRING)
  BY DEF CallRecords
<1>2. CASE c.call = "start"
  <2>1. NoService \in [Fields -> Seq(STRING)]
    BY EmptySeq DEF NoService
  <2>2. Spilled(g, c.part) \in Seq(STRING)
    <3>1. UrlMax + 1 \in Nat \ {0} /\ Len(c.part) \in Nat
      BY <1>1, DocumentsAssumption, LenProperties
    <3>2. SubSeq(c.part, UrlMax + 1, Len(c.part)) \in Seq(STRING)
      BY <1>1, <3>1, PartOf
    <3> QED
      BY <3>2 DEF Spilled, IgdRecords
  <2> QED
    BY <1>1, <1>2, <2>1, <2>2 DEF IgdCall, IGDstartelt, IgdRecords
<1>3. CASE c.call = "data"
  <2> DEFINE v == Capped(c.part, UrlMax - 1)
  <2>1. v \in Seq(STRING)
    <3>1. UrlMax - 1 \in Nat
      BY DocumentsAssumption
    <3> QED
      BY <1>1, <3>1, CappedTyped
  <2> HIDE DEF v
  <2>2. [f \in Fields |-> IF g.cureltname = Element(f) THEN v ELSE g.tmp[f]] \in [Fields -> Seq(STRING)]
    BY <2>1 DEF IgdRecords
  <2>3. (IF g.cureltname = Element("URLBase") THEN v ELSE g.urlbase) \in Seq(STRING)
    BY <2>1 DEF IgdRecords
  <2> QED
    BY <1>3, <2>2, <2>3 DEF IgdCall, IGDdata, IgdRecords, v
<1>4. CASE c.call = "end"
  <2>1. [s \in Slots |-> IF s \in SlotFor(g.kept, g.tmp.serviceType) THEN g.tmp ELSE g.kept[s]]
          \in [Slots -> [Fields -> Seq(STRING)]]
    BY DEF IgdRecords
  <2> QED
    BY <1>4, <2>1 DEF IgdCall, IGDendelt, IgdRecords
<1> QED
  BY <1>2, <1>3, <1>4 DEF CallRecords

LEMMA IgdGrows ==
  ASSUME NEW d, NEW a, NEW z, Serves(d, a, z),
         NEW p \in 0 .. Len(d.calls) - 1, NEW g \in IgdRecords, IgdHas(d, a, z, p, g)
  PROVE  IgdHas(d, a, z, p + 1, IgdCall(g, d.calls[p + 1]))
<1>1. p + 1 \in DOMAIN d.calls
  BY ServedPlaces
<1>2. d.calls[p + 1] \in CallRecords
  BY <1>1 DEF Serves
<1>3. d.calls[p + 1].call \in {"start", "data", "end"}
  BY <1>2 DEF CallRecords
<1> QED
  BY <1>3, IgdStart, IgdText, IgdEnd

LEMMA IgdStarts ==
  ASSUME NEW d, NEW a, NEW z, Serves(d, a, z)
  PROVE  IgdHas(d, a, z, 0, NoIgd) /\ NoIgd \in IgdRecords
<1>1. /\ Len(d.services) \in Nat /\ DOMAIN d.services = 1 .. Len(d.services)
      /\ \A i \in DOMAIN d.services : ~(z[i] <= 0) /\ ~(a[i] <= 0) /\ ~(i <= 0)
  BY ServedPlaces
<1>2. NoIgd.kept = KeptOf(d.services, 0) /\ NoIgd.urlbase = <<>>
  BY NothingKept DEF NoIgd
<1>3. ~Told(d, 0, 0, "URLBase")
  BY DEF Told
<1>4. KeptIsOf(d, z, 0, NoIgd, 0) /\ TmpIs(d, a, z, 0, NoIgd)
      /\ NamedIs(d, a, 0, NoIgd) /\ BaseIs(d, 0, NoIgd)
  BY <1>1, <1>2, <1>3 DEF KeptIsOf, TmpIs, NamedIs, BaseIs
<1>5. NoIgd \in IgdRecords
  BY EmptySeq DEF NoIgd, NoService, IgdRecords
<1> QED
  BY <1>1, <1>4, <1>5 DEF IgdHas

\* When a service is kept the base has been read.
LEMMA BaseComesFirst ==
  ASSUME NEW d, NEW a, NEW z, Serves(d, a, z),
         NEW p \in 0 .. Len(d.calls), NEW g \in IgdRecords, IgdHas(d, a, z, p, g)
  PROVE  \E n \in 0 .. Len(d.services) :
           /\ KeptIsOf(d, z, p, g, n)
           /\ n > 0 => g.urlbase = d.urlbase /\ g.cureltname # Element("URLBase")
<1>1. PICK n \in 0 .. Len(d.services) : KeptIsOf(d, z, p, g, n)
  BY DEF IgdHas
<1>2. /\ Len(d.calls) \in Nat /\ DOMAIN d.calls = 1 .. Len(d.calls)
      /\ Len(d.services) \in Nat /\ DOMAIN d.services = 1 .. Len(d.services)
  BY ServedPlaces
<1>3. ASSUME n > 0
      PROVE  g.urlbase = d.urlbase /\ g.cureltname # Element("URLBase")
  <2>1. n \in DOMAIN d.services /\ n <= n
    BY <1>2, <1>3
  <2>2. z[n] <= p
    BY <1>1, <2>1 DEF KeptIsOf
  <2>3. a[n] \in Nat /\ z[n] \in Nat /\ a[n] < z[n]
    BY <2>1, ServedPlaces
  <2>4. a[n] <= p
    BY <1>2, <2>2, <2>3
  <2>5. g.cureltname # Element("URLBase")
    BY <2>1, <2>4 DEF IgdHas, NamedIs
  <2>6. GivesBase(d, a)
    BY DEF Serves, Serving
  <2>7. ASSUME d.urlbase # <<>> PROVE Told(d, 0, p, "URLBase")
    <3>1. PICK k \in DOMAIN d.calls : TextOf(d, k, "URLBase")
      BY <2>6, <2>7 DEF GivesBase
    <3>2. k > 1 /\ d.calls[k - 1] = [call |-> "start", part |-> Element("URLBase")]
      BY <3>1 DEF TextOf
    <3>3. k - 1 \in DOMAIN d.calls
      BY <1>2, <3>2
    <3>4. k - 1 < a[n]
      BY <2>1, <2>6, <3>2, <3>3 DEF GivesBase
    <3>5. k \in 0 + 1 .. p
      BY <1>2, <2>2, <2>3, <3>2, <3>4
    <3> QED
      BY <3>1, <3>5 DEF Told
  <2>8. Settled(d, p)
    <3> SUFFICES ASSUME NEW k \in 1 .. p, Overlong(d.calls[k])
                 PROVE  \E j \in k + 1 .. p : TextOf(d, j, "URLBase")
      BY DEF Settled
    <3>1. k \in DOMAIN d.calls
      BY <1>2
    <3>2. PICK j \in DOMAIN d.calls : TextOf(d, j, "URLBase") /\ k < j
      BY <2>6, <3>1 DEF GivesBase
    <3>3. j > 1 /\ d.calls[j - 1] = [call |-> "start", part |-> Element("URLBase")]
      BY <3>2 DEF TextOf
    <3>4. j - 1 \in DOMAIN d.calls
      BY <1>2, <3>3
    <3>5. j - 1 < a[n]
      BY <2>1, <2>6, <3>3, <3>4 DEF GivesBase
    <3>6. j \in k + 1 .. p
      BY <1>2, <2>2, <2>3, <3>2, <3>5
    <3> QED
      BY <3>2, <3>6
  <2>9. g.urlbase = d.urlbase
    BY <2>7, <2>8 DEF IgdHas, BaseIs
  <2> QED
    BY <2>5, <2>9
<1> QED
  BY <1>1, <1>3

LEMMA HasServices ==
  ASSUME NEW d, NEW a, NEW z, Serves(d, a, z),
         NEW p \in 0 .. Len(d.calls), NEW g \in IgdRecords, IgdHas(d, a, z, p, g),
         NEW h, \/ h = g
                \/ \E c \in CallRecords : c.call = "data" /\ h = IgdCall(g, c)
  PROVE  ServicesOf(d, h)
<1>1. PICK n \in 0 .. Len(d.services) :
        /\ KeptIsOf(d, z, p, g, n)
        /\ n > 0 => g.urlbase = d.urlbase /\ g.cureltname # Element("URLBase")
  BY BaseComesFirst
<1>2. h.kept = g.kept /\ (g.cureltname # Element("URLBase") => h.urlbase = g.urlbase)
  <2>1. CASE h = g
    BY <2>1
  <2>2. CASE \E c \in CallRecords : c.call = "data" /\ h = IgdCall(g, c)
    <3>1. PICK c \in CallRecords : c.call = "data" /\ h = IgdCall(g, c)
      BY <2>2
    <3>2. h = IGDdata(g, c.part)
      BY <3>1 DEF IgdCall
    <3> QED
      BY <3>2 DEF IGDdata, IgdRecords
  <2> QED
    BY <2>1, <2>2
<1> QED
  BY <1>1, <1>2 DEF ServicesOf, KeptIsOf

\* Of a description that is read the services are kept whose ends were told.
DescriptionIs ==
  /\ stage \in {"search", "fetch"} => igd = NoIgd
  /\ stage = "description" =>
       /\ doc \in Descriptions /\ igd \in IgdRecords
       /\ \E a, z \in [DOMAIN doc.services -> DOMAIN doc.calls] :
            /\ Serves(doc, a, z)
            /\ \/ Len(calls) <= Len(doc.calls) /\ IgdHas(doc, a, z, Len(calls), igd)
               \/ phase = "done" /\ ~Whole /\ ServicesOf(doc, igd)

LEMMA DescriptionGoesOn ==
  ASSUME ParserTypeOK, InHand, DescriptionIs, stage = "description", ReadDescription
  PROVE  DescriptionIs'
<1>1. /\ Parse /\ doc' = doc /\ stage' = "description"
      /\ igd' = IF calls' = calls THEN igd ELSE IgdCall(igd, Last(calls'))
  BY DEF ReadDescription
<1>2. doc \in Descriptions /\ igd \in IgdRecords
  BY DEF DescriptionIs
<1>3. PICK a \in [DOMAIN doc.services -> DOMAIN doc.calls],
           z \in [DOMAIN doc.services -> DOMAIN doc.calls] :
        /\ Serves(doc, a, z)
        /\ \/ Len(calls) <= Len(doc.calls) /\ IgdHas(doc, a, z, Len(calls), igd)
           \/ phase = "done" /\ ~Whole /\ ServicesOf(doc, igd)
  BY DEF DescriptionIs
<1>4. Len(calls) <= Len(doc.calls) /\ IgdHas(doc, a, z, Len(calls), igd)
  BY <1>1, <1>3, Shapes DEF StepShape
<1>5. calls' = calls \/ OneCall(doc.calls)
  BY <1>1, CallComes
<1>6. /\ Len(calls) \in Nat /\ Len(doc.calls) \in Nat
      /\ DOMAIN doc.calls = 1 .. Len(doc.calls)
  BY <1>3, ServedPlaces, LenProperties DEF ParserTypeOK
<1>7. CASE calls' = calls
  BY <1>1, <1>2, <1>3, <1>4, <1>7 DEF DescriptionIs
<1>8. CASE /\ calls' # calls /\ Len(calls') = Len(calls) + 1
           /\ Len(calls') \in DOMAIN doc.calls /\ Last(calls') = doc.calls[Len(calls')]
  <2> DEFINE p == Len(calls)
  <2>1. p \in 0 .. Len(doc.calls) - 1
    BY <1>4, <1>6, <1>8
  <2>2. igd' = IgdCall(igd, doc.calls[p + 1]) /\ doc.calls[p + 1] \in CallRecords
    BY <1>1, <1>3, <1>8 DEF Serves
  <2>3. IgdHas(doc, a, z, p + 1, igd') /\ igd' \in IgdRecords
    BY <1>2, <1>3, <1>4, <2>1, <2>2, IgdGrows, IgdTyped
  <2>4. Len(calls') <= Len(doc.calls)
    BY <1>6, <1>8
  <2> QED
    BY <1>1, <1>2, <1>3, <1>8, <2>3, <2>4 DEF DescriptionIs
<1>9. CASE /\ calls' # calls /\ phase' = "done" /\ ~Whole'
           /\ Last(calls').call = "data" /\ IsBlank(Last(calls').part)
  <2>1. Last(calls') \in CallRecords /\ igd' = IgdCall(igd, Last(calls'))
    BY <1>1, <1>9, LastCall
  <2>2. igd' \in IgdRecords
    BY <1>2, <2>1, IgdTyped
  <2>3. ServicesOf(doc, igd')
    <3>1. Len(calls) \in 0 .. Len(doc.calls)
      BY <1>4, <1>6
    <3> QED
      BY <1>2, <1>3, <1>4, <1>9, <2>1, <3>1, HasServices
  <2> QED
    BY <1>1, <1>2, <1>3, <1>9, <2>2, <2>3 DEF DescriptionIs
<1> QED
  BY <1>5, <1>7, <1>8, <1>9 DEF OneCall

LEMMA DescriptionIsKept ==
  ASSUME AllServed, ParserTypeOK, InOrder, DescriptionIs, [Next]_vars
  PROVE  DescriptionIs'
<1> USE DEF Goto
<1>1. CASE UNCHANGED vars \/ Ended
  <2>1. UNCHANGED <<text, end, phase, calls, doc, stage, igd>>
    BY <1>1 DEF Ended, vars, parser, device
  <2>2. Whole' = Whole
    BY <2>1 DEF Whole
  <2> QED
    BY <2>1, <2>2 DEF DescriptionIs
<1>2. CASE Hear
  <2>1. stage' \in {"fetch", "over"} /\ igd' = igd /\ stage = "search"
    BY <1>2 DEF Hear, device
  <2> QED
    BY <2>1 DEF DescriptionIs
<1>3. CASE Fetch
  <2>1. PICK d \in Descriptions : \E n \in 0 .. Len(d.text) :
          doc' = d /\ ParserStarts(d.text, n, TRUE)
    BY <1>3 DEF Fetch
  <2>2. stage' = "description" /\ igd' = NoIgd /\ calls' = <<>>
    BY <1>3, <2>1 DEF Fetch, ParserStarts, device, DescriptionIs
  <2>3. d.services \in Seq(Services) /\ d.calls \in Seq(CallRecords)
    BY DocumentsAssumption DEF AllServed, Served, CallRecords
  <2>4. PICK a \in [DOMAIN d.services -> DOMAIN d.calls],
             z \in [DOMAIN d.services -> DOMAIN d.calls] : Serving(d, a, z)
    BY DEF AllServed, Served
  <2>5. Serves(d, a, z)
    BY <2>3, <2>4 DEF Serves
  <2>6. IgdHas(d, a, z, 0, NoIgd) /\ NoIgd \in IgdRecords
    BY <2>5, IgdStarts
  <2>7. Len(calls') = 0 /\ Len(calls') <= Len(d.calls)
    BY <2>2, <2>5, ServedPlaces
  <2> QED
    BY <2>1, <2>2, <2>5, <2>6, <2>7 DEF DescriptionIs
<1>4. CASE ReadDescription
  <2>1. stage = "description" /\ InHand
    BY <1>4 DEF ReadDescription, InOrder, InHand
  <2> QED
    BY <1>4, <2>1, DescriptionGoesOn
<1>5. CASE \/ BadUrl \/ TakeDevice \/ TakeSecond \/ PassOver
           \/ Call \/ ReadReply \/ Replied \/ ReadListing \/ Listed
  <2>1. stage' \notin {"search", "fetch", "description"}
    BY <1>5 DEF BadUrl, TakeDevice, TakeSecond, PassOver, Call, ReadReply,
                Replied, ReadListing, Listed, Uses, Described
  <2> QED
    BY <2>1 DEF DescriptionIs
<1> QED
  BY <1>1, <1>2, <1>3, <1>4, <1>5 DEF Next

LEMMA DescriptionIsExact ==
  ASSUME ParserTypeOK, InOrder, DescriptionIs
  PROVE  ServicesExact
<1> SUFFICES ASSUME stage = "description", phase = "done"
             PROVE  \E n \in 0 .. Len(doc.services) :
                      /\ igd.kept = KeptOf(doc.services, n)
                      /\ n > 0 => igd.urlbase = doc.urlbase
                      /\ Whole => n = Len(doc.services)
  BY DEF ServicesExact
<1>1. igd \in IgdRecords
  BY DEF DescriptionIs
<1>2. PICK a \in [DOMAIN doc.services -> DOMAIN doc.calls],
           z \in [DOMAIN doc.services -> DOMAIN doc.calls] :
        /\ Serves(doc, a, z)
        /\ \/ Len(calls) <= Len(doc.calls) /\ IgdHas(doc, a, z, Len(calls), igd)
           \/ phase = "done" /\ ~Whole /\ ServicesOf(doc, igd)
  BY DEF DescriptionIs
<1>3. CASE ~Whole
  <2>1. ServicesOf(doc, igd)
    <3>1. CASE Len(calls) <= Len(doc.calls) /\ IgdHas(doc, a, z, Len(calls), igd)
      <4>1. Len(calls) \in 0 .. Len(doc.calls)
        BY <1>2, <3>1, ServedPlaces, LenProperties DEF ParserTypeOK
      <4> QED
        BY <1>1, <1>2, <3>1, <4>1, HasServices
    <3> QED
      BY <1>2, <3>1
  <2> QED
    BY <1>3, <2>1 DEF ServicesOf
<1>4. CASE Whole
  <2>1. IgdHas(doc, a, z, Len(calls), igd) /\ calls = doc.calls
    BY <1>2, <1>4, OrderIsKept DEF CallsInOrder
  <2>2. /\ Len(doc.calls) \in Nat /\ DOMAIN doc.calls = 1 .. Len(doc.calls)
        /\ Len(doc.services) \in Nat /\ DOMAIN doc.services = 1 .. Len(doc.services)
        /\ \A i \in DOMAIN doc.services : z[i] \in DOMAIN doc.calls
    BY <1>2, ServedPlaces
  <2>3. PICK n \in 0 .. Len(doc.services) :
          /\ KeptIsOf(doc, z, Len(doc.calls), igd, n)
          /\ n > 0 => igd.urlbase = doc.urlbase
    <3>1. Len(doc.calls) \in 0 .. Len(doc.calls)
      BY <2>2
    <3> QED
      BY <1>1, <1>2, <2>1, <3>1, BaseComesFirst
  <2>4. n = Len(doc.services)
    <3>1. \A i \in DOMAIN doc.services : i <= n
      BY <2>2, <2>3 DEF KeptIsOf
    <3>2. Len(doc.services) > 0 => Len(doc.services) \in DOMAIN doc.services
      BY <2>2
    <3>3. Len(doc.services) <= n
      BY <2>2, <3>1, <3>2
    <3> QED
      BY <2>2, <3>3
  <2> QED
    BY <2>3, <2>4 DEF KeptIsOf
<1> QED
  BY <1>3, <1>4

LEMMA DescriptionHolds == AllLaid /\ AllServed => (Spec => []DescriptionIs)
<1> SUFFICES ASSUME AllLaid, AllServed PROVE Spec => []DescriptionIs
  OBVIOUS
<1>1. Init => DescriptionIs
  BY DEF Init, DescriptionIs
<1>2. Inside /\ InOrder /\ DescriptionIs /\ [Next]_vars => DescriptionIs'
  BY DescriptionIsKept DEF Inside
<1>3. Spec => []InOrder
  BY InOrderHolds
<1> QED
  BY <1>1, <1>2, <1>3, InsideHolds, PTL DEF Spec

\* What is kept of a description, however many services it has and wherever it is
\* cut, are the services of a first part of it, each with its own fields, at the
\* places of their types; all of them if it has arrived (igd_desc_parse.c).  No
\* element of the description has a name that reaches the services, which lie
\* behind the name in the structure it is copied into (AllServed: Serving).
THEOREM ServicesAreExact == AllLaid /\ AllServed => (Spec => []ServicesExact)
<1> SUFFICES ASSUME AllLaid, AllServed PROVE Spec => []ServicesExact
  OBVIOUS
<1>1. Inside /\ InOrder /\ DescriptionIs => ServicesExact
  BY DescriptionIsExact DEF Inside
<1>2. Spec => []InOrder
  BY InOrderHolds
<1>3. Spec => []DescriptionIs
  BY DescriptionHolds
<1> QED
  BY <1>1, <1>2, <1>3, InsideHolds, PTL

-----------------------------------------------------------------------------
(***************************************************************************)
(* The address a command is sent to.  What a URL says, r being what is     *)
(* behind its scheme.                                                      *)
(***************************************************************************)
Saying(r, e, z) ==
  [host |-> SubSeq(r, 1, e),
   port |-> IF z = e + 1 THEN 80 ELSE Port(SubSeq(r, e + 2, z - 1)),
   path |-> From(r, z)]

LEMMA Behind ==
  ASSUME NEW url \in Seq(STRING), url # <<>>
  PROVE  /\ From(url, 2) \in Seq(STRING) /\ Len(url) \in Nat /\ Len(url) > 0
         /\ Len(From(url, 2)) = Len(url) - 1
         /\ \A i \in 1 .. Len(url) - 1 : From(url, 2)[i] = url[i + 1]
<1>1. Len(url) \in Nat /\ Len(url) > 0
  BY LenProperties, EmptySeq
<1>2. IsPart(url, 2, Len(url))
  BY <1>1 DEF IsPart
<1>3. /\ SubSeq(url, 2, Len(url)) \in Seq(STRING)
      /\ Len(SubSeq(url, 2, Len(url))) = Len(url) - 2 + 1
      /\ \A i \in 1 .. Len(url) - 2 + 1 : SubSeq(url, 2, Len(url))[i] = url[2 + i - 1]
  BY <1>1, <1>2, Parts
<1>4. Len(url) - 2 + 1 = Len(url) - 1 /\ \A i \in 1 .. Len(url) - 1 : 2 + i - 1 = i + 1
  BY <1>1
<1> QED
  BY <1>1, <1>3, <1>4 DEF From

LEMMA SaysIs ==
  ASSUME NEW url \in Seq(STRING), NEW u, Says(url, u)
  PROVE  \E e, z \in Nat : Shape(From(url, 2), e, z) /\ u = Saying(From(url, 2), e, z)
<1>1. PICK r : r = From(url, 2)
  OBVIOUS
<1>2. Len(r) \in Nat
  BY <1>1, Behind, LenProperties DEF Says
<1>3. PICK e \in 1 .. Len(r), z \in 1 .. Len(r) + 1 :
        HostEndsAt(r, e) /\ PathBeginsAt(r, e, z) /\ u = Saying(r, e, z)
  BY <1>1, Zenon DEF Says, Saying
<1>4. e \in Nat /\ z \in Nat /\ Shape(r, e, z)
  BY <1>2, <1>3 DEF Shape, PathBeginsAt
<1> QED
  BY <1>1, <1>3, <1>4

\* A URL with a path is taken apart as it says.
LEMMA ParsedIs ==
  ASSUME NEW url \in Seq(STRING), url # <<>>, url[1] = Http,
         NEW r \in Seq(STRING), r = From(url, 2),
         NEW e \in Nat, NEW z \in Nat, Shape(r, e, z), Find(r, "/") # 0
  PROVE  ParseURL(url) = Saying(r, e, z)
<1>1. Len(r) \in Nat
  BY LenProperties
<1>2. HostEnd(r) = e /\ Find(r, "/") = z /\ z <= Len(r)
  BY <1>1, HostEndIs, SlashIs
<1>3. ParseURL(url) =
        [host |-> SubSeq(r, 1, e),
         port |-> IF r[e + 1] = ":" THEN Port(From(r, e + 2)) ELSE 80,
         path |-> From(r, z)]
  <2>1. SchemeLen(url) = 1 /\ 1 # 0 /\ From(url, SchemeLen(url) + 1) = r
    BY DEF SchemeLen
  <2> QED
    BY <1>2, <2>1, Zenon DEF ParseURL
<1>4. (IF r[e + 1] = ":" THEN Port(From(r, e + 2)) ELSE 80)
        = IF z = e + 1 THEN 80 ELSE Port(SubSeq(r, e + 2, z - 1))
  BY <1>2, PortIs
<1> QED
  BY <1>3, <1>4 DEF Saying

LEMMA HasSlash ==
  ASSUME NEW r \in Seq(STRING), NEW e \in Nat, NEW z \in Nat, Shape(r, e, z), z <= Len(r)
  PROVE  Find(r, "/") = z /\ z # 0
<1>1. Len(r) \in Nat
  BY LenProperties
<1>2. z \in 1 .. Len(r) /\ r[z] = "/"
  BY <1>1 DEF Shape, PathBeginsAt
<1>3. \A j \in 1 .. z - 1 : r[j] # "/"
  BY <1>1, SlashIs
<1> QED
  BY <1>1, <1>2, <1>3, FindIs

LEMMA Taken ==
  ASSUME NEW url \in Seq(STRING), NEW u, Says(url, u), u.path # <<>>
  PROVE  ParseURL(url) = u
<1>1. url # <<>> /\ url[1] = Http
  BY DEF Says
<1>2. PICK r \in Seq(STRING) : r = From(url, 2)
  BY <1>1, Behind
<1>3. PICK e \in Nat, z \in Nat : Shape(r, e, z) /\ u = Saying(r, e, z)
  BY <1>2, SaysIs
<1>4. z <= Len(r)
  <2>1. Len(r) \in Nat
    BY LenProperties
  <2>2. SUFFICES ASSUME z > Len(r) PROVE From(r, z) = <<>>
    BY <1>3, <2>1 DEF Saying
  <2> QED
    BY <2>1, <2>2, SubSeqEmpty DEF From
<1>5. Find(r, "/") # 0
  BY <1>3, <1>4, HasSlash
<1> QED
  BY <1>1, <1>2, <1>3, <1>5, ParsedIs

\* What is taken apart has a slash.
LEMMA SlashIsText ==
  ASSUME NEW url \in Seq(STRING), ParseURL(url) # NoUrl
  PROVE  "/" \in STRING
<1>1. PICK r : r = From(url, SchemeLen(url) + 1)
  OBVIOUS
<1>2. SchemeLen(url) # 0 /\ Find(r, "/") # 0
  BY <1>1, Zenon DEF ParseURL
<1>3. r \in Seq(STRING) /\ Len(r) \in Nat
  <2>1. Len(url) \in Nat /\ (url = <<>> => Len(url) = 0)
    BY LenProperties, EmptySeq
  <2>2. SchemeLen(url) \in 1 .. 2 /\ SchemeLen(url) <= Len(url)
    BY <1>2, <2>1, LenProperties DEF SchemeLen
  <2>3. SubSeq(url, SchemeLen(url) + 1, Len(url)) \in Seq(STRING)
    BY <2>1, <2>2, PartOf
  <2> QED
    BY <1>1, <2>3, LenProperties DEF From
<1>4. Find(r, "/") \in 1 .. Len(r) /\ r[Find(r, "/")] = "/"
  BY <1>2, <1>3, FindGives
<1> QED
  BY <1>3, <1>4, ElementOfSeq

\* A location with the usual scheme is said as a device that describes itself says it.
LEMMA LocationSays ==
  ASSUME NEW a, a.location \in Seq(STRING), NamesHost(a), ParseURL(a.location) # NoUrl,
         a.location[1] = Http
  PROVE  Says(a.location, ParseURL(a.location))
<1>1. PICK url \in Seq(STRING) : url = a.location
  OBVIOUS
<1>2. url # <<>> /\ url[1] = Http /\ Find(From(url, 2), "/") # 0
  <2>1. SchemeLen(url) # 0
    BY <1>1, Zenon DEF ParseURL
  <2>2. url # <<>> /\ url[1] = Http
    <3>1. Len(url) > 1 => url # <<>>
      OBVIOUS
    <3> QED
      BY <1>1, <2>1, <3>1 DEF SchemeLen
  <2>3. SchemeLen(url) + 1 = 2
    BY <2>2 DEF SchemeLen
  <2>4. Find(From(url, SchemeLen(url) + 1), "/") # 0
    BY <1>1, Zenon DEF ParseURL
  <2> QED
    BY <2>2, <2>3, <2>4
<1>a. SchemeLen(url) + 1 = 2
  BY <1>2 DEF SchemeLen
<1>3. PICK r \in Seq(STRING) : r = From(url, 2)
  BY <1>2, Behind
<1>4. PICK e \in 1 .. Len(r), z \in 1 .. Len(r) + 1 : HostEndsAt(r, e) /\ PathBeginsAt(r, e, z)
  BY <1>1, <1>3, <1>a, Zenon DEF NamesHost
<1>5. Len(r) \in Nat
  BY LenProperties
<1>6. e \in Nat /\ z \in Nat /\ Shape(r, e, z)
  BY <1>4, <1>5 DEF Shape, PathBeginsAt
<1>7. ParseURL(url) = Saying(r, e, z)
  BY <1>2, <1>3, <1>6, ParsedIs
<1>8. Says(url, ParseURL(url))
  BY <1>2, <1>3, <1>4, <1>7, Zenon DEF Says, Saying
<1> QED
  BY <1>1, <1>8

\* Two texts with the same beginning.
LEMMA SameBeginning ==
  ASSUME NEW r \in Seq(STRING), NEW s \in Seq(STRING), NEW m \in Nat,
         m <= Len(r), m <= Len(s), \A x \in 1 .. m : s[x] = r[x],
         NEW i \in Nat, NEW j \in Nat, 1 <= i, i <= j + 1, j <= m
  PROVE  SubSeq(s, i, j) = SubSeq(r, i, j)
<1>1. Len(r) \in Nat /\ Len(s) \in Nat
  BY LenProperties
<1>2. IsPart(r, i, j) /\ IsPart(s, i, j)
  BY <1>1 DEF IsPart
<1>3. PICK x : x = SubSeq(r, i, j)
  OBVIOUS
<1>4. PICK y : y = SubSeq(s, i, j)
  OBVIOUS
<1>5. x \in Seq(STRING) /\ Len(x) = j - i + 1 /\ \A k \in 1 .. j - i + 1 : x[k] = r[i + k - 1]
  BY <1>2, <1>3, Parts
<1>6. y \in Seq(STRING) /\ Len(y) = j - i + 1 /\ \A k \in 1 .. j - i + 1 : y[k] = s[i + k - 1]
  BY <1>2, <1>4, Parts
<1>7. ASSUME NEW k \in 1 .. j - i + 1
      PROVE  x[k] = y[k]
  <2>1. i + k - 1 \in 1 .. m
    OBVIOUS
  <2>2. s[i + k - 1] = r[i + k - 1]
    BY <2>1
  <2> QED
    BY <1>5, <1>6, <2>2
<1>8. x = y
  BY <1>5, <1>6, <1>7, SeqEqual
<1> QED
  BY <1>3, <1>4, <1>8

\* The base goes up to the path.
LEMMA AuthorityIs ==
  ASSUME NEW url \in Seq(STRING), url # <<>>,
         NEW r \in Seq(STRING), r = From(url, 2),
         NEW e \in Nat, NEW z \in Nat, Shape(r, e, z)
  PROVE  Authority(url) = SubSeq(url, 1, z) /\ z <= Len(url)
<1>1. Len(url) \in Nat /\ Len(r) = Len(url) - 1 /\ Len(r) \in Nat
  BY Behind, LenProperties
<1>2. z <= Len(url)
  BY <1>1 DEF Shape
<1>3. CASE Find(r, "/") = 0
  <2>1. z = Len(url)
    <3>1. ~(z <= Len(r))
      BY <1>3, HasSlash
    <3> QED
      BY <1>1, <1>2, <3>1
  <2>2. SubSeq(url, 1, Len(url)) = url
    BY SubSeqFull
  <2> QED
    BY <1>2, <1>3, <2>1, <2>2, Zenon DEF Authority
<1>4. CASE Find(r, "/") # 0
  <2>1. Find(r, "/") = z
    BY <1>1, <1>4, SlashIs
  <2> QED
    BY <1>2, <1>4, <2>1, Zenon DEF Authority
<1> QED
  BY <1>3, <1>4

LEMMA PathIs ==
  ASSUME NEW h, NEW n, NEW q, NEW p
  PROVE  [[host |-> h, port |-> n, path |-> q] EXCEPT !.path = p]
           = [host |-> h, port |-> n, path |-> p]
  OBVIOUS

\* Another path behind the same base.
Repathed(r, s, z, p) ==
  /\ Len(s) = z - 1 + Len(p) /\ \A i \in 1 .. z - 1 : s[i] = r[i]
  /\ \A i \in 1 .. Len(p) : s[z - 1 + i] = p[i]

LEMMA Rebased ==
  ASSUME NEW r \in Seq(STRING), NEW s \in Seq(STRING), NEW p \in Seq(STRING),
         NEW e \in Nat, NEW z \in Nat, Shape(r, e, z), p # <<>>, p[1] = "/",
         Repathed(r, s, z, p)
  PROVE  Shape(s, e, z) /\ z <= Len(s) /\ Saying(s, e, z) = [Saying(r, e, z) EXCEPT !.path = p]
<1>0. /\ Len(s) = z - 1 + Len(p) /\ \A i \in 1 .. z - 1 : s[i] = r[i]
      /\ \A i \in 1 .. Len(p) : s[z - 1 + i] = p[i]
  BY DEF Repathed
<1>1. Len(r) \in Nat /\ Len(s) \in Nat /\ Len(p) \in Nat /\ Len(p) > 0
  BY LenProperties, EmptySeq
<1>2. 1 <= e /\ e + 1 <= z /\ e <= Len(r) /\ z <= Len(r) + 1 /\ z <= Len(s) /\ e <= Len(s)
  BY <1>0, <1>1 DEF Shape
<1>3. s[z] = "/"
  <2>1. 1 \in 1 .. Len(p) /\ z - 1 + 1 = z
    BY <1>1
  <2> QED
    BY <1>0, <2>1
<1>4. \A i \in 1 .. e : s[i] = r[i]
  BY <1>0, <1>2
<1>5. HostEndsAt(s, e)
  <2>1. s[1] = r[1] /\ s[e] = r[e] /\ \A j \in 1 .. e - 1 : s[j] = r[j]
    BY <1>2, <1>4
  <2>2. HostEndsAt(r, e)
    BY DEF Shape
  <2> QED
    BY <1>4, <2>1, <2>2, Zenon DEF HostEndsAt
<1>6. PathBeginsAt(s, e, z)
  <2>1. CASE z = e + 1
    BY <1>3, <2>1 DEF PathBeginsAt
  <2>2. CASE z # e + 1
    <3>1. z > e + 2 /\ r[e + 1] = ":" /\ \A j \in e + 2 .. z - 1 : IsDigit(r[j])
      BY <2>2 DEF Shape, PathBeginsAt
    <3>2. s[e + 1] = r[e + 1] /\ \A j \in e + 2 .. z - 1 : s[j] = r[j]
      BY <1>0, <1>2, <3>1
    <3> QED
      BY <1>3, <3>1, <3>2 DEF PathBeginsAt
  <2> QED
    BY <2>1, <2>2
<1>7. SubSeq(s, 1, e) = SubSeq(r, 1, e)
  BY <1>1, <1>2, <1>4, SameBeginning
<1>8. z # e + 1 => SubSeq(s, e + 2, z - 1) = SubSeq(r, e + 2, z - 1)
  <2>1. SUFFICES ASSUME z # e + 1 PROVE SubSeq(s, e + 2, z - 1) = SubSeq(r, e + 2, z - 1)
    OBVIOUS
  <2>2. PICK m \in Nat : m = z - 1
    BY <1>2
  <2>3. m <= Len(r) /\ m <= Len(s) /\ e + 2 <= m + 1 /\ \A x \in 1 .. m : s[x] = r[x]
    BY <1>0, <1>1, <1>2, <2>1, <2>2
  <2>4. PICK i \in Nat : i = e + 2 /\ 1 <= i
    OBVIOUS
  <2>5. SubSeq(s, i, m) = SubSeq(r, i, m)
    <3>1. i <= m + 1 /\ m <= m
      BY <2>3, <2>4
    <3> QED
      BY <2>3, <2>4, <3>1, SameBeginning
  <2> QED
    BY <2>2, <2>4, <2>5
<1>9. From(s, z) = p
  <2>1. PICK n \in Nat : n = Len(s)
    BY <1>1
  <2>2. PICK y : y = SubSeq(s, z, n)
    OBVIOUS
  <2>3. IsPart(s, z, n)
    BY <1>1, <1>2, <2>1 DEF IsPart
  <2>4. y \in Seq(STRING) /\ Len(y) = n - z + 1 /\ \A i \in 1 .. n - z + 1 : y[i] = s[z + i - 1]
    BY <2>2, <2>3, Parts
  <2>5. n - z + 1 = Len(p) /\ \A i \in 1 .. Len(p) : z + i - 1 = z - 1 + i
    BY <1>0, <1>1, <2>1
  <2>6. \A i \in 1 .. Len(p) : y[i] = p[i]
    BY <1>0, <2>4, <2>5
  <2>7. y = p
    BY <2>4, <2>5, <2>6, SeqEqual
  <2> QED
    BY <2>1, <2>2, <2>7 DEF From
<1>10. Shape(s, e, z)
  BY <1>1, <1>2, <1>5, <1>6 DEF Shape
<1>11. Saying(s, e, z) =
         [host |-> SubSeq(r, 1, e),
          port |-> IF z = e + 1 THEN 80 ELSE Port(SubSeq(r, e + 2, z - 1)),
          path |-> p]
  BY <1>7, <1>8, <1>9 DEF Saying
<1>12. Saying(s, e, z) = [Saying(r, e, z) EXCEPT !.path = p]
  <2>1. PICK h, n : h = SubSeq(r, 1, e)
                    /\ n = IF z = e + 1 THEN 80 ELSE Port(SubSeq(r, e + 2, z - 1))
    OBVIOUS
  <2>2. Saying(r, e, z) = [host |-> h, port |-> n, path |-> From(r, z)]
    BY <2>1, Zenon DEF Saying
  <2>3. Saying(s, e, z) = [host |-> h, port |-> n, path |-> p]
    BY <1>11, <2>1, Zenon
  <2> QED
    BY <2>2, <2>3, PathIs
<1> QED
  BY <1>2, <1>10, <1>12

LEMMA Rooted ==
  ASSUME NEW url \in Seq(STRING), NEW u, Says(url, u),
         NEW p \in Seq(STRING), p # <<>>, p[1] = "/"
  PROVE  ParseURL(Authority(url) \o p) = [u EXCEPT !.path = p] /\ Authority(url) \in Seq(STRING)
<1>1. url # <<>> /\ url[1] = Http
  BY DEF Says
<1>2. PICK r \in Seq(STRING) : r = From(url, 2)
  BY <1>1, Behind
<1>3. PICK e \in Nat, z \in Nat : Shape(r, e, z) /\ u = Saying(r, e, z)
  BY <1>2, SaysIs
<1>4. PICK b : b = Authority(url)
  OBVIOUS
<1>5. b = SubSeq(url, 1, z) /\ z <= Len(url) /\ Len(url) \in Nat /\ z > 1
  BY <1>1, <1>2, <1>3, <1>4, AuthorityIs, LenProperties DEF Shape
<1>6. b \in Seq(STRING) /\ Len(b) = z /\ \A i \in 1 .. z : b[i] = url[i]
  <2>1. IsPart(url, 1, z)
    BY <1>5 DEF IsPart
  <2>2. b \in Seq(STRING) /\ Len(b) = z - 1 + 1 /\ \A i \in 1 .. z - 1 + 1 : b[i] = url[1 + i - 1]
    BY <1>5, <2>1, Parts
  <2>3. z - 1 + 1 = z /\ \A i \in 1 .. z : 1 + i - 1 = i
    OBVIOUS
  <2> QED
    BY <2>2, <2>3
<1>7. PICK w : w = b \o p
  OBVIOUS
<1>8. /\ w \in Seq(STRING) /\ Len(w) = z + Len(p) /\ Len(p) \in Nat /\ Len(p) > 0
      /\ \A i \in 1 .. z + Len(p) : w[i] = IF i <= z THEN b[i] ELSE p[i - z]
  BY <1>6, <1>7, ConcatProperties, LenProperties, EmptySeq
<1>9. w # <<>> /\ w[1] = Http
  <2>1. w[1] = b[1] /\ b[1] = url[1]
    BY <1>5, <1>6, <1>8
  <2> QED
    BY <1>1, <1>5, <1>8, <2>1, EmptySeq
<1>10. PICK s \in Seq(STRING) : s = From(w, 2)
  BY <1>8, <1>9, Behind
<1>11. Len(s) = z - 1 + Len(p) /\ \A i \in 1 .. z - 1 + Len(p) : s[i] = w[i + 1]
  <2>1. Len(w) - 1 = z - 1 + Len(p)
    BY <1>8
  <2> QED
    BY <1>8, <1>9, <1>10, <2>1, Behind
<1>12. ASSUME NEW i \in 1 .. z - 1
       PROVE  s[i] = r[i]
  <2>1. i \in 1 .. z - 1 + Len(p) /\ i + 1 \in 1 .. z + Len(p) /\ i + 1 <= z /\ i + 1 \in 1 .. z
        /\ i \in 1 .. Len(url) - 1
    BY <1>5, <1>8
  <2>2. s[i] = w[i + 1] /\ w[i + 1] = b[i + 1] /\ b[i + 1] = url[i + 1]
    BY <1>6, <1>8, <1>11, <2>1
  <2>3. r[i] = url[i + 1]
    BY <1>1, <1>2, <2>1, Behind
  <2> QED
    BY <2>2, <2>3
<1>13. ASSUME NEW i \in 1 .. Len(p)
       PROVE  s[z - 1 + i] = p[i]
  <2>1. /\ z - 1 + i \in 1 .. z - 1 + Len(p) /\ z - 1 + i + 1 = z + i /\ z + i \in 1 .. z + Len(p)
        /\ ~(z + i <= z) /\ z + i - z = i
    BY <1>5, <1>8
  <2>2. s[z - 1 + i] = w[z + i]
    BY <1>11, <2>1
  <2>3. w[z + i] = p[i]
    BY <1>8, <2>1
  <2> QED
    BY <2>2, <2>3
<1>14. Shape(s, e, z) /\ z <= Len(s) /\ Saying(s, e, z) = [Saying(r, e, z) EXCEPT !.path = p]
  <2>1. Repathed(r, s, z, p)
    BY <1>11, <1>12, <1>13 DEF Repathed
  <2> QED
    BY <1>3, <2>1, Rebased
<1>15. Find(s, "/") # 0
  BY <1>14, HasSlash
<1>16. ParseURL(w) = Saying(s, e, z)
  BY <1>8, <1>9, <1>10, <1>14, <1>15, ParsedIs
<1> QED
  BY <1>3, <1>4, <1>6, <1>7, <1>14, <1>16

\* A control URL of a service is joined to the base as the service means it.
LEMMA Means ==
  ASSUME NEW url \in Seq(STRING), NEW u, Says(url, u), "/" \in STRING,
         NEW service \in Services,
         \/ /\ service.absolute = NoUrl
            /\ service.controlURL = <<>> \/ service.controlURL[1] # Http
         \/ Says(service.controlURL, service.absolute) /\ service.absolute.path # <<>>
  PROVE  ParseURL(Joined(Authority(url), service.controlURL)) = Meaning(service, u)
<1>1. PICK c \in Seq(STRING) : c = service.controlURL
  BY DEF Services
<1>2. CASE service.absolute # NoUrl
  <2>1. Says(c, service.absolute) /\ service.absolute.path # <<>>
    BY <1>1, <1>2
  <2>2. c # <<>> /\ c[1] = Http
    BY <2>1 DEF Says
  <2>3. ParseURL(c) = service.absolute
    BY <2>1, Taken
  <2> QED
    BY <1>1, <1>2, <2>2, <2>3, Zenon DEF Joined, Meaning
<1>3. CASE service.absolute = NoUrl
  <2>1. ~(c # <<>> /\ c[1] = Http)
    <3>1. NoUrl.path = <<>>
      BY DEF NoUrl
    <3> QED
      BY <1>1, <1>3, <3>1
  <2>2. CASE c # <<>> /\ c[1] = "/"
    <3>1. ParseURL(Authority(url) \o c) = [u EXCEPT !.path = c]
      BY <2>2, Rooted
    <3>2. Joined(Authority(url), c) = Authority(url) \o c
      BY <2>1, <2>2, Zenon DEF Joined
    <3>3. <<>> \o c = c
      BY ConcatEmptySeq
    <3>4. Meaning(service, u) = [u EXCEPT !.path = c]
      BY <1>1, <1>3, <2>2, <3>3, Zenon DEF Meaning
    <3> QED
      BY <1>1, <3>1, <3>2, <3>4
  <2>3. CASE ~(c # <<>> /\ c[1] = "/")
    <3>1. PICK q : q = <<"/">>
      OBVIOUS
    <3>2. q \in Seq(STRING) /\ Len(q) = 1 /\ q[1] = "/"
      BY <3>1
    <3>3. q \o c \in Seq(STRING) /\ q \o c # <<>> /\ (q \o c)[1] = "/"
      <4>1. Len(q \o c) = 1 + Len(c) /\ Len(c) \in Nat /\ q \o c \in Seq(STRING)
        <5>1. q \in Seq(STRING) /\ c \in Seq(STRING)
          BY <3>2
        <5>2. q \o c \in Seq(STRING) /\ Len(q \o c) = Len(q) + Len(c)
          BY <5>1, ConcatProperties
        <5>3. Len(c) \in Nat
          BY <5>1, LenProperties
        <5> QED
          BY <3>2, <5>2, <5>3
      <4>2. 1 \in 1 .. Len(q) + Len(c) /\ 1 <= Len(q)
        BY <3>2, <4>1
      <4>3. (q \o c)[1] = q[1]
        BY <3>2, <4>2, ConcatProperties
      <4> QED
        BY <3>2, <4>1, <4>3, EmptySeq
    <3>4. ParseURL(Authority(url) \o (q \o c)) = [u EXCEPT !.path = q \o c]
          /\ Authority(url) \in Seq(STRING)
      BY <3>3, Rooted
    <3>5. Joined(Authority(url), c) = (Authority(url) \o q) \o c
      BY <2>1, <2>3, <3>1, Zenon DEF Joined
    <3>6. (Authority(url) \o q) \o c = Authority(url) \o (q \o c)
      <4>1. PICK a \in Seq(STRING) : a = Authority(url)
        BY <3>4
      <4>2. q \in Seq(STRING)
        BY <3>2
      <4>3. (a \o q) \o c = a \o (q \o c)
        BY <4>2, ConcatAssociative, SMTT(30)
      <4> QED
        BY <4>1, <4>3
    <3>7. Meaning(service, u) = [u EXCEPT !.path = q \o c]
      BY <1>1, <1>3, <2>3, <3>1, Zenon DEF Meaning
    <3> QED
      BY <1>1, <3>4, <3>5, <3>6, <3>7
  <2> QED
    BY <2>2, <2>3
<1> QED
  BY <1>2, <1>3

-----------------------------------------------------------------------------
\* What is kept at a place is a service of the description.
LEMMA KeptStored ==
  ASSUME NEW ss, NEW m \in Nat, NEW n \in 0 .. m, NEW s \in Slots,
         KeptOf(ss, n)[s] # NoService
  PROVE  n > 0 /\ \E i \in 1 .. m : KeptOf(ss, n)[s] = Stored(ss[i])
<1> DEFINE P(k) == \A x \in Slots : KeptOf(ss, k)[x] = NoService
                                    \/ \E i \in 1 .. k : KeptOf(ss, k)[x] = Stored(ss[i])
           D == {k \in 0 .. m : P(k)}
<1>1. 0 \in D
  <2>1. \A x \in Slots : KeptOf(ss, 0)[x] = NoService
    BY NothingKept
  <2>2. P(0) /\ 0 \in 0 .. m
    BY <2>1
  <2> HIDE DEF P
  <2> QED
    BY <2>2
<1>2. ASSUME NEW k \in 0 .. m - 1, k \in D
      PROVE  k + 1 \in D
  <2>1. \A x \in Slots : KeptOf(ss, k + 1)[x] \in {Stored(ss[k + 1]), KeptOf(ss, k)[x]}
    <3>1. KeptOf(ss, k + 1) =
            [y \in Slots |-> IF y \in SlotFor(KeptOf(ss, k), Stored(ss[k + 1]).serviceType)
                             THEN Stored(ss[k + 1]) ELSE KeptOf(ss, k)[y]]
      BY KeptGrows
    <3> QED
      BY <3>1, Zenon
  <2>2. P(k)
    BY <1>2
  <2>3. k + 1 \in 1 .. k + 1 /\ \A i \in 1 .. k : i \in 1 .. k + 1
    OBVIOUS
  <2>4. P(k + 1)
    BY <2>1, <2>2, <2>3, Zenon
  <2>5. k + 1 \in 0 .. m
    OBVIOUS
  <2> HIDE DEF P
  <2> QED
    BY <2>4, <2>5
<1>3. n \in D
  <2> HIDE DEF D
  <2> QED
    BY <1>1, <1>2, Upward
<1>4. \E i \in 1 .. n : KeptOf(ss, n)[s] = Stored(ss[i])
  BY <1>3
<1> QED
  BY <1>4

\* A control URL that is short enough is stored whole.
LEMMA StoredWhole ==
  ASSUME NEW service \in Services, Len(service.controlURL) < UrlMax
  PROVE  Stored(service)["controlURL"] = service.controlURL
<1>1. PICK c \in Seq(STRING) : c = service.controlURL
  BY DEF Services
<1>2. service["controlURL"] = service.controlURL
  OBVIOUS
<1>3. Capped(c, UrlMax - 1) = c
  <2>1. Len(c) \in Nat /\ UrlMax \in Nat
    BY LenProperties, DocumentsAssumption
  <2>2. Lesser(Len(c), UrlMax - 1) = Len(c)
    BY <1>1, <2>1 DEF Lesser
  <2> QED
    BY <2>2, SubSeqFull DEF Capped
<1> QED
  BY <1>1, <1>2, <1>3 DEF Stored, Fields

\* The base and the services have URLs as devices give them.
AllAddressed == \A d \in Descriptions : Addressed(d)

\* What is known of the device when its services are taken.
DeviceIs ==
  /\ doc \in Descriptions /\ igd \in IgdRecords
  /\ location \in Seq(STRING)
  /\ location[1] = Http => Says(location, ParseURL(location))
  /\ "/" \in STRING
  /\ \E n \in 0 .. Len(doc.services) :
       igd.kept = KeptOf(doc.services, n) /\ (n > 0 => igd.urlbase = doc.urlbase)

Reaches(k, url) ==
  k # NoService =>
    \E i \in DOMAIN doc.services :
      LET service == doc.services[i]
          base == IF igd.urlbase # <<>> THEN doc.base ELSE ParseURL(location)
      IN  /\ k = Stored(service)
          /\ Len(service.controlURL) < UrlMax /\ (igd.urlbase # <<>> \/ location[1] = Http) =>
               ParseURL(url) = Meaning(service, base)

BaseOf == Authority(IF igd.urlbase = <<>> THEN location ELSE igd.urlbase)

LEMMA Known ==
  ASSUME AllSent, AllServed, SearchIsAt, DescriptionIs, ServicesExact, Described
  PROVE  DeviceIs
<1>1. stage = "description" /\ phase = "done"
  BY DEF Described
<1>2. doc \in Descriptions /\ igd \in IgdRecords
  BY <1>1 DEF DescriptionIs
<1>3. answer \in Datagrams /\ location = answer.location /\ ParseURL(location) # NoUrl
  BY <1>1 DEF SearchIsAt
<1>4. answer.location \in Seq(STRING) /\ NamesHost(answer)
  BY <1>3, Sent
<1>5. /\ location \in Seq(STRING) /\ "/" \in STRING
      /\ location[1] = Http => Says(location, ParseURL(location))
  BY <1>3, <1>4, LocationSays, SlashIsText
<1>6. \E n \in 0 .. Len(doc.services) :
        igd.kept = KeptOf(doc.services, n) /\ (n > 0 => igd.urlbase = doc.urlbase)
  BY <1>1 DEF ServicesExact
<1> QED
  BY <1>2, <1>5, <1>6 DEF DeviceIs

LEMMA PlaceReaches ==
  ASSUME AllServed, AllAddressed, DeviceIs, NEW s \in Slots
  PROVE  Reaches(igd.kept[s], Joined(BaseOf, igd.kept[s].controlURL))
<1> SUFFICES ASSUME igd.kept[s] # NoService
             PROVE  Reaches(igd.kept[s], Joined(BaseOf, igd.kept[s].controlURL))
  BY DEF Reaches
<1>1. doc.services \in Seq(Services) /\ Addressed(doc) /\ doc.urlbase \in Seq(STRING)
  BY DEF DeviceIs, AllServed, AllAddressed, Served, Serving, GivesBase
<1>2. Len(doc.services) \in Nat /\ DOMAIN doc.services = 1 .. Len(doc.services)
  BY <1>1, LenProperties
<1>3. PICK n \in 0 .. Len(doc.services) :
        igd.kept = KeptOf(doc.services, n) /\ (n > 0 => igd.urlbase = doc.urlbase)
  BY DEF DeviceIs
<1>4. n > 0 /\ \E i \in 1 .. Len(doc.services) : igd.kept[s] = Stored(doc.services[i])
  BY <1>2, <1>3, KeptStored, SMTT(30)
<1>5. PICK i \in DOMAIN doc.services : igd.kept[s] = Stored(doc.services[i])
  BY <1>2, <1>4
<1>6. PICK service \in Services : service = doc.services[i]
  BY <1>1, <1>2, <1>5, ElementOfSeq
<1>7. igd.urlbase = doc.urlbase
  BY <1>3, <1>4
<1>8. PICK url, u : /\ url = IF igd.urlbase = <<>> THEN location ELSE igd.urlbase
                    /\ u = IF igd.urlbase # <<>> THEN doc.base ELSE ParseURL(location)
  OBVIOUS
<1>9. ASSUME igd.urlbase # <<>> \/ location[1] = Http
      PROVE  url \in Seq(STRING) /\ Says(url, u)
  BY <1>1, <1>7, <1>8, <1>9 DEF Addressed, DeviceIs
<1>10. \/ /\ service.absolute = NoUrl
          /\ service.controlURL = <<>> \/ service.controlURL[1] # Http
       \/ Says(service.controlURL, service.absolute) /\ service.absolute.path # <<>>
  <2>1. Http \in {Http, Https}
    OBVIOUS
  <2> QED
    BY <1>1, <1>5, <1>6, <2>1, Zenon DEF Addressed
<1>11. ASSUME igd.urlbase # <<>> \/ location[1] = Http
       PROVE  ParseURL(Joined(Authority(url), service.controlURL)) = Meaning(service, u)
  BY <1>9, <1>10, <1>11, Means DEF DeviceIs
<1>12. ASSUME Len(service.controlURL) < UrlMax
       PROVE  igd.kept[s].controlURL = service.controlURL
  <2>1. Stored(service)["controlURL"] = service.controlURL
    BY <1>12, StoredWhole
  <2>2. igd.kept[s] = Stored(service)
    BY <1>5, <1>6
  <2> QED
    BY <2>1, <2>2
<1>13. BaseOf = Authority(url)
  BY <1>8 DEF BaseOf
<1>14. Len(service.controlURL) < UrlMax /\ (igd.urlbase # <<>> \/ location[1] = Http) =>
         ParseURL(Joined(BaseOf, igd.kept[s].controlURL)) = Meaning(service, u)
  BY <1>11, <1>12, <1>13
<1> QED
  BY <1>5, <1>6, <1>8, <1>14, Zenon DEF Reaches

LEMMA CommandStays ==
  ASSUME AllServed, AllAddressed, Described => DeviceIs, CommandReaches, [Next]_vars
  PROVE  CommandReaches'
<1> USE DEF Goto
<1>1. CASE UNCHANGED vars \/ Ended
  <2>1. UNCHANGED <<stage, doc, igd, urls, location>>
    BY <1>1 DEF Ended, vars, found, device
  <2> QED
    BY <2>1 DEF CommandReaches
<1>2. CASE TakeDevice
  <2>1. /\ Described /\ igd' = igd /\ urls' = UrlsOf(igd) /\ doc' = doc /\ location' = location
    BY <1>2 DEF TakeDevice, Uses, found
  <2>2. \A s \in Slots \ {"second"} : urls'[s] = Joined(BaseOf, igd.kept[s].controlURL)
    BY <2>1 DEF UrlsOf, BaseOf
  <2>3. \A s \in Slots : Reaches(igd.kept[s], Joined(BaseOf, igd.kept[s].controlURL))
    BY <2>1, PlaceReaches
  <2>4. \A s \in Slots \ {"second"} : Reaches(igd.kept[s], urls'[s])
    BY <2>2, <2>3
  <2> QED
    BY <2>1, <2>4, Zenon DEF CommandReaches, Reaches
<1>3. CASE TakeSecond
  <2>1. /\ Described /\ igd' = Swapped /\ urls' = UrlsOf(Swapped)
        /\ doc' = doc /\ location' = location
    BY <1>3 DEF TakeSecond, Uses, found
  <2>2. igd \in IgdRecords
    BY <2>1 DEF DeviceIs
  <2>3. /\ Swapped.urlbase = igd.urlbase
        /\ \A s \in Slots \ {"second"} :
             Swapped.kept[s] = IF s = "first" THEN igd.kept["second"] ELSE igd.kept[s]
    BY <2>2 DEF Swapped, IgdRecords, Slots
  <2>4. \A s \in Slots \ {"second"} : urls'[s] = Joined(BaseOf, Swapped.kept[s].controlURL)
    BY <2>1, <2>3 DEF UrlsOf, BaseOf
  <2>5. \A s \in Slots : Reaches(igd.kept[s], Joined(BaseOf, igd.kept[s].controlURL))
    BY <2>1, PlaceReaches
  <2>6. \A s \in Slots \ {"second"} : \E x \in Slots : Swapped.kept[s] = igd.kept[x]
    BY <2>3 DEF Slots
  <2>7. \A s \in Slots \ {"second"} : Reaches(Swapped.kept[s], urls'[s])
    BY <2>4, <2>5, <2>6
  <2>8. igd'.urlbase = igd.urlbase
    BY <2>1, <2>3
  <2> QED
    BY <2>1, <2>7, <2>8, Zenon DEF CommandReaches, Reaches
<1>4. CASE \/ Hear \/ BadUrl \/ Fetch \/ ReadDescription \/ PassOver
           \/ Call \/ ReadReply \/ Replied \/ ReadListing \/ Listed
  <2>1. stage' # "known"
    BY <1>4 DEF Hear, BadUrl, Fetch, ReadDescription, PassOver, Call, ReadReply, Replied,
                ReadListing, Listed, Described
  <2> QED
    BY <2>1 DEF CommandReaches
<1> QED
  BY <1>1, <1>2, <1>3, <1>4 DEF Next

\* Commands reach what the description names for a service of their type, the host,
\* the port and the path, whatever services there are, wherever the description is
\* cut and whichever of two connection services is taken (GetUPNPUrls,
\* url_cpy_or_cat, parseURL, UPNP_GetValidIGD).  No name of an element is longer
\* than its room, or the base that it is written over is given behind it
\* (AllServed: GivesBase).
THEOREM CommandsAreReached ==
  AllLaid /\ AllServed /\ AllSent /\ AllAddressed => (Spec => []CommandReaches)
<1> SUFFICES ASSUME AllLaid, AllServed, AllSent, AllAddressed PROVE Spec => []CommandReaches
  OBVIOUS
<1>1. Init => CommandReaches
  BY DEF Init, CommandReaches
<1>2. SearchIsAt /\ DescriptionIs /\ ServicesExact /\ CommandReaches /\ [Next]_vars => CommandReaches'
  BY Known, CommandStays
<1>3. Spec => []DescriptionIs
  BY DescriptionHolds
<1>4. Spec => []ServicesExact
  BY ServicesAreExact
<1>5. Spec => []SearchIsAt
  BY SearchHolds
<1> QED
  BY <1>1, <1>2, <1>3, <1>4, <1>5, PTL DEF Spec

-----------------------------------------------------------------------------
(***************************************************************************)
(* The port mappings of a reply.  The listing is a document in a reply: it *)
(* is read as it is laid out, from the text the reply has given, and its   *)
(* rows are those of the mappings whose calls have been made.              *)
(***************************************************************************)

\* The names of a listing the consumer asks for, and a name it does not.
KnownNames == Range(elements)
OtherName(n) == \A e \in KnownNames : ~IsPrefix(n, e)

LEMMA AsSequence ==
  ASSUME NEW S, NEW n \in Nat, NEW s \in [1 .. n -> S]
  PROVE  s \in Seq(S) /\ Len(s) = n
  OBVIOUS

\* A sequence with one more element in front.
LEMMA InFront ==
  ASSUME NEW S, NEW e \in S, NEW s \in Seq(S), NEW c, c = <<e>> \o s
  PROVE  /\ c \in Seq(S) /\ Len(s) \in Nat /\ Len(c) = Len(s) + 1
         /\ c[1] = e /\ \A i \in 1 .. Len(s) : c[i + 1] = s[i]
<1>1. Len(s) \in Nat
  BY LenProperties
<1>2. <<e>> \in Seq(S) /\ Len(<<e>>) = 1 /\ <<e>>[1] = e
  OBVIOUS
<1>3. /\ c \in Seq(S) /\ Len(c) = 1 + Len(s)
      /\ \A i \in 1 .. Len(s) + 1 : c[i] = IF i = 1 THEN e ELSE s[i - 1]
  BY <1>1, <1>2
<1> QED
  BY <1>1, <1>3

LEMMA Eight ==
  ASSUME NEW a, NEW b, NEW c, NEW d, NEW e, NEW f, NEW g, NEW h, NEW s,
         s = <<a, b, c, d, e, f, g, h>>
  PROVE  Len(s) = 8 /\ DOMAIN s = 1 .. 8
  OBVIOUS

LEMMA ElementsAre ==
  /\ Len(elements) \in Nat /\ DOMAIN elements = 1 .. Len(elements)
  /\ Entry \in KnownNames
  /\ \A c \in Range(Columns) : <<"New", c>> \in KnownNames
  /\ \A e \in KnownNames : e = Entry \/ \E c \in Range(Columns) : e = <<"New", c>>
<1> DEFINE s == [i \in DOMAIN Columns |-> <<"New", Columns[i]>>]
           T == {<<"New", Columns[i]>> : i \in 1 .. 8} \cup {Entry}
<1>1. Len(Columns) = 8 /\ DOMAIN Columns = 1 .. 8
  BY Eight DEF Columns
<1>2. \A i \in 1 .. 8 : s[i] = <<"New", Columns[i]>>
  BY <1>1
<1>3. s \in [1 .. 8 -> T]
  <2>1. \A i \in 1 .. 8 : s[i] \in T
    BY <1>2
  <2>2. s = [i \in 1 .. 8 |-> s[i]]
    BY <1>1
  <2> HIDE DEF s, T
  <2> QED
    BY <2>1, <2>2
<1>5. Entry \in T
  OBVIOUS
<1> HIDE DEF s, T
<1>4. s \in Seq(T) /\ Len(s) = 8 /\ \A i \in 1 .. 8 : s[i] = <<"New", Columns[i]>>
  <2>1. PICK n \in Nat : n = 8
    OBVIOUS
  <2>2. s \in [1 .. n -> T]
    BY <1>3, <2>1
  <2>3. s \in Seq(T) /\ Len(s) = n
    BY <2>2, AsSequence
  <2> QED
    BY <1>2, <2>1, <2>3
<1>6. elements = <<Entry>> \o s
  BY DEF elements, s
<1>7. /\ elements \in Seq(T) /\ Len(elements) = 9
      /\ elements[1] = Entry /\ \A i \in 1 .. 8 : elements[i + 1] = s[i]
  <2>1. /\ elements \in Seq(T) /\ Len(elements) = Len(s) + 1
        /\ elements[1] = Entry /\ \A i \in 1 .. Len(s) : elements[i + 1] = s[i]
    <3>1. s \in Seq(T)
      BY <1>4
    <3>2. PICK w, h : w \in Seq(T) /\ h \in T /\ w = s /\ h = Entry
      BY <1>5, <3>1
    <3>3. elements = <<h>> \o w
      BY <1>6, <3>2
    <3>4. /\ elements \in Seq(T) /\ Len(elements) = Len(w) + 1
          /\ elements[1] = h /\ \A i \in 1 .. Len(w) : elements[i + 1] = w[i]
      BY <3>2, <3>3, InFront
    <3> QED
      BY <3>2, <3>4
  <2> QED
    BY <1>4, <2>1
<1>8. DOMAIN elements = 1 .. 9
  BY <1>7, LenProperties
<1>9. KnownNames = {elements[i] : i \in 1 .. 9}
  BY <1>8 DEF KnownNames, Range
<1>10. Range(Columns) = {Columns[i] : i \in 1 .. 8}
  BY <1>1 DEF Range
<1>11. Entry \in KnownNames
  BY <1>7, <1>9
<1>12. \A c \in Range(Columns) : <<"New", c>> \in KnownNames
  <2> SUFFICES ASSUME NEW i \in 1 .. 8 PROVE <<"New", Columns[i]>> \in KnownNames
    BY <1>10
  <2>1. i + 1 \in 1 .. 9 /\ elements[i + 1] = <<"New", Columns[i]>>
    BY <1>4, <1>7
  <2> QED
    BY <1>9, <2>1
<1>13. \A e \in KnownNames : e = Entry \/ \E c \in Range(Columns) : e = <<"New", c>>
  <2> SUFFICES ASSUME NEW i \in 1 .. 9
               PROVE elements[i] = Entry \/ \E c \in Range(Columns) : elements[i] = <<"New", c>>
    BY <1>9
  <2>1. CASE i = 1
    BY <1>7, <2>1
  <2>2. CASE i # 1
    <3>1. i - 1 \in 1 .. 8 /\ elements[(i - 1) + 1] = s[i - 1] /\ (i - 1) + 1 = i
      BY <1>7, <2>2
    <3>2. elements[i] = <<"New", Columns[i - 1]>>
      BY <1>4, <3>1
    <3> QED
      BY <1>10, <3>1, <3>2
  <2> QED
    BY <2>1, <2>2
<1> QED
  BY <1>7, <1>8, <1>11, <1>12, <1>13

\* The first known name that begins with the one that is read.
LEMMA FirstKnown ==
  ASSUME NEW n
  PROVE  \/ KnownAs(n) \in KnownNames /\ IsPrefix(n, KnownAs(n))
         \/ KnownAs(n) = <<>> /\ OtherName(n)
<1> DEFINE I == {i \in 1 .. Len(elements) : IsPrefix(n, elements[i])}
           k == IF I # {} THEN Min(I) ELSE 0
<1>1. KnownAs(n) = IF k = 0 THEN <<>> ELSE elements[k]
  BY Zenon DEF KnownAs, SelectInSeq
<1>2. Len(elements) \in Nat /\ DOMAIN elements = 1 .. Len(elements)
  BY ElementsAre
<1>3. I \in SUBSET Nat
  OBVIOUS
<1>4. CASE I # {}
  <2>1. Min(I) \in I
    <3> HIDE DEF I
    <3> QED
      BY <1>3, <1>4, MinAmong
  <2>2. k \in I
    BY <1>4, <2>1
  <2>3. k \in 1 .. Len(elements) /\ IsPrefix(n, elements[k])
    BY <2>2
  <2> HIDE DEF k
  <2>4. k # 0 /\ elements[k] \in KnownNames
    BY <1>2, <2>3 DEF KnownNames, Range
  <2> QED
    BY <1>1, <2>3, <2>4
<1>5. CASE I = {}
  <2>1. k = 0 /\ KnownAs(n) = <<>>
    BY <1>1, <1>5
  <2>2. \A i \in 1 .. Len(elements) : ~IsPrefix(n, elements[i])
    BY <1>5
  <2> QED
    BY <1>2, <2>1, <2>2 DEF OtherName, KnownNames, Range
<1> QED
  BY <1>4, <1>5

LEMMA PrefixOfPair ==
  ASSUME NEW a, NEW b, NEW c, NEW d, IsPrefix(<<a, b>>, <<c, d>>)
  PROVE  a = c /\ b = d
<1>1. SubSeq(<<a, b>>, 1, 2) = SubSeq(<<c, d>>, 1, 2)
  BY DEF IsPrefix
<1>2. SubSeq(<<a, b>>, 1, 2)[1] = a /\ SubSeq(<<a, b>>, 1, 2)[2] = b
  OBVIOUS
<1>3. SubSeq(<<c, d>>, 1, 2)[1] = c /\ SubSeq(<<c, d>>, 1, 2)[2] = d
  OBVIOUS
<1> QED
  BY <1>1, <1>2, <1>3

LEMMA PairOfItself ==
  ASSUME NEW a, NEW b
  PROVE  IsPrefix(<<a, b>>, <<a, b>>)
  BY DEF IsPrefix

LEMMA KnownIs ==
  /\ KnownAs(Entry) = Entry
  /\ \A c \in Range(Columns) : KnownAs(<<"New", c>>) = <<"New", c>> /\ <<"New", c>> # Entry
                               /\ <<"New", c>> # <<>> /\ ~OtherName(<<"New", c>>)
  /\ Entry # <<>> /\ ~OtherName(Entry)
  /\ \A n : OtherName(n) => KnownAs(n) = <<>>
<1>1. Entry # <<>> /\ \A c : <<"New", c>> # Entry /\ <<"New", c>> # <<>>
  BY DEF Entry
<1>2. \A n : OtherName(n) => KnownAs(n) = <<>>
  BY FirstKnown DEF OtherName
<1>3. ~OtherName(Entry)
  BY ElementsAre, PairOfItself DEF Entry, OtherName
<1>4. \A c \in Range(Columns) : ~OtherName(<<"New", c>>)
  BY ElementsAre, PairOfItself DEF OtherName
<1>5. KnownAs(Entry) = Entry
  <2>1. KnownAs(Entry) \in KnownNames /\ IsPrefix(Entry, KnownAs(Entry))
    BY <1>3, FirstKnown
  <2>2. \A c : ~IsPrefix(Entry, <<"New", c>>)
    BY PrefixOfPair DEF Entry
  <2> QED
    BY <2>1, <2>2, ElementsAre
<1>6. ASSUME NEW c \in Range(Columns) PROVE KnownAs(<<"New", c>>) = <<"New", c>>
  <2> DEFINE m == <<"New", c>>
  <2>1. KnownAs(m) \in KnownNames /\ IsPrefix(m, KnownAs(m))
    BY <1>4, FirstKnown
  <2>2. ~IsPrefix(m, Entry)
    BY PrefixOfPair DEF Entry
  <2>3. PICK e \in Range(Columns) : KnownAs(m) = <<"New", e>>
    BY <2>1, <2>2, ElementsAre
  <2>4. c = e
    BY <2>1, <2>3, PrefixOfPair
  <2> QED
    BY <2>3, <2>4
<1> QED
  BY <1>1, <1>2, <1>3, <1>4, <1>5, <1>6

-----------------------------------------------------------------------------
\* The first n of the mappings, as the list has them.
Earlier(ms, n) == Reverse(SubSeq(ms, 1, n))

LEMMA EarlierGrows ==
  ASSUME NEW S, NEW ms \in Seq(S)
  PROVE  /\ Earlier(ms, 0) = <<>> /\ Earlier(ms, Len(ms)) = Reverse(ms)
         /\ \A n \in 0 .. Len(ms) : Earlier(ms, n) \in Seq(S)
         /\ \A n \in 0 .. Len(ms) - 1 : Earlier(ms, n + 1) = <<ms[n + 1]>> \o Earlier(ms, n)
<1>1. Len(ms) \in Nat /\ DOMAIN ms = 1 .. Len(ms)
  BY LenProperties
<1>2. SubSeq(ms, 1, Len(ms)) = ms
  BY <1>1
<1>3. \A n \in 0 .. Len(ms) : Earlier(ms, n) = [i \in 1 .. n |-> ms[n - i + 1]]
  <2> SUFFICES ASSUME NEW n \in 0 .. Len(ms)
               PROVE  Earlier(ms, n) = [i \in 1 .. n |-> ms[n - i + 1]]
    OBVIOUS
  <2> DEFINE s == SubSeq(ms, 1, n)
  <2>1. Earlier(ms, n) = Reverse(s)
    BY DEF Earlier
  <2>2. Len(s) = n /\ \A i \in 1 .. n : s[i] = ms[i]
    BY <1>1
  <2> HIDE DEF s
  <2>3. Reverse(s) = [i \in 1 .. n |-> s[(n - i) + 1]]
    BY <2>2 DEF Reverse
  <2>4. \A i \in 1 .. n : n - i + 1 \in 1 .. n /\ s[(n - i) + 1] = ms[n - i + 1]
    BY <1>1, <2>2
  <2> QED
    BY <2>1, <2>3, <2>4
<1>4. \A n \in 0 .. Len(ms) : /\ Earlier(ms, n) \in Seq(S) /\ Len(Earlier(ms, n)) = n
                               /\ \A i \in 1 .. n : Earlier(ms, n)[i] = ms[n - i + 1]
  <2> SUFFICES ASSUME NEW n \in 0 .. Len(ms)
               PROVE  /\ Earlier(ms, n) \in Seq(S) /\ Len(Earlier(ms, n)) = n
                      /\ \A i \in 1 .. n : Earlier(ms, n)[i] = ms[n - i + 1]
    OBVIOUS
  <2>1. \A i \in 1 .. n : ms[n - i + 1] \in S
    BY <1>1
  <2> QED
    BY <1>1, <1>3, <2>1
<1>5. ASSUME NEW n \in 0 .. Len(ms) - 1
      PROVE  Earlier(ms, n + 1) = <<ms[n + 1]>> \o Earlier(ms, n)
  <2> DEFINE e == ms[n + 1]
             s == Earlier(ms, n)
  <2>1. n \in 0 .. Len(ms) /\ n + 1 \in 0 .. Len(ms) /\ n + 1 \in DOMAIN ms /\ n \in Nat
    BY <1>1
  <2>2. s \in Seq(S) /\ Len(s) = n /\ e \in S
    BY <1>1, <1>4, <2>1
  <2>3. Earlier(ms, n + 1) \in Seq(S) /\ Len(Earlier(ms, n + 1)) = n + 1
    BY <1>4, <2>1
  <2>4. \A i \in 1 .. n + 1 : Earlier(ms, n + 1)[i] = IF i = 1 THEN e ELSE s[i - 1]
    <3> SUFFICES ASSUME NEW i \in 1 .. n + 1
                 PROVE  Earlier(ms, n + 1)[i] = IF i = 1 THEN e ELSE s[i - 1]
      OBVIOUS
    <3>1. Earlier(ms, n + 1)[i] = ms[(n + 1) - i + 1]
      BY <1>4, <2>1
    <3>2. CASE i = 1
      BY <2>1, <3>1, <3>2
    <3>3. CASE i # 1
      <4>1. i - 1 \in 1 .. n /\ n - (i - 1) + 1 = (n + 1) - i + 1
        BY <2>1, <3>3
      <4>2. s[i - 1] = ms[n - (i - 1) + 1]
        BY <1>4, <2>1, <4>1
      <4> QED
        BY <3>1, <3>3, <4>1, <4>2
    <3> QED
      BY <3>2, <3>3
  <2> HIDE DEF e, s
  <2>5. /\ <<e>> \o s \in Seq(S) /\ Len(<<e>> \o s) = n + 1
        /\ \A i \in 1 .. n + 1 : (<<e>> \o s)[i] = IF i = 1 THEN e ELSE s[i - 1]
    BY <2>1, <2>2
  <2>6. Earlier(ms, n + 1) = <<e>> \o s
    BY <2>1, <2>3, <2>4, <2>5, SeqEqual
  <2> QED
    BY <2>6 DEF e, s
<1>6. Earlier(ms, 0) = <<>>
  BY <1>1, <1>4, EmptySeq
<1>7. Earlier(ms, Len(ms)) = Reverse(ms)
  BY <1>2 DEF Earlier
<1> QED
  BY <1>4, <1>5, <1>6, <1>7

LEMMA Replaced ==
  ASSUME NEW S, NEW s \in Seq(S), NEW i \in 1 .. Len(s), NEW e \in S,
         NEW k, k = [s EXCEPT ![i] = e]
  PROVE  /\ k \in Seq(S) /\ Len(k) = Len(s)
         /\ \A j \in 1 .. Len(s) : k[j] = IF j = i THEN e ELSE s[j]
<1>1. Len(s) \in Nat /\ s \in [1 .. Len(s) -> S]
  BY LenProperties
<1>2. PICK n \in Nat : n = Len(s)
  BY <1>1
<1>3. s \in [1 .. n -> S] /\ i \in 1 .. n
  BY <1>1, <1>2
<1>4. k \in [1 .. n -> S] /\ \A j \in 1 .. n : k[j] = IF j = i THEN e ELSE s[j]
  BY <1>3
<1> QED
  BY <1>2, <1>4, AsSequence

\* The value of a column in the row at the head of the list.
LEMMA FirstReplaced ==
  ASSUME NEW S, NEW a \in S, NEW b \in S, NEW s \in Seq(S)
  PROVE  /\ <<a>> \o s # <<>> /\ (<<a>> \o s)[1] = a
         /\ [<<a>> \o s EXCEPT ![1] = b] = <<b>> \o s
<1>1. PICK h, g : h = <<a>> \o s /\ g = <<b>> \o s
  OBVIOUS
<1>2. /\ h \in Seq(S) /\ Len(s) \in Nat /\ Len(h) = Len(s) + 1
      /\ h[1] = a /\ \A i \in 1 .. Len(s) : h[i + 1] = s[i]
  BY <1>1, InFront
<1>3. /\ g \in Seq(S) /\ Len(g) = Len(s) + 1
      /\ g[1] = b /\ \A i \in 1 .. Len(s) : g[i + 1] = s[i]
  BY <1>1, InFront
<1>4. PICK k, i : k = [h EXCEPT ![i] = b] /\ i = 1
  OBVIOUS
<1>5. /\ k \in Seq(S) /\ Len(k) = Len(h)
      /\ \A j \in 1 .. Len(h) : k[j] = IF j = i THEN b ELSE h[j]
  <2>1. i \in 1 .. Len(h) /\ h \in Seq(S)
    BY <1>2, <1>4
  <2> QED
    BY <1>4, <2>1, Replaced
<1>6. \A j \in 1 .. Len(k) : k[j] = g[j]
  <2> SUFFICES ASSUME NEW j \in 1 .. Len(k) PROVE k[j] = g[j]
    OBVIOUS
  <2>1. CASE j = 1
    BY <1>2, <1>3, <1>4, <1>5, <2>1
  <2>2. CASE j # 1
    <3>1. j - 1 \in 1 .. Len(s) /\ (j - 1) + 1 = j
      BY <1>2, <1>5, <2>2
    <3>2. h[(j - 1) + 1] = s[j - 1] /\ g[(j - 1) + 1] = s[j - 1]
      BY <1>2, <1>3, <3>1
    <3> QED
      BY <1>2, <1>4, <1>5, <2>2, <3>1, <3>2
  <2> QED
    BY <2>1, <2>2
<1>7. k = g
  BY <1>2, <1>3, <1>5, <1>6, SeqEqual
<1>8. h # <<>>
  BY <1>2
<1> QED
  BY <1>1, <1>2, <1>4, <1>7, <1>8

Put(row, c, v) == [row EXCEPT ![c] = v]

Changed(row, s, c, v, k) == <<row>> \o s # <<>> /\ k = <<Put(row, c, v)>> \o s

LEMMA HeadChanged ==
  ASSUME NEW S, NEW row, NEW s \in Seq(S), NEW c, NEW v,
         NEW k, k = [<<row>> \o s EXCEPT ![1][c] = v]
  PROVE  Changed(row, s, c, v, k)
<1> DEFINE new == [row EXCEPT ![c] = v]
           T == S \cup {row, new}
<1>1. s \in Seq(T)
  BY SeqMonotonic
<1>2. row \in T /\ new \in T
  OBVIOUS
<1> HIDE DEF T
<1>3. PICK e : e = new
  OBVIOUS
<1>4. e \in T
  BY <1>2, <1>3
<1>5. /\ <<row>> \o s # <<>> /\ (<<row>> \o s)[1] = row
      /\ [<<row>> \o s EXCEPT ![1] = e] = <<e>> \o s
  BY <1>1, <1>2, <1>4, FirstReplaced
<1> QED
  BY <1>3, <1>5 DEF Put, Changed

\* The row of a mapping that begins with the call a, after the call p.
RowOf(cs, m, a, p) ==
  [c \in Range(Columns) |->
     IF \E k \in a + 1 .. p : ColumnText(cs, k, c) THEN m[c] ELSE NoMapping[c]]

\* After the call p, the list has the mappings that have begun, the last one first.
ListHas(cs, ms, a, p, l) ==
  \E n \in 0 .. Len(ms) :
    /\ \A i \in DOMAIN ms : a[i] <= p <=> i <= n
    /\ l.head = IF n = 0 THEN <<>> ELSE <<RowOf(cs, ms[n], a[n], p)>> \o Earlier(ms, n - 1)
    /\ p > 0 /\ cs[p].call = "start" => l.curelt = KnownAs(cs[p].part)
    /\ l = [curelt |-> l.curelt, head |-> l.head]

Lists(cs, ms, a, z) ==
  /\ cs \in Seq(CallRecords) /\ ms \in Seq(Mappings)
  /\ a \in [DOMAIN ms -> DOMAIN cs] /\ z \in [DOMAIN ms -> DOMAIN cs]
  /\ Mapping(cs, ms, a, z)

LEMMA ListPlaces ==
  ASSUME NEW cs, NEW ms, NEW a, NEW z, Lists(cs, ms, a, z)
  PROVE  /\ Len(cs) \in Nat /\ DOMAIN cs = 1 .. Len(cs)
         /\ Len(ms) \in Nat /\ DOMAIN ms = 1 .. Len(ms)
         /\ \A i \in DOMAIN ms : /\ a[i] \in 1 .. Len(cs) /\ z[i] \in 1 .. Len(cs) /\ a[i] < z[i]
                                  /\ cs[a[i]].call = "start" /\ cs[a[i]].part = Entry
                                  /\ cs[z[i]].call = "end"
         /\ \A i, j \in DOMAIN ms : i < j => z[i] < a[j]
<1>1. /\ Len(cs) \in Nat /\ DOMAIN cs = 1 .. Len(cs)
      /\ Len(ms) \in Nat /\ DOMAIN ms = 1 .. Len(ms)
  BY LenProperties DEF Lists
<1>2. \A i \in DOMAIN ms : a[i] \in 1 .. Len(cs) /\ z[i] \in 1 .. Len(cs)
  BY <1>1 DEF Lists
<1>3. \A i \in DOMAIN ms : GivesMapping(cs, ms[i], a[i], z[i])
  BY DEF Lists, Mapping
<1>4. \A i, j \in DOMAIN ms : i < j => z[i] < a[j]
  BY DEF Lists, Mapping
<1>5. \A i \in DOMAIN ms : a[i] < z[i] /\ cs[z[i]].call = "end"
                           /\ cs[a[i]] = [call |-> "start", part |-> Entry]
  BY <1>3 DEF GivesMapping
<1> QED
  BY <1>1, <1>2, <1>4, <1>5

\* A mapping whose tags are both behind is whole.
LEMMA RowWhole ==
  ASSUME NEW cs, NEW ms, NEW a, NEW z, Lists(cs, ms, a, z), NEW i \in DOMAIN ms,
         NEW p \in Nat, z[i] <= p
  PROVE  RowOf(cs, ms[i], a[i], p) = ms[i]
<1>1. GivesMapping(cs, ms[i], a[i], z[i])
  BY DEF Lists, Mapping
<1>2. a[i] \in Nat /\ z[i] \in Nat /\ a[i] < z[i]
  BY ListPlaces
<1>3. ms[i] = [c \in Range(Columns) |-> ms[i][c]]
  BY <1>1 DEF GivesMapping
<1>4. ASSUME NEW c \in Range(Columns), ~\E k \in a[i] + 1 .. p : ColumnText(cs, k, c)
      PROVE  ms[i][c] = NoMapping[c]
  <2>1. ~\E k \in a[i] + 1 .. z[i] - 1 : ColumnText(cs, k, c)
    BY <1>2, <1>4
  <2> QED
    BY <1>1, <2>1 DEF GivesMapping
<1>5. \A c \in Range(Columns) :
        (IF \E k \in a[i] + 1 .. p : ColumnText(cs, k, c) THEN ms[i][c] ELSE NoMapping[c]) = ms[i][c]
  BY <1>4
<1>6. RowOf(cs, ms[i], a[i], p) = [c \in Range(Columns) |-> ms[i][c]]
  BY <1>5 DEF RowOf
<1> QED
  BY <1>3, <1>6

\* A call that is no text of a column leaves the row as it is.
LEMMA RowStays ==
  ASSUME NEW cs, NEW m, NEW a \in Nat, NEW p \in Nat, a <= p,
         \A c \in Range(Columns) : ~ColumnText(cs, p + 1, c)
  PROVE  RowOf(cs, m, a, p + 1) = RowOf(cs, m, a, p)
<1>1. ASSUME NEW c \in Range(Columns)
      PROVE  (\E k \in a + 1 .. p + 1 : ColumnText(cs, k, c)) <=> (\E k \in a + 1 .. p : ColumnText(cs, k, c))
  <2>1. \A k \in a + 1 .. p + 1 : k \in a + 1 .. p \/ k = p + 1
    OBVIOUS
  <2>2. \A k \in a + 1 .. p : k \in a + 1 .. p + 1
    OBVIOUS
  <2> QED
    BY <2>1, <2>2
<1> QED
  BY <1>1 DEF RowOf

\* The call behind p is a text of the column c, and what it changes.
Comes(cs, m, a, p, c) ==
  /\ a \in Nat /\ p \in Nat /\ a <= p /\ c \in Range(Columns)
  /\ \A b \in Range(Columns) : ColumnText(cs, p + 1, b) <=> b = c
Came(cs, m, a, p, c) == RowOf(cs, m, a, p + 1) = Put(RowOf(cs, m, a, p), c, m[c])

LEMMA RowGrows ==
  ASSUME NEW cs, NEW m, NEW a, NEW p, NEW c, Comes(cs, m, a, p, c)
  PROVE  Came(cs, m, a, p, c)
<1> USE DEF Comes
<1>1. ASSUME NEW b \in Range(Columns), b # c
      PROVE  (\E k \in a + 1 .. p + 1 : ColumnText(cs, k, b)) <=> (\E k \in a + 1 .. p : ColumnText(cs, k, b))
  <2>1. \A k \in a + 1 .. p + 1 : k \in a + 1 .. p \/ k = p + 1
    OBVIOUS
  <2>2. \A k \in a + 1 .. p : k \in a + 1 .. p + 1
    OBVIOUS
  <2> QED
    BY <1>1, <2>1, <2>2
<1>2. \E k \in a + 1 .. p + 1 : ColumnText(cs, k, c)
  <2>1. p + 1 \in a + 1 .. p + 1
    OBVIOUS
  <2> QED
    BY <2>1
<1> QED
  BY <1>1, <1>2 DEF RowOf, Put, Came

LEMMA RowNew ==
  ASSUME NEW cs, NEW m, NEW a \in Nat
  PROVE  RowOf(cs, m, a, a) = NoMapping
<1>1. \A c \in Range(Columns) : ~\E k \in a + 1 .. a : ColumnText(cs, k, c)
  OBVIOUS
<1>2. RowOf(cs, m, a, a) = [c \in Range(Columns) |-> NoMapping[c]]
  BY <1>1 DEF RowOf
<1> QED
  BY <1>2 DEF NoMapping

\* Which of the three kinds a start is.
LEMMA StartIs ==
  ASSUME NEW cs, NEW ms, NEW a, NEW z, Lists(cs, ms, a, z), NEW k \in DOMAIN cs,
         cs[k].call = "start"
  PROVE  \/ cs[k].part = Entry /\ \E i \in DOMAIN ms : a[i] = k
         \/ /\ \E c \in Range(Columns) : cs[k].part = <<"New", c>>
            /\ \E i \in DOMAIN ms : a[i] < k /\ k < z[i]
         \/ OtherName(cs[k].part)
  BY DEF Lists, Mapping, OtherName, KnownNames

LEMMA NotBegun ==
  ASSUME NEW cs, NEW ms, NEW a, NEW z, Lists(cs, ms, a, z), NEW p \in 0 .. Len(cs) - 1,
         NEW n, \A i \in DOMAIN ms : a[i] <= p <=> i <= n,
         cs[p + 1].call = "start" => cs[p + 1].part # Entry
  PROVE  \A i \in DOMAIN ms : a[i] <= p + 1 <=> i <= n
<1> SUFFICES ASSUME NEW i \in DOMAIN ms PROVE a[i] <= p + 1 <=> i <= n
  OBVIOUS
<1>1. a[i] \in 1 .. Len(cs) /\ Len(cs) \in Nat /\ cs[a[i]].call = "start" /\ cs[a[i]].part = Entry
  BY ListPlaces
<1>2. a[i] # p + 1
  BY <1>1
<1> QED
  BY <1>1, <1>2

LEMMA ListStart ==
  ASSUME NEW cs, NEW ms, NEW a, NEW z, Lists(cs, ms, a, z), NEW p \in 0 .. Len(cs) - 1,
         NEW l, ListHas(cs, ms, a, p, l), cs[p + 1].call = "start"
  PROVE  ListHas(cs, ms, a, p + 1, ListingStart(l, cs[p + 1].part))
<1> DEFINE name == cs[p + 1].part
           r == ListingStart(l, name)
<1>1. /\ Len(cs) \in Nat /\ DOMAIN cs = 1 .. Len(cs) /\ Len(ms) \in Nat /\ DOMAIN ms = 1 .. Len(ms)
      /\ p \in Nat /\ p + 1 \in DOMAIN cs
  BY ListPlaces
<1>2. PICK n \in 0 .. Len(ms) :
        /\ \A i \in DOMAIN ms : a[i] <= p <=> i <= n
        /\ l.head = IF n = 0 THEN <<>> ELSE <<RowOf(cs, ms[n], a[n], p)>> \o Earlier(ms, n - 1)
  BY DEF ListHas
<1>3. /\ r = [curelt |-> r.curelt, head |-> r.head] /\ r.curelt = KnownAs(name)
      /\ r.head = IF KnownAs(name) = Entry THEN <<NoMapping>> \o l.head ELSE l.head
  BY DEF ListingStart
<1> HIDE DEF r
<1>4. ms \in Seq(Mappings)
  BY DEF Lists
<1>5. CASE name = Entry
  <2>1. PICK i \in DOMAIN ms : a[i] = p + 1
    BY <1>1, <1>5, StartIs, KnownIs, ZenonT(40)
  <2>2. i = n + 1
    <3>1. i > n
      BY <1>1, <1>2, <2>1
    <3>2. CASE i > n + 1
      <4>1. n + 1 \in DOMAIN ms /\ n + 1 < i
        BY <1>1, <3>2
      <4>2. z[n + 1] < a[i] /\ a[n + 1] < z[n + 1] /\ a[n + 1] \in Nat /\ z[n + 1] \in Nat
        BY <4>1, ListPlaces
      <4> QED
        BY <1>1, <1>2, <2>1, <4>1, <4>2
    <3> QED
      BY <1>1, <3>1, <3>2
  <2>3. \A j \in DOMAIN ms : a[j] <= p + 1 <=> j <= n + 1
    <3> SUFFICES ASSUME NEW j \in DOMAIN ms PROVE a[j] <= p + 1 <=> j <= n + 1
      OBVIOUS
    <3>1. a[j] \in Nat
      BY ListPlaces
    <3>2. CASE j <= n
      BY <1>1, <1>2, <3>1, <3>2
    <3>3. CASE j = n + 1
      BY <1>1, <2>1, <2>2, <3>3
    <3>4. CASE j > n + 1
      <4>1. z[i] < a[j] /\ a[i] < z[i] /\ z[i] \in Nat
        BY <2>2, <3>4, ListPlaces
      <4> QED
        BY <1>1, <2>1, <3>1, <3>4, <4>1
    <3> QED
      BY <1>1, <3>2, <3>3, <3>4
  <2>4. l.head = Earlier(ms, n)
    <3>1. CASE n = 0
      BY <1>2, <1>4, <3>1, EarlierGrows
    <3>2. CASE n # 0
      <4>1. n \in DOMAIN ms /\ n - 1 \in 0 .. Len(ms) - 1 /\ (n - 1) + 1 = n /\ n < i
        BY <1>1, <2>2, <3>2
      <4>2. z[n] < a[i] /\ z[n] \in Nat
        BY <4>1, ListPlaces
      <4>3. z[n] <= p
        BY <1>1, <2>1, <4>2
      <4>4. RowOf(cs, ms[n], a[n], p) = ms[n]
        BY <1>1, <4>1, <4>3, RowWhole
      <4>5. Earlier(ms, (n - 1) + 1) = <<ms[(n - 1) + 1]>> \o Earlier(ms, n - 1)
        BY <1>4, <4>1, EarlierGrows
      <4> QED
        BY <1>2, <3>2, <4>1, <4>4, <4>5
    <3> QED
      BY <3>1, <3>2
  <2>5. RowOf(cs, ms[n + 1], a[n + 1], p + 1) = NoMapping
    <3>1. a[n + 1] = p + 1 /\ p + 1 \in Nat
      BY <1>1, <2>1, <2>2
    <3> QED
      BY <3>1, RowNew
  <2>6. r.head = <<RowOf(cs, ms[n + 1], a[n + 1], p + 1)>> \o Earlier(ms, (n + 1) - 1)
    <3>1. (n + 1) - 1 = n
      BY <1>1
    <3> QED
      BY <1>3, <1>5, <2>4, <2>5, <3>1, KnownIs
  <2>7. n + 1 \in 0 .. Len(ms) /\ n + 1 # 0
    BY <1>1, <2>2
  <2>8. ListHas(cs, ms, a, p + 1, r)
    BY <1>3, <2>3, <2>6, <2>7 DEF ListHas
  <2> QED
    BY <2>8 DEF r
<1>6. CASE name # Entry
  <2>1. \A i \in DOMAIN ms : a[i] <= p + 1 <=> i <= n
    BY <1>2, <1>6, NotBegun
  <2>2. KnownAs(name) # Entry
    BY <1>1, <1>6, StartIs, KnownIs
  <2>3. r.head = l.head
    BY <1>3, <2>2
  <2>4. n # 0 => RowOf(cs, ms[n], a[n], p + 1) = RowOf(cs, ms[n], a[n], p)
    <3> SUFFICES ASSUME n # 0 PROVE RowOf(cs, ms[n], a[n], p + 1) = RowOf(cs, ms[n], a[n], p)
      OBVIOUS
    <3>1. n \in DOMAIN ms
      BY <1>1
    <3>2. a[n] \in Nat /\ a[n] <= p
      BY <1>1, <1>2, <3>1, ListPlaces
    <3>3. \A c \in Range(Columns) : ~ColumnText(cs, p + 1, c)
      BY DEF ColumnText
    <3> QED
      BY <1>1, <3>2, <3>3, RowStays
  <2>5. ListHas(cs, ms, a, p + 1, r)
    BY <1>2, <1>3, <2>1, <2>3, <2>4 DEF ListHas
  <2> QED
    BY <2>5 DEF r
<1> QED
  BY <1>5, <1>6

\* A call that changes no row.
LEMMA ListStays ==
  ASSUME NEW cs, NEW ms, NEW a, NEW z, Lists(cs, ms, a, z), NEW p \in 0 .. Len(cs) - 1,
         NEW l, ListHas(cs, ms, a, p, l), cs[p + 1].call # "start",
         \A c \in Range(Columns) : ~ColumnText(cs, p + 1, c),
         NEW r, r = [curelt |-> r.curelt, head |-> l.head]
  PROVE  ListHas(cs, ms, a, p + 1, r)
<1>1. /\ Len(cs) \in Nat /\ Len(ms) \in Nat /\ DOMAIN ms = 1 .. Len(ms) /\ p \in Nat
  BY ListPlaces
<1>2. PICK n \in 0 .. Len(ms) :
        /\ \A i \in DOMAIN ms : a[i] <= p <=> i <= n
        /\ l.head = IF n = 0 THEN <<>> ELSE <<RowOf(cs, ms[n], a[n], p)>> \o Earlier(ms, n - 1)
  BY DEF ListHas
<1>3. \A i \in DOMAIN ms : a[i] <= p + 1 <=> i <= n
  BY <1>2, NotBegun
<1>4. r.head = l.head
  OBVIOUS
<1>5. n # 0 => RowOf(cs, ms[n], a[n], p + 1) = RowOf(cs, ms[n], a[n], p)
  <2> SUFFICES ASSUME n # 0 PROVE RowOf(cs, ms[n], a[n], p + 1) = RowOf(cs, ms[n], a[n], p)
    OBVIOUS
  <2>1. n \in DOMAIN ms
    BY <1>1
  <2>2. a[n] \in Nat /\ a[n] <= p
    BY <1>1, <1>2, <2>1, ListPlaces
  <2> QED
    BY <1>1, <2>2, RowStays
<1>6. r = [curelt |-> r.curelt, head |-> r.head]
  BY <1>4
<1> QED
  BY <1>2, <1>3, <1>4, <1>5, <1>6 DEF ListHas

\* The text of a column is put into the row of the mapping it is in.
LEMMA ListColumn ==
  ASSUME NEW cs, NEW ms, NEW a, NEW z, Lists(cs, ms, a, z), NEW p \in 1 .. Len(cs) - 1,
         NEW l, ListHas(cs, ms, a, p, l), cs[p + 1].call = "data", cs[p].call = "start",
         NEW c \in Range(Columns), cs[p].part = <<"New", c>>
  PROVE  ListHas(cs, ms, a, p + 1, ListingData(l, cs[p + 1].part))
<1> DEFINE v == cs[p + 1].part
           r == ListingData(l, v)
<1>1. /\ Len(cs) \in Nat /\ DOMAIN cs = 1 .. Len(cs) /\ Len(ms) \in Nat /\ DOMAIN ms = 1 .. Len(ms)
      /\ p \in Nat /\ p \in DOMAIN cs /\ p \in 0 .. Len(cs) - 1 /\ cs[p] \in CallRecords
      /\ ms \in Seq(Mappings)
  BY ListPlaces DEF Lists
<1>a. p > 0 /\ KnownAs(cs[p].part) = <<"New", c>>
  <2>1. p > 0
    BY <1>1
  <2> QED
    BY <2>1, KnownIs, Zenon
<1>b. PICK n \in 0 .. Len(ms) :
        /\ \A i \in DOMAIN ms : a[i] <= p <=> i <= n
        /\ l.head = IF n = 0 THEN <<>> ELSE <<RowOf(cs, ms[n], a[n], p)>> \o Earlier(ms, n - 1)
        /\ p > 0 /\ cs[p].call = "start" => l.curelt = KnownAs(cs[p].part)
        /\ l = [curelt |-> l.curelt, head |-> l.head]
  BY Zenon DEF ListHas
<1>2. /\ \A i \in DOMAIN ms : a[i] <= p <=> i <= n
      /\ l.head = IF n = 0 THEN <<>> ELSE <<RowOf(cs, ms[n], a[n], p)>> \o Earlier(ms, n - 1)
      /\ l.curelt = <<"New", c>>
      /\ l = [curelt |-> l.curelt, head |-> l.head]
  BY <1>a, <1>b, Zenon
<1>3. PICK i \in DOMAIN ms : a[i] < p /\ p < z[i]
  BY <1>1, StartIs, KnownIs
<1>4. i = n
  <2>1. a[i] \in Nat /\ z[i] \in Nat /\ i <= n
    BY <1>1, <1>2, <1>3, ListPlaces, SMTT(30)
  <2>2. CASE i < n
    <3>1. n \in DOMAIN ms
      BY <1>1, <2>2
    <3>2. z[i] < a[n] /\ a[n] \in Nat
      BY <2>2, <3>1, ListPlaces
    <3>3. a[n] <= p
      BY <1>1, <1>2, <3>1
    <3> QED
      BY <1>1, <1>3, <2>1, <3>2, <3>3
  <2> QED
    BY <1>1, <2>1, <2>2
<1>5. \A b \in Range(Columns) : ColumnText(cs, p + 1, b) <=> b = c
  <2>1. cs[p] = [call |-> "start", part |-> <<"New", c>>]
    BY <1>1 DEF CallRecords
  <2>2. \A b : cs[p] = [call |-> "start", part |-> <<"New", b>>] <=> b = c
    BY <2>1
  <2>3. (p + 1) - 1 = p /\ p + 1 > 1
    BY <1>1
  <2> QED
    BY <2>2, <2>3 DEF ColumnText
<1>6. Held(c, v) = ms[n][c]
  <2>1. GivesMapping(cs, ms[n], a[n], z[n])
    BY <1>4 DEF Lists, Mapping
  <2>2. a[n] \in Nat /\ z[n] \in Nat /\ cs[z[n]].call = "end"
    BY <1>4, ListPlaces
  <2>3. z[n] # p + 1
    BY <2>2
  <2>4. p + 1 \in a[n] + 1 .. z[n] - 1
    BY <1>1, <1>3, <1>4, <2>2, <2>3
  <2> QED
    BY <1>5, <2>1, <2>4 DEF GivesMapping
<1> DEFINE row == RowOf(cs, ms[n], a[n], p)
           rest == Earlier(ms, n - 1)
<1>7. l.head = <<row>> \o rest /\ n # 0 /\ rest \in Seq(Mappings) /\ n \in Nat
  <2>1. n # 0 /\ n - 1 \in 0 .. Len(ms)
    BY <1>1, <1>4
  <2> QED
    BY <1>1, <1>2, <2>1, EarlierGrows
<1>8. RowOf(cs, ms[n], a[n], p + 1) = Put(row, c, Held(c, v))
  <2>1. PICK b, m : b = a[n] /\ m = ms[n] /\ b \in Nat /\ b <= p
    BY <1>1, <1>3, <1>4, ListPlaces
  <2>2. Comes(cs, m, b, p, c)
    BY <1>1, <1>5, <2>1 DEF Comes
  <2>3. Came(cs, m, b, p, c)
    BY <2>2, RowGrows
  <2> QED
    BY <1>6, <2>1, <2>3 DEF Came
<1> HIDE DEF row, rest
<1>9. l.head # <<>> /\ [l.head EXCEPT ![1][c] = Held(c, v)] = <<Put(row, c, Held(c, v))>> \o rest
  <2>1. PICK e, k : e = Held(c, v) /\ k = [<<row>> \o rest EXCEPT ![1][c] = e]
    OBVIOUS
  <2>2. rest \in Seq(Mappings)
    BY <1>7
  <2>3. Changed(row, rest, c, e, k)
    BY <2>1, <2>2, HeadChanged
  <2> QED
    BY <1>7, <2>1, <2>3 DEF Changed
<1>10. l.curelt \notin {<<>>, Entry} /\ l.curelt[2] = c
  BY <1>2, KnownIs
<1>11. r = [l EXCEPT !.head[1][c] = Held(c, v)]
  BY <1>9, <1>10 DEF ListingData
<1>12. r.head = [l.head EXCEPT ![1][c] = Held(c, v)] /\ r = [curelt |-> r.curelt, head |-> r.head]
  BY <1>2, <1>11
<1> HIDE DEF r
<1>13. r.head = <<RowOf(cs, ms[n], a[n], p + 1)>> \o Earlier(ms, n - 1)
  BY <1>8, <1>9, <1>12 DEF rest
<1>14. \A j \in DOMAIN ms : a[j] <= p + 1 <=> j <= n
  BY <1>1, <1>2, NotBegun
<1>15. ListHas(cs, ms, a, p + 1, r)
  BY <1>7, <1>12, <1>13, <1>14 DEF ListHas
<1> QED
  BY <1>15 DEF r

\* The list, one call further.
LEMMA ListGrows ==
  ASSUME NEW cs, NEW ms, NEW a, NEW z, Lists(cs, ms, a, z), NEW p \in 0 .. Len(cs) - 1,
         NEW l, ListHas(cs, ms, a, p, l)
  PROVE  ListHas(cs, ms, a, p + 1, ListingCall(l, cs[p + 1]))
<1> DEFINE c == cs[p + 1]
           r == ListingCall(l, c)
<1>1. /\ Len(cs) \in Nat /\ DOMAIN cs = 1 .. Len(cs) /\ p \in Nat
      /\ p + 1 \in DOMAIN cs /\ c \in CallRecords
  BY ListPlaces DEF Lists
<1>2. l = [curelt |-> l.curelt, head |-> l.head]
  BY DEF ListHas
<1>3. CASE c.call = "start"
  <2>1. r = ListingStart(l, c.part)
    BY <1>3 DEF ListingCall
  <2> QED
    BY <1>3, <2>1, ListStart
<1>4. CASE c.call = "end"
  <2>1. r = ListingEnd(l)
    BY <1>4 DEF ListingCall
  <2>2. r = [curelt |-> r.curelt, head |-> l.head]
    BY <1>2, <2>1 DEF ListingEnd
  <2>3. \A b \in Range(Columns) : ~ColumnText(cs, p + 1, b)
    BY <1>4 DEF ColumnText
  <2>4. c.call # "start"
    BY <1>4
  <2> HIDE DEF r
  <2>5. ListHas(cs, ms, a, p + 1, r)
    BY <2>2, <2>3, <2>4, ListStays
  <2> QED
    BY <2>5 DEF r
<1>5. CASE c.call = "data"
  <2>1. r = ListingData(l, c.part)
    BY <1>5 DEF ListingCall
  <2>2. p + 1 > 1 /\ cs[(p + 1) - 1].call = "start"
    BY <1>1, <1>5 DEF Lists, Mapping
  <2>3. p \in 1 .. Len(cs) - 1 /\ p \in DOMAIN cs /\ cs[p].call = "start" /\ p > 0
    BY <1>1, <2>2
  <2>4. CASE \E b \in Range(Columns) : cs[p].part = <<"New", b>>
    BY <1>5, <2>1, <2>3, <2>4, ListColumn
  <2>5. CASE cs[p].part = Entry \/ OtherName(cs[p].part)
    <3>1. \A b \in Range(Columns) : cs[p].part # <<"New", b>>
      BY <2>5, KnownIs
    <3>2. \A b \in Range(Columns) : ~ColumnText(cs, p + 1, b)
      <4>1. (p + 1) - 1 = p
        BY <1>1
      <4>2. \A b : cs[p] = [call |-> "start", part |-> <<"New", b>>] => cs[p].part = <<"New", b>>
        OBVIOUS
      <4> QED
        BY <3>1, <4>1, <4>2 DEF ColumnText
    <3>3. KnownAs(cs[p].part) \in {<<>>, Entry}
      BY <2>5, KnownIs
    <3>4. l.curelt = KnownAs(cs[p].part)
      BY <2>3, Zenon DEF ListHas
    <3>5. r = l
      BY <2>1, <3>3, <3>4 DEF ListingData
    <3>6. r = [curelt |-> r.curelt, head |-> l.head] /\ c.call # "start"
      BY <1>2, <1>5, <3>5
    <3> HIDE DEF r
    <3>7. ListHas(cs, ms, a, p + 1, r)
      BY <3>2, <3>6, ListStays
    <3> QED
      BY <3>7 DEF r
  <2> QED
    BY <2>3, <2>4, <2>5, StartIs
<1> QED
  BY <1>1, <1>3, <1>4, <1>5 DEF CallRecords

LEMMA ListStarts ==
  ASSUME NEW cs, NEW ms, NEW a, NEW z, Lists(cs, ms, a, z)
  PROVE  ListHas(cs, ms, a, 0, NoListing)
<1>1. Len(ms) \in Nat /\ DOMAIN ms = 1 .. Len(ms) /\ \A i \in DOMAIN ms : a[i] \in 1 .. Len(cs)
      /\ Len(cs) \in Nat
  BY ListPlaces
<1>2. \A i \in DOMAIN ms : ~(a[i] <= 0) /\ ~(i <= 0)
  BY <1>1
<1>3. NoListing.head = <<>> /\ NoListing = [curelt |-> NoListing.curelt, head |-> NoListing.head]
  BY DEF NoListing
<1>4. 0 \in 0 .. Len(ms) /\ ~(0 > 0)
  BY <1>1
<1> QED
  BY <1>2, <1>3, <1>4 DEF ListHas

\* Behind the last call all the mappings are in the list, the last one first.
LEMMA ListEnds ==
  ASSUME NEW cs, NEW ms, NEW a, NEW z, Lists(cs, ms, a, z), NEW l, ListHas(cs, ms, a, Len(cs), l)
  PROVE  l.head = Reverse(ms)
<1>1. /\ Len(ms) \in Nat /\ DOMAIN ms = 1 .. Len(ms) /\ Len(cs) \in Nat
      /\ \A i \in DOMAIN ms : a[i] \in 1 .. Len(cs) /\ z[i] \in 1 .. Len(cs)
  BY ListPlaces
<1>2. PICK n \in 0 .. Len(ms) :
        /\ \A i \in DOMAIN ms : a[i] <= Len(cs) <=> i <= n
        /\ l.head = IF n = 0 THEN <<>> ELSE <<RowOf(cs, ms[n], a[n], Len(cs))>> \o Earlier(ms, n - 1)
  BY DEF ListHas
<1>3. n = Len(ms)
  <2>1. Len(ms) \in DOMAIN ms => a[Len(ms)] <= Len(cs)
    BY <1>1
  <2>2. Len(ms) \in DOMAIN ms => Len(ms) <= n
    BY <1>2, <2>1
  <2>3. Len(ms) = 0 \/ Len(ms) \in DOMAIN ms
    BY <1>1
  <2>4. PICK m : m = Len(ms) /\ m \in Nat /\ n \in 0 .. m
    BY <1>1
  <2>5. n = m
    BY <2>2, <2>3, <2>4
  <2> QED
    BY <2>4, <2>5
<1>4. ms \in Seq(Mappings)
  BY DEF Lists
<1>5. CASE n = 0
  <2>1. Earlier(ms, 0) = <<>> /\ Earlier(ms, Len(ms)) = Reverse(ms)
    BY <1>4, EarlierGrows
  <2> QED
    BY <1>2, <1>3, <1>5, <2>1
<1>6. CASE n # 0
  <2>1. n \in DOMAIN ms /\ n - 1 \in 0 .. Len(ms) - 1 /\ (n - 1) + 1 = n /\ z[n] <= Len(cs)
    BY <1>1, <1>3, <1>6
  <2>2. RowOf(cs, ms[n], a[n], Len(cs)) = ms[n]
    BY <1>1, <2>1, RowWhole
  <2>3. Earlier(ms, (n - 1) + 1) = <<ms[(n - 1) + 1]>> \o Earlier(ms, n - 1)
    BY <1>4, <2>1, EarlierGrows
  <2>4. Earlier(ms, Len(ms)) = Reverse(ms)
    BY <1>4, EarlierGrows
  <2> QED
    BY <1>2, <1>3, <1>6, <2>1, <2>2, <2>3, <2>4
<1> QED
  BY <1>5, <1>6

-----------------------------------------------------------------------------
\* The mappings of a reply are laid out in its listing, which is the value of its
\* element and a document of its own.
AllMapped ==
  \A d \in Replies : Mapped(d) /\ \E f : LaidOut(d.listed.text, d.listed.calls, f, TRUE)

\* What a reply has for its listing: the listing or, from the cut, a blank text.
ListingFits ==
  \/ reply.portListing \in {<<>>, doc.listed.text}
  \/ phase = "done" /\ IsBlank(reply.portListing)

\* The listing is read as it is laid out.
ListingInHand ==
  /\ text = doc.listed.text
  /\ \E f : LaidAs(doc.listed.calls, f) /\ Read(doc.listed.calls, f)
  /\ \E a, z : /\ Lists(doc.listed.calls, doc.mappings, a, z)
               /\ ListHas(doc.listed.calls, doc.mappings, a, Len(calls), listing)

\* In a blank text there is nothing to call for.
NothingInHand ==
  IsBlank(text) /\ phase \in {"out", "done"} /\ calls = <<>> /\ listing = NoListing

ListingIs ==
  /\ stage \notin {"listing", "over"} => ret = "none" /\ listing = NoListing
  /\ stage = "reply" => ListingFits
  /\ stage = "listing" =>
       /\ doc \in Replies /\ Whole /\ text = reply.portListing
       /\ ListingInHand \/ NothingInHand
  /\ ListingWhole

LEMMA ListedTyped ==
  ASSUME AllMapped, NEW d \in Replies
  PROVE  /\ d.listed.text \in Seq(STRING) /\ d.listed.calls \in Seq(CallRecords)
         /\ \E a, z : Lists(d.listed.calls, d.mappings, a, z)
         /\ \E f : LaidOut(d.listed.text, d.listed.calls, f, TRUE)
         /\ \A k \in DOMAIN d.calls : TextOf(d, k, "NewPortListing") => d.calls[k].part = d.listed.text
<1> USE DEF AllMapped
<1>1. PICK cs : cs = d.listed.calls
  OBVIOUS
<1>2. Mapped(d)
  OBVIOUS
<1>3. cs \in Seq(CallRecords) /\ d.listed.text \in Seq(STRING) /\ d.mappings \in Seq(Mappings)
  BY <1>1, <1>2 DEF Mapped, CallRecords
<1>4. PICK a, z \in [DOMAIN d.mappings -> DOMAIN cs] : Mapping(cs, d.mappings, a, z)
  BY <1>1, <1>2 DEF Mapped
<1>5. Lists(cs, d.mappings, a, z)
  BY <1>3, <1>4 DEF Lists
<1>6. \A k \in DOMAIN d.calls : TextOf(d, k, "NewPortListing") => d.calls[k].part = d.listed.text
  BY <1>2 DEF Mapped
<1> QED
  BY <1>1, <1>3, <1>5, <1>6

\* The value of the listing's element is the listing; that of another is put elsewhere.
LEMMA FitsOn ==
  ASSUME AllPaired, AllMapped, ParserTypeOK, InHand, ReplyOK, ReplyIs, stage = "reply",
         ListingFits, ReadReply
  PROVE  ListingFits'
<1>1. /\ Parse /\ doc' = doc /\ phase # "done"
      /\ reply' = IF calls' = calls THEN reply ELSE ReplyCall(reply, Last(calls'))
  BY Shapes DEF ReadReply, StepShape
<1>2. doc \in Replies /\ reply.portListing \in {<<>>, doc.listed.text}
  BY <1>1 DEF ReplyIs, ListingFits
<1>3. doc.pairs \in Seq(PairRecords) /\ doc.calls \in Seq(CallRecords)
  BY <1>2, DocumentsAssumption DEF AllPaired, Paired, PairRecords, CallRecords
<1>4. PICK w \in [DOMAIN doc.pairs -> DOMAIN doc.calls] :
        Pairing(doc, w) /\ ReplyHas(doc, w, Len(calls), reply)
  BY <1>1 DEF ReplyIs
<1>5. calls' = calls \/ OneCall(doc.calls)
  BY <1>1, CallComes
<1>6. reply \in ReplyRecords /\ Len(calls) \in Nat
  BY LenProperties DEF ReplyOK, ParserTypeOK
<1>7. CASE calls' = calls
  BY <1>1, <1>2, <1>7 DEF ListingFits
<1> DEFINE c == Last(calls')
<1>8. ASSUME calls' # calls PROVE c \in CallRecords /\ c.call # "end"
  BY <1>1, <1>8, LastCall DEF ReplyOK
<1> HIDE DEF c
<1>9. CASE calls' # calls /\ c.call = "start"
  <2>1. reply'.portListing = reply.portListing
    BY <1>1, <1>6, <1>9 DEF ReplyCall, ReplyRecords, c
  <2> QED
    BY <1>1, <1>2, <2>1 DEF ListingFits
<1>10. CASE calls' # calls /\ c.call = "data"
  <2>1. reply' = NameValueParserGetData(reply, c.part)
    BY <1>1, <1>10 DEF ReplyCall, c
  <2>2. CASE reply.curelt # Element("NewPortListing")
    <3>1. reply'.portListing = reply.portListing
      BY <1>6, <2>1, <2>2 DEF NameValueParserGetData, ReplyRecords
    <3> QED
      BY <1>1, <1>2, <3>1 DEF ListingFits
  <2>3. CASE reply.curelt = Element("NewPortListing")
    <3>1. reply'.portListing = c.part
      BY <1>6, <2>1, <2>3 DEF NameValueParserGetData, ReplyRecords
    <3>2. CASE /\ Len(calls') = Len(calls) + 1 /\ Len(calls') \in DOMAIN doc.calls
               /\ c = doc.calls[Len(calls')]
      <4> DEFINE p == Len(calls)
      <4>1. /\ p + 1 \in DOMAIN doc.calls /\ c = doc.calls[p + 1] /\ p \in Nat
            /\ DOMAIN doc.calls = 1 .. Len(doc.calls) /\ Len(doc.calls) \in Nat
        BY <1>3, <1>6, <3>2, LenProperties
      <4>2. \/ \E i \in DOMAIN doc.pairs : w[i] = p + 1
            \/ p + 1 > 1 /\ doc.calls[(p + 1) - 1] = [call |-> "start", part |-> Element("NewPortListing")]
        BY <1>4, <1>10, <4>1 DEF Pairing
      <4>3. CASE \E i \in DOMAIN doc.pairs : w[i] = p + 1
        <5>1. PICK i \in DOMAIN doc.pairs : w[i] = p + 1
          BY <4>3
        <5>2. /\ p + 1 > 1 /\ doc.calls[(p + 1) - 1] = [call |-> "start", part |-> doc.pairs[i].name]
              /\ Len(doc.pairs[i].name) <= ValueMax /\ doc.pairs[i].name # Element("NewPortListing")
          BY <1>4, <5>1 DEF Pairing
        <5>3. p > 0 /\ (p + 1) - 1 = p /\ p \in DOMAIN doc.calls
          BY <4>1, <5>2
        <5>4. doc.calls[p].call = "start" /\ doc.calls[p].part = doc.pairs[i].name
              /\ doc.calls[p] \in CallRecords
          BY <1>3, <5>2, <5>3
        <5>5. reply.curelt = Capped(doc.calls[p].part, ValueMax)
          BY <1>4, <5>3, <5>4 DEF ReplyHas
        <5>6. Capped(doc.calls[p].part, ValueMax) = doc.calls[p].part
          BY <5>2, <5>4, CappedShort DEF CallRecords
        <5> QED
          BY <2>3, <5>2, <5>4, <5>5, <5>6
      <4>4. CASE p + 1 > 1 /\ doc.calls[(p + 1) - 1] = [call |-> "start", part |-> Element("NewPortListing")]
        <5>1. TextOf(doc, p + 1, "NewPortListing")
          BY <1>10, <4>1, <4>4 DEF TextOf
        <5>2. c.part = doc.listed.text
          BY <1>2, <4>1, <5>1, ListedTyped
        <5> QED
          BY <1>1, <3>1, <5>2 DEF ListingFits
      <4> QED
        BY <4>2, <4>3, <4>4
    <3>3. CASE phase' = "done" /\ IsBlank(c.part)
      BY <3>1, <3>3 DEF ListingFits
    <3> QED
      BY <1>5, <1>10, <3>2, <3>3 DEF OneCall, c
  <2> QED
    BY <2>2, <2>3
<1> QED
  BY <1>7, <1>8, <1>9, <1>10 DEF CallRecords

LEMMA OnlyBlanks ==
  ASSUME NEW t \in Seq(STRING), IsBlank(t), NEW i \in 1 .. Len(t)
  PROVE  t[i] = Space /\ t[i] # "<"
<1>1. DOMAIN t = 1 .. Len(t)
  BY LenProperties
<1>2. t[i] \in ToSet(t)
  BY <1>1 DEF ToSet
<1>3. t[i] = Space
  BY <1>2 DEF IsBlank
<1>4. Space # "<"
  BY DEF Space
<1> QED
  BY <1>3, <1>4

LEMMA ListingBegins ==
  ASSUME AllMapped, ReplyIs, ReplyOK, ListingIs, Replied
  PROVE  ListingIs'
<1> USE DEF Goto
<1>1. /\ stage = "reply" /\ phase = "done" /\ doc' = doc /\ reply' = reply /\ listing' = listing
      /\ doc \in Replies /\ listing = NoListing /\ ListingFits
  BY DEF Replied, ReplyIs, ListingIs
<1>2. CASE reply.portListing = <<>>
  <2>1. stage' = "over"
    BY <1>2 DEF Replied
  <2>2. listing'.head = <<>> /\ IsBlank(reply'.portListing)
    BY <1>1, <1>2 DEF NoListing, IsBlank, ToSet
  <2> QED
    BY <2>1, <2>2 DEF ListingIs, ListingWhole
<1>3. CASE reply.portListing # <<>>
  <2> DEFINE t == reply.portListing
  <2>1. stage' = "listing" /\ ParserStarts(t, Len(t), TRUE)
    BY <1>3 DEF Replied
  <2>2. t \in Seq(STRING) /\ Len(t) \in Nat /\ Len(t) # 0
    BY <1>3, LenProperties, EmptySeq DEF ReplyOK, ReplyRecords
  <2>3. /\ text' = t /\ end' = Len(t) /\ calls' = <<>> /\ phase' \in {"out", "done"}
    BY <2>1 DEF ParserStarts
  <2>4. Whole' /\ text' = reply'.portListing
    BY <1>1, <2>3 DEF Whole
  <2>5. CASE t = doc.listed.text
    <3>1. PICK cs : cs = doc.listed.calls
      OBVIOUS
    <3>2. PICK a, z : Lists(cs, doc.mappings, a, z)
      BY <1>1, <3>1, ListedTyped
    <3>3. PICK f : LaidOut(t, cs, f, TRUE)
      BY <1>1, <2>5, <3>1, ListedTyped
    <3>4. cs \in Seq(CallRecords)
      BY <3>2 DEF Lists
    <3>5. Len(t) \in 0 .. Len(t)
      BY <2>2
    <3>6. LaidAs(cs, f)' /\ Read(cs, f)'
      <4>1. PICK u, n : u = t /\ n = Len(u)
        OBVIOUS
      <4>2. LaidOut(u, cs, f, TRUE) /\ u \in Seq(STRING) /\ n \in 0 .. Len(u) /\ ParserStarts(u, n, TRUE)
        BY <2>1, <2>2, <3>3, <3>5, <4>1
      <4> HIDE DEF t
      <4> QED
        BY <3>4, <4>2, ReadingBegins
    <3>7. ListHas(cs, doc.mappings, a, 0, NoListing) /\ Len(calls') = 0
      BY <2>3, <3>2, ListStarts
    <3>8. ListingInHand'
      BY <1>1, <2>3, <2>5, <3>1, <3>2, <3>6, <3>7 DEF ListingInHand
    <3> QED
      BY <1>1, <2>1, <2>4, <3>8 DEF ListingIs, ListingWhole
  <2>6. CASE IsBlank(t)
    <3>1. NothingInHand'
      BY <1>1, <2>3, <2>6 DEF NothingInHand
    <3> QED
      BY <1>1, <2>1, <2>4, <3>1 DEF ListingIs, ListingWhole
  <2> QED
    BY <1>1, <1>3, <2>5, <2>6 DEF ListingFits
<1> QED
  BY <1>2, <1>3

LEMMA ListingGoesOn ==
  ASSUME ParserTypeOK, ListingIs, ReadListing
  PROVE  ListingIs'
<1>1. /\ stage = "listing" /\ stage' = "listing" /\ Parse /\ doc' = doc /\ reply' = reply
      /\ listing' = IF calls' = calls THEN listing ELSE ListingCall(listing, Last(calls'))
      /\ doc \in Replies /\ Whole /\ text = reply.portListing
      /\ ListingInHand \/ NothingInHand
  BY DEF ReadListing, ListingIs
<1>2. phase # "done" /\ text' = text /\ end' = end
  BY <1>1, Shapes, TextStays DEF StepShape
<1>3. Whole' /\ text' = reply'.portListing
  BY <1>1, <1>2 DEF Whole
<1>4. CASE ListingInHand
  <2>1. PICK cs, ms : cs = doc.listed.calls /\ ms = doc.mappings
    OBVIOUS
  <2>2. PICK f : LaidAs(cs, f) /\ Read(cs, f)
    BY <1>4, <2>1 DEF ListingInHand
  <2>3. PICK a, z : Lists(cs, ms, a, z) /\ ListHas(cs, ms, a, Len(calls), listing)
    BY <1>4, <2>1 DEF ListingInHand
  <2>4. LaidAs(cs, f)' /\ Read(cs, f)'
    BY <1>1, <2>2, PlaceKept
  <2>5. calls' = calls \/ OneCall(cs)
    BY <1>1, <2>2, NextComes
  <2>6. ListHas(cs, ms, a, Len(calls'), listing')
    <3>1. CASE calls' = calls
      BY <1>1, <2>3, <3>1
    <3>2. CASE /\ calls' # calls /\ Len(calls') = Len(calls) + 1
               /\ Len(calls') \in DOMAIN cs /\ Last(calls') = cs[Len(calls')]
      <4> DEFINE p == Len(calls)
      <4>1. p \in Nat
        BY LenProperties DEF ParserTypeOK
      <4>2. p \in 0 .. Len(cs) - 1
        BY <2>3, <3>2, <4>1, ListPlaces
      <4>3. ListHas(cs, ms, a, p + 1, ListingCall(listing, cs[p + 1]))
        BY <2>3, <4>2, ListGrows
      <4>4. listing' = ListingCall(listing, cs[p + 1]) /\ Len(calls') = p + 1
        BY <1>1, <3>2
      <4> QED
        BY <4>3, <4>4
    <3> QED
      BY <1>3, <2>5, <3>1, <3>2 DEF OneCall
  <2>7. ListingInHand'
    <3>1. text' = doc'.listed.text
      BY <1>1, <1>2, <1>4 DEF ListingInHand
    <3>2. cs = doc'.listed.calls /\ ms = doc'.mappings
      BY <1>1, <2>1
    <3> QED
      BY <2>3, <2>4, <2>6, <3>1, <3>2 DEF ListingInHand
  <2> QED
    BY <1>1, <1>3, <2>7 DEF ListingIs, ListingWhole
<1>5. CASE NothingInHand
  <2>1. IsBlank(text) /\ phase = "out" /\ calls = <<>> /\ listing = NoListing
    BY <1>2, <1>5 DEF NothingInHand
  <2>2. text \in Seq(STRING) /\ at \in 1 .. Len(text)
    <3>1. PlaceOK
      BY Halves
    <3>2. Len(text) \in Nat /\ at \in 1 .. end /\ end \in 0 .. Len(text) /\ text \in Seq(STRING)
      BY <2>1, <3>1, LenProperties DEF PlaceOK, Untested
    <3> QED
      BY <3>2
  <2>3. Cur # "<"
    BY <2>1, <2>2, OnlyBlanks DEF Cur
  <2>4. Skip
    BY <1>1, <2>1, <2>3 DEF Parse, In, Skip, Tag, Name, Start, CloseTag, NoTag, CloseName, End,
       AttSpace, AttName, AttSign, AttGap, AttQuote, AttBare, AttValue, EmptyTag, OpenTag,
       Gap, Cdata, Plain, CdataText, CdataEnds, AfterCdata, Text, TextEnds,
       PastEnd, Untested
  <2>5. calls' = calls /\ phase' \in {"out", "done"}
    BY <2>4 DEF Skip, MoveBefore, Moves, Quiet
  <2>6. NothingInHand'
    BY <1>1, <1>2, <2>1, <2>5 DEF NothingInHand
  <2> QED
    BY <1>1, <1>3, <2>6 DEF ListingIs, ListingWhole
<1> QED
  BY <1>1, <1>4, <1>5

LEMMA ListingIsListed ==
  ASSUME ListingIs, Listed
  PROVE  ListingIs'
<1>1. /\ stage = "listing" /\ phase = "done" /\ stage' = "over" /\ doc' = doc
      /\ reply' = reply /\ ret' = ret /\ listing' = listing
      /\ Whole /\ text = reply.portListing
      /\ ListingInHand \/ NothingInHand
  BY DEF Listed, Goto, told, ListingIs
<1>2. CASE ListingInHand
  <2>1. PICK cs, ms : cs = doc.listed.calls /\ ms = doc.mappings
    OBVIOUS
  <2>2. PICK f : LaidAs(cs, f) /\ Read(cs, f)
    BY <1>2, <2>1 DEF ListingInHand
  <2>3. PICK a, z : Lists(cs, ms, a, z) /\ ListHas(cs, ms, a, Len(calls), listing)
    BY <1>2, <2>1 DEF ListingInHand
  <2>4. Len(calls) = Len(cs)
    <3>1. Stopped(text, cs, end, calls)
      BY <1>1, <2>2 DEF Read, Reading
    <3>2. Len(text) \in Nat /\ ~(end < Len(text)) /\ end = Len(text)
      BY <1>1, <2>2, LenProperties DEF Whole, LaidAs, Laid
    <3>3. calls = SubSeq(cs, 1, Len(cs))
      BY <3>1, <3>2 DEF Stopped
    <3>4. cs \in Seq(CallRecords) /\ Len(cs) \in Nat
      BY <2>3, LenProperties DEF Lists
    <3> QED
      BY <3>3, <3>4
  <2>5. listing.head = Reverse(ms)
    BY <2>3, <2>4, ListEnds
  <2> QED
    BY <1>1, <2>1, <2>5 DEF ListingIs, ListingWhole
<1>3. CASE NothingInHand
  <2>1. listing.head = <<>> /\ IsBlank(reply.portListing)
    BY <1>1, <1>3 DEF NothingInHand, NoListing
  <2> QED
    BY <1>1, <2>1 DEF ListingIs, ListingWhole
<1> QED
  BY <1>1, <1>2, <1>3

LEMMA ListingIsKept ==
  ASSUME AllPaired, AllMapped, Inside, InOrder, ReplyIs, ListingIs, [Next]_vars
  PROVE  ListingIs'
<1> USE DEF Goto
<1>1. CASE UNCHANGED vars \/ Ended
  <2>1. UNCHANGED <<parser, doc, stage, told>>
    BY <1>1 DEF Ended, vars
  <2>2. UNCHANGED <<text, end, at, phase, from, closes, calls, doc, stage, reply, ret, listing>>
    BY <2>1 DEF parser, told
  <2>3. Whole' = Whole /\ ListingFits' = ListingFits /\ ListingWhole' = ListingWhole
        /\ NothingInHand' = NothingInHand
    BY <2>2 DEF Whole, ListingFits, ListingWhole, NothingInHand
  <2>4. ListingInHand => ListingInHand'
    BY <2>2 DEF ListingInHand, LaidAs, Read
  <2> QED
    BY <2>2, <2>3, <2>4 DEF ListingIs
<1>2. CASE Call
  <2>1. /\ stage = "call" /\ stage' = "reply" /\ ret' = ret /\ listing' = listing /\ reply' = NoReply
    BY <1>2 DEF Call, told, ReplyIs
  <2>2. ListingFits'
    BY <2>1 DEF ListingFits, NoReply
  <2> QED
    BY <2>1, <2>2 DEF ListingIs, ListingWhole
<1>3. CASE ReadReply
  <2>1. stage = "reply" /\ stage' = "reply" /\ ret' = ret /\ listing' = listing /\ InHand
    BY <1>3 DEF ReadReply, InOrder
  <2>2. ListingFits'
    BY <1>3, <2>1, FitsOn DEF ListingIs, Inside
  <2> QED
    BY <2>1, <2>2 DEF ListingIs, ListingWhole
<1>4. CASE Replied
  BY <1>4, ListingBegins DEF Inside
<1>5. CASE ReadListing
  BY <1>5, ListingGoesOn DEF Inside
<1>6. CASE Listed
  BY <1>6, ListingIsListed
<1>7. CASE \/ Hear \/ BadUrl \/ Fetch \/ ReadDescription
           \/ TakeDevice \/ TakeSecond \/ PassOver
  <2>1. /\ stage \notin {"listing", "over"} /\ stage' \notin {"reply", "listing"}
        /\ ret' = ret /\ listing' = listing
    BY <1>7 DEF Hear, BadUrl, Fetch, ReadDescription, TakeDevice, TakeSecond, PassOver,
                Uses, Described, told
  <2> QED
    BY <2>1 DEF ListingIs, ListingWhole
<1> QED
  BY <1>1, <1>2, <1>3, <1>4, <1>5, <1>6, <1>7 DEF Next

\* A list of port mappings has all the mappings of the gateway, each with all its
\* fields, or there is none, however many there are and wherever the reply is cut
\* (UPNP_GetListOfPortMappings of upnpcommands.c, portlistingparse.c).
THEOREM MappingsAreWhole == AllLaid /\ AllPaired /\ AllMapped => (Spec => []ListingWhole)
<1> SUFFICES ASSUME AllLaid, AllPaired, AllMapped PROVE Spec => []ListingWhole
  OBVIOUS
<1>1. Init => ListingIs
  BY DEF Init, ListingIs, ListingWhole
<1>2. Inside /\ InOrder /\ ReplyIs /\ ListingIs /\ [Next]_vars => ListingIs'
  BY ListingIsKept
<1>3. ListingIs => ListingWhole
  BY DEF ListingIs
<1>4. Spec => []InOrder
  BY InOrderHolds
<1>5. Spec => []ReplyIs
  BY ReplyHolds
<1> QED
  BY <1>1, <1>2, <1>3, <1>4, <1>5, InsideHolds, PTL DEF Spec
=============================================================================
