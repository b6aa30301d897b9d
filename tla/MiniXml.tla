------------------------------ MODULE MiniXml ------------------------------
(***************************************************************************)
(* parsexml() of minixml.c: one walk over a buffer that may end anywhere,  *)
(* with a call back for each start of an element, each text that is        *)
(* followed by a closing tag, and each end.                                *)
(*                                                                         *)
(* The buffer is a sequence of symbols: a delimiter the parser looks for   *)
(* is a symbol, and so is each run of other characters.                    *)
(***************************************************************************)
EXTENDS Integers, Sequences

VARIABLES
  text,   \* the buffer
  end,    \* how many of its symbols there are, up to xmlend
  at,     \* p->xml
  phase,  \* which loop of parseelt() or parseatt() the parser is in
  from,   \* where the name, the text or the quoted value began
  closes, \* is there an endeltfunc
  calls   \* the calls made so far

parser == <<text, end, at, phase, from, closes, calls>>

-----------------------------------------------------------------------------
Space == " "
Quotes == {"'", "\""}
CdataStart == "![CDATA["
CdataEnd == "]]"   \* and ">" behind it

Cur == text[at]

\* The parser is in a loop, at a symbol that has arrived.
In(p) == phase = p /\ at <= end

\* The symbol that follows, which some comparisons read without a test: behind
\* xmlend there may be anything.
Followed(c) == IF at < end THEN text[at + 1] = c ELSE TRUE
NotFollowed(c) == at < end => text[at + 1] # c

\* The parser moves to n, and on to the loop p unless a test ends the walk there.
Moves(n, p, over) ==
  /\ at' = n /\ phase' = IF over THEN "done" ELSE p
  /\ UNCHANGED <<text, end, closes>>

MoveTo_OffByOne(n, p) == Moves(n, p, n > end + 1)

\* A loop ends with the buffer, one over text before its last character, one over
\* a section before the last three.
MoveTo(n, p) == Moves(n, p, n > end)
MoveBefore(n, p) == Moves(n, p, n >= end)
MoveWithin(n, p) == Moves(n, p, n + 1 >= end)

\* Three moves are without a test: behind a colon (line 130), an equal sign (60)
\* and the beginning of a section (154).
Untested == {"name", "attgap", "cdata"}
MoveOn(n, p) == Moves(n, p, FALSE)

Quiet == UNCHANGED <<from, calls>>
Began(n) == from' = n /\ UNCHANGED calls
Part == SubSeq(text, from, at - 1)
Emit(c) == calls' = Append(calls, [call |-> c, part |-> Part]) /\ UNCHANGED from

ParserIdle ==
  /\ text = <<>> /\ end = 0 /\ at = 1 /\ from = 1 /\ closes = TRUE
  /\ calls = <<>> /\ phase = "done"

\* parsexml() on the first n symbols of t.
ParserStarts(t, n, ends) ==
  /\ text' = t /\ end' = n /\ at' = 1 /\ from' = 1 /\ closes' = ends
  /\ calls' = <<>> /\ phase' = IF n > 1 THEN "out" ELSE "done"

-----------------------------------------------------------------------------
\* Lines 112-116 and 200-203.
Skip ==
  /\ In("out") /\ (Cur # "<" \/ text[at + 1] = "?")
  /\ MoveBefore(at + 1, "out") /\ Quiet

Tag ==
  /\ In("out") /\ Cur = "<" /\ text[at + 1] # "?"
  /\ MoveTo(at + 1, "name") /\ Began(at + 1)

\* Lines 117-130: a name starts anew behind a colon, "to ignore namespace".
NameEnds == Cur \in {Space, ">", "/"}

Name ==
  /\ In("name") /\ ~NameEnds
  /\ IF at < end /\ text[at + 1] = ":"
     THEN MoveOn(at + 2, "name") /\ Began(at + 2)
     ELSE MoveTo(at + 1, "name") /\ Quiet

\* Lines 131-136.
Start ==
  /\ In("name") /\ NameEnds /\ at > from
  /\ MoveTo(at, "att") /\ Emit("start")

\* Lines 184-188, or a nameless tag of no use.
CloseTag ==
  /\ In("name") /\ Cur = "/" /\ at = from
  /\ MoveTo(at + 1, "close") /\ Began(at + 1)

NoTag ==
  /\ In("name") /\ Cur \in {Space, ">"} /\ at = from
  /\ MoveBefore(at, "out") /\ Quiet

\* Lines 189-198.
CloseName ==
  /\ In("close") /\ Cur # ">"
  /\ MoveTo(at + 1, "close") /\ Quiet

End ==
  /\ In("close") /\ Cur = ">"
  /\ MoveBefore(at + 1, "out")
  /\ IF closes THEN Emit("end") ELSE Quiet

-----------------------------------------------------------------------------
\* parseatt(), lines 45-105; nobody asks for the attributes.
AttSpace ==
  /\ In("att") /\ Cur = Space
  /\ MoveTo(at + 1, "att") /\ Quiet

AttName ==
  /\ \/ In("att") /\ Cur \notin {Space, "/", ">", "="}
     \/ In("attname") /\ Cur \notin {Space, "="}
  /\ MoveTo(at + 1, "attname") /\ Quiet

\* All up to the next equal sign, wherever that is.
AttSign ==
  /\ In("attsign") \/ (In("attname") /\ Cur \in {Space, "="})
                   \/ (In("att") /\ Cur = "=")
  /\ IF Cur = "=" THEN MoveOn(at + 1, "attgap") ELSE MoveTo(at + 1, "attsign")
  /\ Quiet

AttGap ==
  /\ In("attgap") /\ Cur = Space
  /\ MoveTo(at + 1, "attgap") /\ Quiet

AttQuote ==
  /\ In("attgap") /\ Cur \in Quotes
  /\ MoveTo(at + 1, "quoted") /\ Began(at + 1)

\* What ends a value without quotes is skipped with it.
AttBare ==
  /\ \/ In("attgap") /\ Cur \notin Quotes \cup {Space}
     \/ In("bare")
  /\ MoveTo(at + 1, IF Cur \in {Space, ">", "/"} THEN "att" ELSE "bare") /\ Quiet

AttValue_AnyQuote ==
  /\ In("quoted")
  /\ MoveTo(at + 1, IF Cur \in {"/", ">"} \cup Quotes THEN "att" ELSE "quoted") /\ Quiet

AttValue ==
  /\ In("quoted")
  /\ MoveTo(at + 1, IF Cur = text[from - 1] THEN "att" ELSE "quoted") /\ Quiet

\* Line 137: the tag is closed at once and has no content, or is open.
EmptyTag ==
  /\ In("att") /\ Cur = "/"
  /\ MoveBefore(at, "out") /\ Quiet

OpenTag ==
  /\ In("att") /\ Cur = ">"
  /\ MoveTo(at + 1, "gap") /\ Began(at + 1)

-----------------------------------------------------------------------------
\* Lines 139-148: white space, and what the content is.
Gap ==
  /\ In("gap") /\ Cur = Space
  /\ MoveTo(at + 1, "gap") /\ Quiet

Cdata ==
  /\ In("gap") /\ Cur = "<" /\ Followed(CdataStart)
  /\ MoveOn(at + 2, "cdata") /\ Began(at + 2)

Plain ==
  /\ In("gap") /\ Cur # Space /\ (Cur = "<" => NotFollowed(CdataStart))
  /\ MoveTo(at, "data") /\ Quiet

\* Lines 150-168.
CdataText ==
  /\ In("cdata") /\ (Cur = CdataEnd => NotFollowed(">"))
  /\ MoveWithin(at + 1, "cdata") /\ Quiet

CdataEnds ==
  /\ In("cdata") /\ Cur = CdataEnd /\ Followed(">")
  /\ MoveTo(at, "tail") /\ IF at > from THEN Emit("data") ELSE Quiet

AfterCdata ==
  /\ In("tail")
  /\ IF Cur = "<" THEN MoveBefore(at, "out") ELSE MoveTo(at + 1, "tail")
  /\ Quiet

\* Lines 170-181.
Text ==
  /\ In("data") /\ Cur # "<"
  /\ MoveBefore(at + 1, "data") /\ Quiet

TextEnds ==
  /\ In("data") /\ Cur = "<"
  /\ MoveBefore(at, "out")
  /\ \/ at > from /\ Followed("/") /\ Emit("data")
     \/ (at = from \/ NotFollowed("/")) /\ Quiet

\* Behind the end after a move without a test, the parser reads there, and goes
\* on to the next test, which ends the walk: whatever it has read, the name is
\* empty, the value is none that anybody asks for, the section has no text.
PastEnd ==
  /\ phase \in Untested /\ at > end
  /\ MoveTo(at, "done") /\ Quiet

Parse ==
  \/ Skip \/ Tag \/ Name \/ Start \/ CloseTag \/ NoTag \/ CloseName \/ End
  \/ AttSpace \/ AttName \/ AttSign \/ AttGap \/ AttQuote \/ AttBare \/ AttValue
  \/ EmptyTag \/ OpenTag
  \/ Gap \/ Cdata \/ Plain \/ CdataText \/ CdataEnds \/ AfterCdata \/ Text \/ TextEnds
  \/ PastEnd

-----------------------------------------------------------------------------
ParserTypeOK ==
  /\ text \in Seq(STRING) /\ end \in 0 .. Len(text)
  /\ at \in 1 .. end + 2 /\ from \in 1 .. end + 2 /\ closes \in BOOLEAN
  /\ phase \in {"out", "name", "close", "att", "attname", "attsign", "attgap",
                "quoted", "bare", "gap", "cdata", "tail", "data", "done"}
  /\ phase # "done" /\ at > end => phase \in Untested
  /\ calls \in Seq([call : {"start", "data", "end"}, part : Seq(STRING)])
=============================================================================
