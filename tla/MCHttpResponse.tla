--------------------------- MODULE MCHttpResponse ---------------------------
(***************************************************************************)
(* HttpResponse on answers of each framing, delivered in segments of every *)
(* size up to the whole answer and cut off at every point.                 *)
(***************************************************************************)
EXTENDS HttpResponse, SequencesExt

Head1 == <<"h", CR, LF, CR, LF>>
Head2 == <<"h", LF, LF>>
Crlf == <<CR, LF>>

\* An answer that is sent in one piece.
Whole(f, n, h, b) ==
  [framing |-> f, length |-> n, body |-> b, stream |-> h \o b,
   head |-> Len(h), chunks |-> <<>>]

\* An answer in chunks, each with its digits, its extension and its data.
Chunk(c) == c[1] \o c[2] \o Crlf \o c[3] \o IF c[3] = <<>> THEN <<>> ELSE Crlf
LastChunk == <<<<"0">>, <<>>, <<>>>>
Chunked(h, parts) ==
  LET cs == Append(parts, LastChunk)
      before(k) == FlattenSeq([j \in 1 .. k |-> Chunk(cs[j])])
      data(k) == FlattenSeq([j \in 1 .. k |-> cs[j][3]])
      at(k) == Len(h) + Len(before(k - 1)) + 1
      ext(k) == at(k) + Len(cs[k][1])
  IN  [framing |-> "chunked", length |-> -1, body |-> data(Len(cs)),
       stream |-> h \o before(Len(cs)) \o Crlf, head |-> Len(h),
       chunks |-> [k \in DOMAIN cs |->
                     [at |-> at(k), ext |-> ext(k),
                      eol |-> ext(k) + Len(cs[k][2]),
                      size |-> Len(cs[k][3]), from |-> Len(data(k - 1))]]]

\* The data look like size lines on purpose.
Plainly ==
  {Whole("length", 3, h, <<"1", CR, LF>>) : h \in {Head1, Head2}}
  \cup {Whole("close", -1, Head1, <<"2", "z">>), Whole("length", 0, Head1, <<>>)}
InSeveral ==
  { Chunked(Head2, << <<<<"0", "2">>, <<>>, <<"1", "z">>>>,
                      <<<<"1">>, <<>>, <<LF>>>> >>),
    Chunked(Head1, << <<<<"2">>, <<";", "z">>, <<CR, "a">>>> >>),
    Chunked(Head2, << <<<<"1">>, <<CR, ";">>, <<"0">>>> >>),
    Chunked(Head1, <<>>) }
MCMessages == Plainly \cup InSeveral

WithExtension ==
  { Chunked(Head2, << <<<<"2">>, <<";", "a">>, <<"1", "z">>>> >>) }

\* What the proofs ask of the extensions holds of the first set only.
ASSUME ExtensionsAssumption ==
       /\ \A m \in MCMessages : PlainExtensions(m)
       /\ \A m \in WithExtension : ~PlainExtensions(m)
=============================================================================
