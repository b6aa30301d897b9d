----------------------------- MODULE MCDocuments -----------------------------
(***************************************************************************)
(* Small documents.  A document is made of items, each with its characters *)
(* and the call backs that are to be made for it, and with marks: where it *)
(* and its parts begin, and how many of its calls are made before.         *)
(***************************************************************************)
EXTENDS Documents

Marked(chars, cs, marks) == [chars |-> chars, calls |-> cs, marks |-> marks]
Made(chars, cs) == Marked(chars, cs, {<<0, 0>>})
Called(c, part) == [call |-> c, part |-> part]
Kinds == {"start", "data", "end"}

Chars(items) == FlattenSeq([i \in DOMAIN items |-> items[i].chars])
CallsOf(items) == FlattenSeq([i \in DOMAIN items |-> items[i].calls])

\* The marks of a document, of whose calls only those of some kinds are made.
Before(items, kinds) ==
  LET upto(i) == SubSeq(items, 1, i - 1)
      marks == UNION {{<<Len(Chars(upto(i))) + 1 + m[1], Len(CallsOf(upto(i))) + m[2]>> :
                         m \in items[i].marks} : i \in DOMAIN items}
               \cup {<<Len(Chars(items)) + 1, Len(CallsOf(items))>>}
      made(n) == Len(SelectSeq(SubSeq(CallsOf(items), 1, n), LAMBDA c : c.call \in kinds))
  IN  [b \in {m[1] : m \in marks} |-> made((CHOOSE m \in marks : m[1] = b)[2])]

\* The prefix p is written and left out of the calls.
Open(p, n) == Made(<<"<">> \o p \o n \o <<">">>, <<Called("start", n)>>)
Close(p, n) == Made(<<"<", "/">> \o p \o n \o <<">">>, <<Called("end", n)>>)
Around(open, v, close, n) ==
  Marked(open \o v \o close, <<Called("start", n), Called("data", v), Called("end", n)>>,
         {<<0, 0>>, <<Len(open \o v), 2>>})
Leaf(p, n, v) == Around(Open(p, n).chars, v, Close(p, n).chars, n)
AttLeaf(n, v) ==
  Around(<<"<">> \o n \o <<" ", "a", "=", "\"", "'", "/", "\"", ">">>, v, Close(<<>>, n).chars, n)
CdataLeaf(p, n, v) ==
  LET open == Open(p, n).chars \o <<" ", "<", CdataStart>> \o v \o <<CdataEnd, ">">>
      close == Close(p, n).chars
  IN  Marked(open \o close, Around(open, v, close, n).calls, {<<0, 0>>, <<Len(open), 2>>})
Void(n) == Marked(Open(<<>>, n).chars \o Close(<<>>, n).chars,
                  <<Called("start", n), Called("end", n)>>,
                  {<<0, 0>>, <<Len(Open(<<>>, n).chars), 1>>})
Empty(n) == Marked(<<"<">> \o n \o <<"/", ">">>, <<Called("start", n)>>,
                   {<<0, 0>>, <<Len(n) + 1, 1>>, <<Len(n) + 2, 1>>})
White == Made(<<" ">>, <<>>)
Prologue == Marked(<<"<", "?", "xml", " ", "v", "=", "'", "1", "'", "?", ">">>, <<>>,
                   (0 .. 10) \X {0})
Stray == Marked(<<"<", " ">>, <<>>, (0 .. 1) \X {0})
Root == Made(<<"<", "root", " ", "xmlns", "=", "\"", "urn", "\"", " ", "a", " ", "=", " ", "1", " ", ">">>,
             <<Called("start", <<"root">>)>>)

-----------------------------------------------------------------------------
Url(host, digits, path) ==
  <<Http>> \o host \o (IF digits = <<>> THEN <<>> ELSE <<":">> \o digits) \o path

Datagram(st, url, address, port, explicit) ==
  [text |-> <<"HTTP/1.1 200 OK", Eol, "st", ":", " ">> \o st
            \o <<Eol, "location", ":", " ">> \o url \o <<Eol, Eol>>,
   location |-> url, host |-> address, port |-> port, explicit |-> explicit]

St == <<"upnp", ":", "root">>
R == <<"r">>

\* With a port, without, an address in brackets, a bare host behind an empty type,
\* another scheme.
MCDatagrams ==
  { Datagram(St, Url(R, <<"8", "0", "8">>, <<"/", "d", ":", "x", "/", "y">>), R, 808, TRUE),
    Datagram(St, Url(R, <<>>, <<"/", "d", ":", "x", "/">>), R, 80, FALSE),
    Datagram(St, Url(<<"[", "fe", ":", ":", "1", "]">>, <<"8">>, <<"/", "d">>),
             <<"fe", ":", ":", "1">>, 8, FALSE),
    Datagram(<<>>, Url(R, <<>>, <<>>), R, 80, FALSE),
    Datagram(St, <<Https, "/">> \o R \o <<":", "4", "/", "d">>, R, 4, FALSE) }

\* What the theorem on the location assumes of them.
ASSUME DatagramsAssumption ==
  \A d \in MCDatagrams : GivesLocation(d) /\ NamesHost(d)

-----------------------------------------------------------------------------
Service(type, control, absolute) ==
  [serviceType |-> type, controlURL |-> control, eventSubURL |-> <<>>,
   SCPDURL |-> <<>>, absolute |-> absolute]

OfService(p, s) ==
  <<Open(p, <<"service">>), Leaf(p, <<"serviceType">>, s.serviceType)>>
  \o (IF s.controlURL = <<>> THEN <<Empty(<<"controlURL">>)>>
      ELSE <<Leaf(p, <<"controlURL">>, s.controlURL)>>)
  \o <<Close(p, <<"service">>)>>

Description(before, services, base, urlbase) ==
  LET items == before \o FlattenSeq([i \in DOMAIN services |-> OfService(<<>>, services[i])])
               \o <<Close(<<>>, <<"root">>)>>
  IN  [before |-> Before(items, Kinds),
       document |-> [text |-> Chars(items), calls |-> CallsOf(items), services |-> services,
                     base |-> base, urlbase |-> urlbase]]

Ip == <<"WANIPConnection">>
Ppp == <<"WANPPPConnection">>
Elsewhere == [host |-> <<"h">>, port |-> 9, path |-> <<"/", "p">>]

\* An element with a name that is too long for cureltname, but not for what lies
\* between it and the services.
Long == <<"l", "l", "l", "l", "l", "l", "l", "l">>

\* A gateway with two connection services behind a base without a slash, and a long
\* name in front of the base; one whose second service is overwritten, with a URL
\* that is too long and an absolute one; and a renderer.
LaidDescriptions ==
  { Description(<<Prologue, Root, Void(Long), AttLeaf(<<"URLBase">>, Url(<<"b">>, <<"7">>, <<>>))>>,
                <<Service(Cif, <<"/", "c">>, NoUrl), Service(Ppp, <<"p">>, NoUrl),
                  Service(Ip, <<>>, NoUrl)>>,
                [host |-> <<"b">>, port |-> 7, path |-> <<>>], Url(<<"b">>, <<"7">>, <<>>)),
    Description(<<Root, White, Void(<<"URLBase">>)>>,
                <<Service(Ip, Url(<<"h">>, <<"9">>, <<"/", "p">>), Elsewhere),
                  Service(Ppp, <<"x", "x", "x", "x", "x", "x", "x", "x">>, NoUrl),
                  Service(Ip, <<"z">>, NoUrl), Service(V6, <<"v">>, NoUrl)>>,
                NoUrl, <<>>),
    Description(<<Open(<<>>, <<"root">>), Stray>>,
                <<Service(Cif, <<>>, NoUrl), Service(<<"AVTransport">>, <<"t">>, NoUrl)>>, NoUrl, <<>>) }

MCDescriptions == {d.document : d \in LaidDescriptions}

\* The change log says that prefixes are ignored.
PrefixedDescriptions ==
  { LET s == Service(Cif, <<"c">>, NoUrl)
        items == OfService(<<"d", ":">>, s)
    IN  [text |-> Chars(items), calls |-> CallsOf(items), services |-> <<s>>,
         base |-> NoUrl, urlbase |-> <<>>] }

-----------------------------------------------------------------------------
U == <<"u", ":">>
P == <<"p", ":">>
Pair(n, v) == [name |-> <<n>>, value |-> v]

\* The end of an element is told with its prefix.
Prefixed(cs) ==
  [k \in DOMAIN cs |-> IF cs[k].call = "end" THEN [cs[k] EXCEPT !.part = P \o @] ELSE cs[k]]

\* A reply with some pairs and, if there is one, a listing behind them.
Reply(pairs, listed, mappings) ==
  LET items == <<Prologue, Open(<<"s", ":">>, <<"Body">>), White, Open(U, <<"R">>)>>
               \o [i \in DOMAIN pairs |-> Leaf(<<>>, pairs[i].name, pairs[i].value)]
               \o (IF listed = <<>> THEN <<>>
                   ELSE <<CdataLeaf(<<>>, <<"NewPortListing">>, Chars(listed))>>)
               \o <<Close(U, <<"R">>), Close(<<"s", ":">>, <<"Body">>)>>
  IN  [before |-> Before(items, Kinds \ {"end"}), listed |-> Before(listed, Kinds),
       document |-> [text |-> Chars(items),
                     calls |-> SelectSeq(CallsOf(items), LAMBDA c : c.call # "end"),
                     pairs |-> pairs, mappings |-> mappings,
                     listed |-> [text |-> Chars(listed), calls |-> Prefixed(CallsOf(listed))]]]

Column(c, v) == Leaf(P, <<"New", c>>, v)
Rows(rows) ==
  <<Open(P, <<"PortMapping", "List">>)>>
  \o FlattenSeq([i \in DOMAIN rows |->
        <<Open(P, Entry)>> \o rows[i] \o <<Close(P, Entry), White>>])
  \o <<Close(P, <<"PortMapping", "List">>)>>

\* Two mappings, the second without its first fields; no mapping; a refusal;
\* values that are repeated or too long.
LaidReplies ==
  { Reply(<<>>,
          Rows(<< <<Column("ExternalPort", <<"8", "0">>), Column("InternalPort", <<"8", "1">>),
                    Column("Enabled", <<"1">>)>>,
                  <<Column("InternalPort", <<"9">>), Column("Description", <<"x", "y", "z", "z">>)>> >>),
          <<[NoMapping EXCEPT !["ExternalPort"] = 80, !["InternalPort"] = 81, !["Enabled"] = 1],
            [NoMapping EXCEPT !["InternalPort"] = 9, !["Description"] = <<"x", "y", "z">>]>>),
    Reply(<<>>, Rows(<<>>), <<>>),
    Reply(<<Pair("errorCode", <<"7", "3", "0">>), Pair("errorDescription", <<"none">>)>>, <<>>, <<>>),
    Reply(<<Pair("NewStatus", <<"x">>), Pair("NewStatus", <<"x", "y", "z", "z">>)>>, <<>>, <<>>) }

MCReplies == {d.document : d \in LaidReplies}

-----------------------------------------------------------------------------
\* What the theorem on the services assumes of them.
Tags(cs, c, name) ==
  LET tags == {k \in DOMAIN cs : cs[k] = Called(c, name)}
  IN  [i \in 1 .. Cardinality(tags) |-> CHOOSE k \in tags : Cardinality({j \in tags : j < k}) = i - 1]

ASSUME ServicesAssumption ==
  \A d \in MCDescriptions :
    /\ d.services \in Seq(Services)
    /\ Serving(d, Tags(d.calls, "start", Element("service")), Tags(d.calls, "end", Element("service")))

\* What the theorem on the commands assumes of them besides.
ASSUME AddressesAssumption == \A d \in MCDescriptions : Addressed(d)

\* What the theorem on the values of a reply assumes of them.
ASSUME PairsAssumption == \A d \in MCReplies : Paired(d)

\* What the theorem on the mappings assumes of them.
ASSUME MappingsAssumption ==
  \A d \in MCReplies :
    LET cs == d.listed.calls
    IN  /\ d.mappings \in Seq(Mappings)
        /\ Mapping(cs, d.mappings, Tags(cs, "start", Entry), Tags(cs, "end", P \o Entry))
        /\ \A k \in DOMAIN d.calls :
             TextOf(d, k, "NewPortListing") => d.calls[k].part = d.listed.text

\* What the theorem on the calls assumes of them.
ASSUME LayoutAssumption ==
  /\ \A d \in LaidDescriptions : LaidOut(d.document.text, d.document.calls, d.before, TRUE)
  /\ \A d \in LaidReplies :
       /\ LaidOut(d.document.text, d.document.calls, d.before, FALSE)
       /\ LaidOut(d.document.listed.text, d.document.listed.calls, d.listed, TRUE)
=============================================================================
