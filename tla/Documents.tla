------------------------------ MODULE Documents ------------------------------
(***************************************************************************)
(* What the program learns from the documents of other devices.  An answer *)
(* to a search gives the address of a description (miniupnpc.c), the       *)
(* description gives the services of the device (igd_desc_parse.c) and     *)
(* these the addresses commands are sent to; an answer to a command gives  *)
(* values (upnpreplyparse.c), one of which is a document again, the list   *)
(* of port mappings (portlistingparse.c).  Each of them may be cut         *)
(* anywhere: a datagram by the size of the buffer, the others because      *)
(* getHTTPResponse() returns what has come when the connection ends.       *)
(*                                                                         *)
(* Three consumers hang on the parser of MiniXml by its call backs, each   *)
(* with a record of its own.                                               *)
(***************************************************************************)
EXTENDS MiniXml, Urls

CONSTANTS
  Datagrams,     \* answers to searches: text, the location, what it means
  Descriptions,  \* text, the calls to expect, the base, the services
  Replies,       \* text, the calls to expect, the values, the mappings, and the
                 \* text and the calls of their listing
  Nothing,       \* no document
  UrlMax,        \* MINIUPNPC_URL_MAXSIZE
  ValueMax       \* 63, the longest value of a reply

ASSUME DocumentsAssumption ==
  /\ \A d \in Datagrams \cup Descriptions \cup Replies : d.text \in Seq(STRING)
  /\ \A d \in Descriptions \cup Replies :
       d.calls \in Seq([call : {"start", "data", "end"}, part : Seq(STRING)])
  /\ UrlMax \in Nat \ {0} /\ ValueMax \in Nat \ {0}

VARIABLES
  stage,
  answer,    \* the datagram that was heard
  location,  \* dev->descURL
  peer,      \* host and port the description was fetched from
  doc,       \* the document being read
  igd,       \* struct IGDdatas
  urls,      \* struct UPNPUrls
  target,    \* hostname and port of upnp_t
  reply,     \* struct NameValueParserData
  ret,       \* what the gateway function returns
  listing    \* struct PortMappingParserData

found == <<answer, location, peer>>
device == <<igd, urls, target>>
told == <<reply, ret, listing>>
vars == <<parser, stage, doc, found, device, told>>

-----------------------------------------------------------------------------
Lesser(a, b) == IF a < b THEN a ELSE b
Capped(s, n) == SubSeq(s, 1, Lesser(Len(s), n))
Element(n) == <<n>>

\* struct IGDdatas: the services that are kept, and the one being read.
Fields == {"serviceType", "controlURL", "eventSubURL", "SCPDURL"}
Slots == {"CIF", "IPv6FC", "first", "second"}
NoService == [f \in Fields |-> <<>>]
NoIgd == [cureltname |-> <<>>, urlbase |-> <<>>, tmp |-> NoService,
          kept |-> [s \in Slots |-> NoService]]

Cif == <<"WANCommonInterfaceConfig">>
V6 == <<"WANIPv6FirewallControl">>
Wan == {<<"WANIPConnection">>, <<"WANPPPConnection">>}

\* The place of a service of a type, if the ones kept are k.
SlotFor(k, type) ==
  LET firstFree == k["first"].serviceType = <<>>
  IN  {s \in Slots : \/ s = "CIF" /\ type = Cif
                     \/ s = "IPv6FC" /\ type = V6
                     \/ s = "first" /\ type \in Wan /\ firstFree
                     \/ s = "second" /\ type \in Wan /\ ~firstFree}

\* The name is copied whatever its length: what does not fit into cureltname is
\* written over urlbase, which lies behind it (and, from a length of 2 * UrlMax,
\* over a member nobody reads; the services begin behind 3 * UrlMax).
Spilled(d, name) ==
  IF Len(name) < UrlMax THEN d.urlbase ELSE SubSeq(name, UrlMax + 1, Len(name))

IGDstartelt_KeepsTmp(d, name) ==
  [d EXCEPT !.cureltname = name, !.urlbase = Spilled(d, name)]

IGDstartelt(d, name) ==
  [d EXCEPT !.cureltname = name, !.urlbase = Spilled(d, name),
            !.tmp = IF name = Element("service") THEN NoService ELSE @]

IGDendelt(d, name) ==
  IF name # Element("service") THEN d
  ELSE [d EXCEPT !.kept = [s \in Slots |->
          IF s \in SlotFor(@, d.tmp.serviceType) THEN d.tmp ELSE @[s]]]

IGDdata(d, value) ==
  LET v == Capped(value, UrlMax - 1)
  IN  [d EXCEPT
        !.urlbase = IF d.cureltname = Element("URLBase") THEN v ELSE @,
        !.tmp = [f \in Fields |-> IF d.cureltname = Element(f) THEN v ELSE @[f]]]

IgdCall(d, c) ==
  CASE c.call = "start" -> IGDstartelt(d, c.part)
    [] c.call = "data" -> IGDdata(d, c.part)
    [] c.call = "end" -> IGDendelt(d, c.part)

-----------------------------------------------------------------------------
\* struct NameValueParserData: the list, its head first, and what is not put
\* into the list.
NoReply == [curelt |-> <<>>, list |-> <<>>, portListing |-> <<>>]

NameValueParserGetData_Tail(d, value) ==
  IF d.curelt = Element("NewPortListing")
  THEN [d EXCEPT !.portListing = value]
  ELSE [d EXCEPT !.list = @ \o <<[name |-> d.curelt, value |-> Capped(value, ValueMax)]>>]

NameValueParserGetData(d, value) ==
  IF d.curelt = Element("NewPortListing")
  THEN [d EXCEPT !.portListing = value]
  ELSE [d EXCEPT !.list = <<[name |-> d.curelt, value |-> Capped(value, ValueMax)]>> \o @]

ReplyCall(d, c) ==
  CASE c.call = "start" -> [d EXCEPT !.curelt = Capped(c.part, ValueMax)]
    [] c.call = "data" -> NameValueParserGetData(d, c.part)

GetValueFromNameValueList(d, name) ==
  LET k == SelectInSeq(d.list, LAMBDA p : p.name = Element(name))
  IN  IF k = 0 THEN <<>> ELSE d.list[k].value

-----------------------------------------------------------------------------
\* struct PortMappingParserData: the list, its head first.  A name of the
\* listing has two symbols, as the code takes the first element that begins
\* with the name it sees.
Entry == <<"PortMapping", "Entry">>
Columns == <<"RemoteHost", "ExternalPort", "Protocol", "InternalPort",
             "InternalClient", "Enabled", "Description", "LeaseTime">>
elements == <<Entry>> \o [i \in DOMAIN Columns |-> <<"New", Columns[i]>>]
Texts == {"RemoteHost", "Protocol", "InternalClient", "Description"}
NoMapping ==
  [c \in Range(Columns) |-> IF c \in Texts THEN <<>> ELSE 0]
NoListing == [curelt |-> <<>>, head |-> <<>>]

KnownAs(name) ==
  LET k == SelectInSeq(elements, LAMBDA e : IsPrefix(name, e))
  IN  IF k = 0 THEN <<>> ELSE elements[k]

\* A value as the field of the column holds it: a text of at most 63
\* characters (a protocol of three, one symbol), a port of 16 bits, a flag of
\* 8 bits.  Lease times are small.
Held(column, v) ==
  CASE column = "Protocol" -> Capped(v, 1)
    [] column \in Texts \ {"Protocol"} -> Capped(v, ValueMax)
    [] column \in {"ExternalPort", "InternalPort"} -> Port(v)
    [] column = "Enabled" -> Decimal(v, 256)
    [] column = "LeaseTime" -> Decimal(v, 65536)

ListingStart(d, name) ==
  [curelt |-> KnownAs(name),
   head |-> IF KnownAs(name) = Entry THEN <<NoMapping>> \o d.head ELSE d.head]

ListingEnd(d) == [d EXCEPT !.curelt = <<>>]

ListingData_Last(d, value) ==
  IF d.head = <<>> \/ d.curelt \in {<<>>, Entry} THEN d
  ELSE [d EXCEPT !.head[Len(d.head)][d.curelt[2]] = Held(d.curelt[2], value)]

ListingData(d, value) ==
  IF d.head = <<>> \/ d.curelt \in {<<>>, Entry} THEN d
  ELSE [d EXCEPT !.head[1][d.curelt[2]] = Held(d.curelt[2], value)]

ListingCall(d, c) ==
  CASE c.call = "start" -> ListingStart(d, c.part)
    [] c.call = "data" -> ListingData(d, c.part)
    [] c.call = "end" -> ListingEnd(d)
-----------------------------------------------------------------------------
Init ==
  /\ ParserIdle /\ stage \in {"search", "call"}
  /\ answer = Nothing /\ doc = Nothing /\ location = <<>> /\ peer = Unknown
  /\ igd = NoIgd /\ urls = <<>> /\ target = Unknown
  /\ reply = NoReply /\ ret = "none" /\ listing = NoListing

Goto(s) == stage' = s

\* upnpDiscover(), lines 607-646: an answer with both lines makes a device.
Hear ==
  /\ stage = "search"
  /\ \E d \in Datagrams : \E n \in 0 .. Len(d.text) :
       LET r == SearchReply(d.text, n)
       IN  /\ answer' = d
           /\ IF r.st # NotGiven /\ r.location # NotGiven
              THEN location' = r.location[1] /\ Goto("fetch")
              ELSE location' = <<>> /\ Goto("over")
  /\ UNCHANGED <<parser, doc, peer, device, told>>

\* miniwget_getaddr() with parserootdesc().
BadUrl ==
  /\ stage = "fetch" /\ ParseURL(location) = NoUrl
  /\ Goto("over") /\ UNCHANGED <<parser, doc, found, device, told>>

Fetch ==
  /\ stage = "fetch" /\ ParseURL(location) # NoUrl
  /\ peer' = [host |-> Resolved(ParseURL(location).host), port |-> ParseURL(location).port]
  /\ \E d \in Descriptions : \E n \in 0 .. Len(d.text) :
       doc' = d /\ ParserStarts(d.text, n, TRUE)
  /\ Goto("description") /\ UNCHANGED <<answer, location, device, told>>

ReadDescription ==
  /\ stage = "description" /\ Parse
  /\ igd' = IF calls' = calls THEN igd ELSE IgdCall(igd, Last(calls'))
  /\ UNCHANGED <<stage, doc, found, urls, target, told>>

\* GetUPNPUrls().
UrlsOf(d) ==
  LET base == Authority(IF d.urlbase = <<>> THEN location ELSE d.urlbase)
  IN  [s \in Slots \ {"second"} |-> Joined(base, d.kept[s].controlURL)]

\* UPNP_GetValidIGD(), lines 816-850: the third pass takes any device, and what
\* it returns makes upnp_discover() take the URL apart itself.  In the first
\* pass the second connection service may take the place of the first.
IsGateway == igd.kept["CIF"].serviceType = Cif
Swapped ==
  [igd EXCEPT !.kept = [@ EXCEPT !["first"] = igd.kept["second"],
                                 !["second"] = igd.kept["first"]]]
Uses(d) == igd' = d /\ urls' = UrlsOf(d) /\ Goto("known")

Described == stage = "description" /\ phase = "done"

TakeDevice ==
  /\ Described
  /\ \/ IsGateway /\ UNCHANGED target
     \/ target' = Walk(location)
  /\ Uses(igd) /\ UNCHANGED <<parser, doc, found, told>>

TakeSecond ==
  /\ Described /\ IsGateway /\ igd.kept["second"].serviceType # <<>>
  /\ Uses(Swapped) /\ UNCHANGED <<parser, doc, found, target, told>>

PassOver ==
  /\ Described /\ ~IsGateway
  /\ Goto("over") /\ UNCHANGED <<parser, doc, found, device, told>>

-----------------------------------------------------------------------------
\* UPNP_GetListOfPortMappings(), from the answer on.
Call ==
  /\ stage = "call"
  /\ \E d \in Replies : \E n \in 0 .. Len(d.text) :
       doc' = d /\ ParserStarts(d.text, n, FALSE)
  /\ Goto("reply") /\ UNCHANGED <<found, device, told>>

ReadReply ==
  /\ stage = "reply" /\ Parse
  /\ reply' = IF calls' = calls THEN reply ELSE ReplyCall(reply, Last(calls'))
  /\ UNCHANGED <<stage, doc, found, device, ret, listing>>

Replied ==
  /\ stage = "reply" /\ phase = "done"
  /\ LET code == GetValueFromNameValueList(reply, "errorCode")
     IN  ret' = CASE code # <<>> -> "error"
                  [] code = <<>> /\ reply.portListing # <<>> -> "success"
                  [] code = <<>> /\ reply.portListing = <<>> -> "unknown"
  /\ IF reply.portListing # <<>>
     THEN ParserStarts(reply.portListing, Len(reply.portListing), TRUE) /\ Goto("listing")
     ELSE UNCHANGED parser /\ Goto("over")
  /\ UNCHANGED <<doc, found, device, reply, listing>>

ReadListing ==
  /\ stage = "listing" /\ Parse
  /\ listing' = IF calls' = calls THEN listing ELSE ListingCall(listing, Last(calls'))
  /\ UNCHANGED <<stage, doc, found, device, reply, ret>>

Listed ==
  /\ stage = "listing" /\ phase = "done"
  /\ Goto("over") /\ UNCHANGED <<parser, doc, found, device, told>>

Ended ==
  /\ stage \in {"known", "over"} /\ UNCHANGED vars

Next ==
  \/ Hear \/ BadUrl \/ Fetch \/ ReadDescription
  \/ TakeDevice \/ TakeSecond \/ PassOver
  \/ Call \/ ReadReply \/ Replied \/ ReadListing \/ Listed
  \/ Ended

Spec == Init /\ [][Next]_vars

-----------------------------------------------------------------------------
(***************************************************************************)
(* Correctness.                                                            *)
(***************************************************************************)

\* Wherever the document was cut, the parser goes on behind what has arrived in
\* three places only (minixml.c, lines 60, 130 and 154), from where it makes no
\* call: in every other loop it is at a character that has arrived.
TypeOK ==
  /\ ParserTypeOK
  /\ stage \in {"search", "fetch", "description", "known",
                "call", "reply", "listing", "over"}
  /\ answer \in Datagrams \cup {Nothing}
  /\ doc \in Descriptions \cup Replies \cup {Nothing}
  /\ ret \in {"none", "success", "error", "unknown"}

Whole == end = Len(text)

IsBlank(v) == ToSet(v) \subseteq {Space}

\* The consumers are called for the elements of the document, in order, with
\* whole names and whole texts, up to the cut; and for all of them if the
\* document has arrived (minixml.c, parseelt).  The one call too many is that
\* for white space in front of the cut, made if there is a slash behind it.
CallsInOrder ==
  stage \in {"description", "reply"} =>
    \/ /\ IsPrefix(calls, doc.calls)
       /\ phase = "done" /\ Whole => calls = doc.calls
    \/ /\ phase = "done" /\ ~Whole
       /\ Last(calls).call = "data" /\ IsBlank(Last(calls).part)
       /\ IsPrefix(Front(calls), doc.calls)

\* A document by the rules of XML, in the items the consumers are told of: the
\* symbols t with the calls cs, where f tells for the first symbol of each item
\* how many calls are made before it.
Free(t, i, j, S) == \A k \in i .. j : t[k] \notin S
Filled(t, i, j) == \A k \in i .. j : t[k] = Space
NextCall(cs, p, q, c, v) ==
  q = p + 1 /\ q \in DOMAIN cs /\ cs[q] = [call |-> c, part |-> v]

\* A symbol between two items, or one that only seems to begin a tag.
Outside(t, b, e) ==
  /\ e = b + 1
  /\ t[b] = "<" => b < Len(t) /\ t[b + 1] \in {"?", Space, ">"}

EndTag(t, b, e) ==
  /\ b + 2 < e /\ e - 1 <= Len(t) /\ t[b] = "<" /\ t[b + 1] = "/" /\ t[e - 1] = ">"
  /\ Free(t, b + 2, e - 2, {">"})

\* The name of an element is in k .. z - 1, behind a prefix if it has one.
Naming(t, b, k, z) ==
  /\ b < k /\ k < z /\ z <= Len(t) /\ t[b] = "<" /\ t[b + 1] # "?"
  /\ Free(t, b + 1, z - 1, {Space, ">", "/"}) /\ t[z] \in {Space, ">", "/"}
  /\ Free(t, k, z - 1, {":"})
  /\ k # b + 1 => k > b + 2 /\ t[k - 1] = ":" /\ Free(t, b + 1, k - 2, {":"})

\* An attribute with its equal sign at s, its value from q on, in quotes or not.
Valued(t, s, q, n) ==
  /\ s < q /\ q < n /\ t[s] = "=" /\ Filled(t, s + 1, q - 1) /\ t[q] # Space
  /\ IF t[q] \in Quotes
     THEN q < n - 1 /\ t[n - 1] = t[q] /\ Free(t, q + 1, n - 2, {t[q]})
     ELSE t[n - 1] = Space /\ Free(t, q, n - 2, {Space, ">", "/"})

Attribute(t, a, n) ==
  \E s, q \in a + 1 .. n - 1 :
    t[a] \notin {Space, "/", ">", "="} /\ Free(t, a, s - 1, {"="}) /\ Valued(t, s, q, n)

\* The places A between the attributes of a tag that ends at g.
Attributes(t, g, A) ==
  \A a \in A : \/ a = g
               \/ \E n \in A : (n = a + 1 /\ t[a] = Space) \/ Attribute(t, a, n)

\* The content of an element, from i up to the next tag at e.
Words(t, i, e) ==
  /\ i <= e /\ e < Len(t) /\ t[e] = "<" /\ Free(t, i, e - 1, {"<"})
  /\ t[e + 1] = CdataStart => ~Filled(t, i, e - 1)

Section(t, i, x, y, e) ==
  /\ i <= x /\ x + 1 < y /\ y < e /\ e <= Len(t) /\ Filled(t, i, x - 1)
  /\ t[x] = "<" /\ t[x + 1] = CdataStart /\ t[y] = CdataEnd /\ t[e] = "<"
  /\ t[y + 1] = ">" /\ \A j \in x + 2 .. y - 1 : t[j] = CdataEnd => t[j + 1] # ">"
  /\ Free(t, y + 1, e - 1, {"<"})

Content(t, cs, i, e, p, q) ==
  \/ /\ Words(t, i, e)
     /\ IF i < e /\ t[e + 1] = "/" THEN NextCall(cs, p, q, "data", SubSeq(t, i, e - 1)) ELSE q = p
  \/ \E x, y \in i .. e :
       /\ Section(t, i, x, y, e)
       /\ IF x + 2 < y THEN NextCall(cs, p, q, "data", SubSeq(t, x + 2, y - 1)) ELSE q = p

\* What follows a start tag that ends at g.
TagEnds(t, cs, g, e, p, q) ==
  \/ t[g] = "/" /\ e = g /\ q = p
  \/ t[g] = ">" /\ Content(t, cs, g + 1, e, p, q)

StartTag(t, cs, b, e, p, q) ==
  \E k, z, g \in b + 1 .. e :
    /\ Naming(t, b, k, z) /\ z <= g /\ g <= Len(t)
    /\ NextCall(cs, p, p + 1, "start", SubSeq(t, k, z - 1))
    /\ TagEnds(t, cs, g, e, p + 1, q)
    /\ \E A \in SUBSET (z .. g) : z \in A /\ Attributes(t, g, A)

Item(t, cs, ends, b, e, p, q) ==
  \/ Outside(t, b, e) /\ q = p
  \/ /\ EndTag(t, b, e)
     /\ IF ends THEN NextCall(cs, p, q, "end", SubSeq(t, b + 2, e - 2)) ELSE q = p
  \/ StartTag(t, cs, b, e, p, q)

LaidOut(t, cs, f, ends) ==
  /\ DOMAIN f \subseteq 1 .. Len(t) + 1 /\ 1 \in DOMAIN f /\ f[1] = 0
  /\ \A b \in DOMAIN f :
       /\ f[b] \in 0 .. Len(cs)
       /\ IF b = Len(t) + 1 THEN f[b] = Len(cs)
          ELSE \E e \in DOMAIN f : Item(t, cs, ends, b, e, f[b], f[e])

\* What is to be kept of the first n services of a description.
Stored(service) == [f \in Fields |-> Capped(service[f], UrlMax - 1)]

KeptOf(services, n) ==
  LET Of(types) == {i \in 1 .. n : Stored(services[i]).serviceType \in types}
      Pick(S) == IF S = {} THEN NoService ELSE Stored(services[Max(S)])
      firstWan == IF Of(Wan) = {} THEN {} ELSE {Min(Of(Wan))}
  IN  [s \in Slots |-> CASE s = "CIF" -> Pick(Of({Cif}))
                         [] s = "IPv6FC" -> Pick(Of({V6}))
                         [] s = "first" -> Pick(firstWan)
                         [] s = "second" -> Pick(Of(Wan) \ firstWan)]

\* What a description gives by its calls: the services between their tags a and z,
\* each with its fields, and before them the base, if there is one.
TextOf(d, k, name) ==
  /\ k > 1 /\ d.calls[k].call = "data"
  /\ d.calls[k - 1] = [call |-> "start", part |-> Element(name)]

GivesService(d, service, a, z) ==
  /\ a < z /\ d.calls[a] = [call |-> "start", part |-> Element("service")]
  /\ d.calls[z] = [call |-> "end", part |-> Element("service")]
  /\ \A k \in a + 1 .. z - 1 : d.calls[k] # d.calls[a] /\ d.calls[k] # d.calls[z]
  /\ \A f \in Fields :
       LET Told == {k \in a + 1 .. z - 1 : TextOf(d, k, f)}
       IN  /\ service[f] # <<>> => Told # {}
           /\ \A k \in Told : d.calls[k].part = service[f]

\* ... which no name of an element behind it is written over.
Overlong(c) == c.call = "start" /\ Len(c.part) >= UrlMax

GivesBase(d, a) ==
  LET Told == {k \in DOMAIN d.calls : TextOf(d, k, "URLBase")}
  IN  /\ d.urlbase \in Seq(STRING) /\ Len(d.urlbase) < UrlMax
      /\ d.urlbase # <<>> => Told # {}
      /\ \A k \in Told : d.calls[k].part = d.urlbase
      /\ \A k \in DOMAIN d.calls : Overlong(d.calls[k]) => \E j \in Told : k < j
      /\ \A k \in DOMAIN d.calls, i \in DOMAIN d.services :
           d.calls[k] = [call |-> "start", part |-> Element("URLBase")] => k < a[i]

Serving(d, a, z) ==
  /\ \A i \in DOMAIN d.services : GivesService(d, d.services[i], a[i], z[i])
  /\ \A i, j \in DOMAIN d.services : i < j => z[i] < a[j]
  /\ \A k \in DOMAIN d.calls :
       /\ d.calls[k] = [call |-> "end", part |-> Element("service")] =>
            \E i \in DOMAIN d.services : z[i] = k
       /\ d.calls[k].call = "data" => k > 1 /\ d.calls[k - 1].call = "start"
       /\ d.calls[k].call = "start" => Len(d.calls[k].part) < 3 * UrlMax
  /\ GivesBase(d, a)

Services == [serviceType : Seq(STRING), controlURL : Seq(STRING), eventSubURL : Seq(STRING),
             SCPDURL : Seq(STRING),
             absolute : [host : Seq(STRING), port : Nat, path : Seq(STRING)]]

Served(d) ==
  /\ d.services \in Seq(Services)
  /\ \E a, z \in [DOMAIN d.services -> DOMAIN d.calls] : Serving(d, a, z)

\* The services that are kept are those of a first part of the description, each
\* whole and none with a field of another; of a description that has arrived
\* they are all there is to keep (igd_desc_parse.c).
ServicesExact ==
  stage = "description" /\ phase = "done" =>
    \E n \in 0 .. Len(doc.services) :
      /\ igd.kept = KeptOf(doc.services, n)
      /\ n > 0 => igd.urlbase = doc.urlbase
      /\ Whole => n = Len(doc.services)

\* A URL tells its host, its port, if it gives one, and its path, if it has one.
HostEndsAt(rest, e) ==
  IF rest[1] = "["
  THEN e > 1 /\ rest[e] = "]" /\ \A j \in 1 .. e - 1 : rest[j] \notin {"/", "]"}
  ELSE \A j \in 1 .. e : rest[j] \notin {"/", ":"}

PathBeginsAt(rest, e, z) ==
  /\ \/ z = e + 1
     \/ z > e + 2 /\ rest[e + 1] = ":" /\ \A j \in e + 2 .. z - 1 : IsDigit(rest[j])
  /\ z <= Len(rest) => rest[z] = "/"

Says(url, u) ==
  LET rest == From(url, 2)
  IN  /\ url # <<>> /\ url[1] = Http
      /\ \E e \in 1 .. Len(rest), z \in 1 .. Len(rest) + 1 :
           /\ HostEndsAt(rest, e) /\ PathBeginsAt(rest, e, z)
           /\ u = [host |-> SubSeq(rest, 1, e),
                   port |-> IF z = e + 1 THEN 80 ELSE Port(SubSeq(rest, e + 2, z - 1)),
                   path |-> From(rest, z)]

Addressed(d) ==
  /\ d.urlbase # <<>> => Says(d.urlbase, d.base)
  /\ \A i \in DOMAIN d.services :
       LET service == d.services[i]
       IN  \/ /\ service.absolute = NoUrl
              /\ service.controlURL = <<>> \/ service.controlURL[1] \notin {Http, Https}
           \/ Says(service.controlURL, service.absolute) /\ service.absolute.path # <<>>

\* What a control URL means, as the description tells it: a URL of its own, or a
\* path at the host of the base.
Meaning(service, base) ==
  IF service.absolute # NoUrl THEN service.absolute
  ELSE [base EXCEPT !.path = (IF service.controlURL # <<>> /\ service.controlURL[1] = "/"
                              THEN <<>> ELSE <<"/">>) \o service.controlURL]

\* Commands go to the host, the port and the path the description names for a
\* service of their type, also when the two connection services were swapped
\* (GetUPNPUrls, parseURL); a URL that is too long for its field may be cut, and
\* a location of another scheme than http makes no base.
CommandReaches ==
  stage = "known" =>
    \A s \in Slots \ {"second"} :
      igd.kept[s] # NoService =>
        \E i \in DOMAIN doc.services :
          LET service == doc.services[i]
              base == IF igd.urlbase # <<>> THEN doc.base ELSE ParseURL(location)
          IN  /\ igd.kept[s] = Stored(service)
              /\ Len(service.controlURL) < UrlMax /\ (igd.urlbase # <<>> \/ location[1] = Http) =>
                   ParseURL(urls[s]) = Meaning(service, base)

\* What a device sends by the protocol: one line gives the location, which has a
\* host, a name or an address in brackets, and perhaps a port and a path.
LineStarts(t, j) == j = 1 \/ t[j - 1] = Eol

GivesLocation(d) ==
  LET t == d.text
  IN  \E l, v, z \in DOMAIN t :
        /\ l + 1 < v /\ v <= z /\ z + 1 \in DOMAIN t
        /\ LineStarts(t, l) /\ t[l] = "location" /\ t[l + 1] = ":"
        /\ \A j \in l + 2 .. v - 1 : t[j] = Blank
        /\ t[v] # Blank /\ \A j \in v .. z : t[j] # Eol
        /\ t[z + 1] = Eol /\ d.location = SubSeq(t, v, z)
        /\ \A j \in DOMAIN t : LineStarts(t, j) /\ t[j] = "location" => j = l

NamesHost(d) ==
  LET rest == From(d.location, SchemeLen(d.location) + 1)
  IN  /\ SchemeLen(d.location) > 0
      /\ \E e \in 1 .. Len(rest), z \in 1 .. Len(rest) + 1 :
           /\ HostEndsAt(rest, e) /\ PathBeginsAt(rest, e, z)
           /\ d.host = IF rest[1] = "[" THEN SubSeq(rest, 2, e - 1) ELSE SubSeq(rest, 1, e)
           /\ d.port = IF z = e + 1 THEN 80 ELSE Port(SubSeq(rest, e + 2, z - 1))
           /\ d.explicit => z # e + 1 /\ rest[1] # "[" /\ d.location[1] = Http

\* The location is taken whole or not at all, and leads to the host and the port
\* it names; upnp_discover(), which takes it apart once more, comes to the same
\* renderer if the port is written out and the host is no address in brackets.
LocationReached ==
  /\ stage = "fetch" => location = answer.location
  /\ peer # Unknown => peer = [host |-> answer.host, port |-> answer.port]
  /\ target # Unknown /\ answer.explicit => target = peer

\* What a reply gives by its calls: each value behind the start of its element,
\* and besides them the listing.
Pairing(d, w) ==
  /\ \A i \in DOMAIN d.pairs :
       /\ w[i] > 1 /\ d.calls[w[i]] = [call |-> "data", part |-> d.pairs[i].value]
       /\ d.calls[w[i] - 1] = [call |-> "start", part |-> d.pairs[i].name]
       /\ Len(d.pairs[i].name) <= ValueMax /\ d.pairs[i].name # Element("NewPortListing")
       /\ \A j \in DOMAIN d.pairs : i < j => w[i] < w[j]
  /\ \A k \in DOMAIN d.calls :
       d.calls[k].call = "data" =>
         \/ \E i \in DOMAIN d.pairs : w[i] = k
         \/ k > 1 /\ d.calls[k - 1] = [call |-> "start", part |-> Element("NewPortListing")]

Paired(d) ==
  /\ d.pairs \in Seq([name : Seq(STRING), value : Seq(STRING)])
  /\ \E w \in [DOMAIN d.pairs -> DOMAIN d.calls] : Pairing(d, w)

Shortened(p) == [p EXCEPT !.value = Capped(@, ValueMax)]
Pairs(d, n) == Reverse([i \in 1 .. n |-> Shortened(d.pairs[i])])

\* The values of a reply are a first part of those it has, with the names they
\* have there, the last one first, but for a blank one at the cut; all of them if
\* it has arrived (upnpreplyparse.c).
ReplyExact ==
  stage = "reply" /\ phase = "done" =>
    \E n \in 0 .. Len(doc.pairs) :
      \/ reply.list = Pairs(doc, n) /\ (Whole => n = Len(doc.pairs))
      \/ /\ ~Whole /\ reply.list # <<>> /\ IsBlank(Head(reply.list).value)
         /\ Tail(reply.list) = Pairs(doc, n)

\* What the listing of a reply gives by its calls: the mappings between their tags a
\* and z, each with its columns, which are nowhere else.
ColumnText(cs, k, c) ==
  k > 1 /\ cs[k].call = "data" /\ cs[k - 1] = [call |-> "start", part |-> <<"New", c>>]

GivesMapping(cs, mapping, a, z) ==
  /\ a < z /\ cs[a] = [call |-> "start", part |-> Entry]
  /\ cs[z].call = "end" /\ IsSuffix(Entry, cs[z].part)
  /\ mapping = [c \in Range(Columns) |-> mapping[c]]
  /\ \A c \in Range(Columns) :
       LET Told == {k \in a + 1 .. z - 1 : ColumnText(cs, k, c)}
       IN  /\ mapping[c] # NoMapping[c] => Told # {}
           /\ \A k \in Told : Held(c, cs[k].part) = mapping[c]

Mapping(cs, mappings, a, z) ==
  /\ \A i \in DOMAIN mappings : GivesMapping(cs, mappings[i], a[i], z[i])
  /\ \A i, j \in DOMAIN mappings : i < j => z[i] < a[j]
  /\ \A k \in DOMAIN cs :
       /\ cs[k].call = "start" =>
            \/ cs[k].part = Entry /\ \E i \in DOMAIN mappings : a[i] = k
            \/ /\ \E c \in Range(Columns) : cs[k].part = <<"New", c>>
               /\ \E i \in DOMAIN mappings : a[i] < k /\ k < z[i]
            \/ \A e \in Range(elements) : ~IsPrefix(cs[k].part, e)
       /\ cs[k].call = "data" => k > 1 /\ cs[k - 1].call = "start"

Mappings ==
  [RemoteHost : Seq(STRING), ExternalPort : Nat, Protocol : Seq(STRING), InternalPort : Nat,
   InternalClient : Seq(STRING), Enabled : Nat, Description : Seq(STRING), LeaseTime : Nat]

Mapped(d) ==
  LET cs == d.listed.calls
  IN  /\ d.listed.text \in Seq(STRING) /\ d.mappings \in Seq(Mappings)
      /\ cs \in Seq([call : {"start", "data", "end"}, part : Seq(STRING)])
      /\ \E a, z \in [DOMAIN d.mappings -> DOMAIN cs] : Mapping(cs, d.mappings, a, z)
      /\ \A k \in DOMAIN d.calls : TextOf(d, k, "NewPortListing") => d.calls[k].part = d.listed.text

\* A list of port mappings is never returned in part: it has all the mappings of
\* the gateway with all their fields, the last one first, or there is none and
\* the function does not succeed, wherever the reply was cut; it is only taken
\* for empty if white space came in its place (upnpcommands.c, lines 716-740).
ListingWhole ==
  stage = "over" /\ ret # "none" =>
    /\ listing.head \in {<<>>, Reverse(doc.mappings)}
    /\ ret = "success" /\ ~IsBlank(reply.portListing) => listing.head = Reverse(doc.mappings)
=============================================================================
