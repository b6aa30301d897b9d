-------------------------------- MODULE Urls --------------------------------
(***************************************************************************)
(* What the program does with URLs: it finds them in the answers to a      *)
(* search, takes them apart to connect, and makes new ones of a base and   *)
(* what a description says.                                                *)
(*                                                                         *)
(* A URL is a sequence of symbols: the scheme, each delimiter the code     *)
(* looks for, each digit, and each run of other characters.  Host names    *)
(* are shorter than MAXHOSTNAMELEN.                                        *)
(***************************************************************************)
EXTENDS Integers, SequencesExt

Http == "http://"
Https == "https:/"   \* and a slash behind it, which strchr() finds
Eol == "CRLF"
Blank == " "

Digits == <<"0", "1", "2", "3", "4", "5", "6", "7", "8", "9">>
IsDigit(c) == Contains(Digits, c)
DigitOf(c) == SelectInSeq(Digits, LAMBDA d : d = c) - 1

\* Where a character first occurs, 0 if nowhere (strchr).
Find(s, c) == SelectInSeq(s, LAMBDA x : x = c)
From(s, i) == SubSeq(s, i, Len(s))

\* The digits a text begins with.
Numeral(s) ==
  LET k == SelectInSeq(s, LAMBDA c : ~IsDigit(c))
  IN  IF k = 0 THEN s ELSE SubSeq(s, 1, k - 1)

\* Their value in an unsigned integer of less than m.
Value(digits, m) == FoldLeft(LAMBDA v, c : (v * 10 + DigitOf(c)) % m, 0, digits)
Decimal(s, m) == Value(Numeral(s), m)

Port(s) == Decimal(s, 65536)

-----------------------------------------------------------------------------
\* parseMSEARCHReply(), over the first n characters of a datagram.  Only a line
\* that is ended counts, and only its first colon; the names are compared as
\* prefixes.  A value that is given may be empty.
Given(value) == <<value>>
NotGiven == <<>>

Trimmed(s) ==
  LET k == SelectInSeq(s, LAMBDA c : c # Blank)
  IN  IF k = 0 THEN <<>> ELSE From(s, k)

SearchChar_LastColon(reply, d, i) ==
  IF reply[i] = ":" THEN [d EXCEPT !.colon = i]
  ELSE IF reply[i] # Eol THEN d
  ELSE LET name == reply[d.line]
           value == Trimmed(SubSeq(reply, d.colon + 1, i - 1))
           given == d.colon # 0
       IN  [line |-> i + 1, colon |-> 0,
            location |-> IF given /\ name = "location" THEN Given(value) ELSE d.location,
            st |-> IF given /\ name = "st" THEN Given(value) ELSE d.st]

SearchChar(reply, d, i) ==
  IF reply[i] = ":" THEN [d EXCEPT !.colon = IF @ = 0 THEN i ELSE @]
  ELSE IF reply[i] # Eol THEN d
  ELSE LET name == reply[d.line]
           value == Trimmed(SubSeq(reply, d.colon + 1, i - 1))
           given == d.colon # 0
       IN  [line |-> i + 1, colon |-> 0,
            location |-> IF given /\ name = "location" THEN Given(value) ELSE d.location,
            st |-> IF given /\ name = "st" THEN Given(value) ELSE d.st]

SearchReply(reply, n) ==
  LET after[i \in 0 .. n] ==
        IF i = 0 THEN [line |-> 1, colon |-> 0, location |-> NotGiven, st |-> NotGiven]
        ELSE SearchChar(reply, after[i - 1], i)
  IN  after[n]

-----------------------------------------------------------------------------
\* parseURL(): a scheme begins with "http", of which there are these two.  The host
\* ends at the first colon, if that is before the first slash, at the slash
\* otherwise, and an address in brackets at the bracket.
SchemeLen(url) ==
  IF url # <<>> /\ url[1] = Http THEN 1
  ELSE IF Len(url) > 1 /\ url[1] = Https /\ url[2] = "/" THEN 2
  ELSE 0

NoUrl == [host |-> <<>>, port |-> 0, path |-> <<>>]

HostEnd(rest) ==
  LET slash == Find(rest, "/")
      colon == Find(rest, ":")
      bracket == Find(rest, "]")
  IN  IF rest[1] = "[" /\ bracket # 0 THEN bracket
      ELSE IF colon = 0 \/ colon > slash THEN slash - 1
      ELSE colon - 1

ParseURL(url) ==
  LET rest == From(url, SchemeLen(url) + 1)
      slash == Find(rest, "/")
      e == HostEnd(rest)
  IN  IF SchemeLen(url) = 0 \/ slash = 0 THEN NoUrl
      ELSE [host |-> SubSeq(rest, 1, e),
            port |-> IF rest[e + 1] = ":" THEN Port(From(rest, e + 2)) ELSE 80,
            path |-> From(rest, slash)]

\* connecthostport(): the resolver gets an address without its brackets.
Resolved(host) ==
  IF host[1] # "[" THEN host
  ELSE IF Find(host, "]") = 0 THEN From(host, 2)
  ELSE SubSeq(host, 2, Find(host, "]") - 1)

\* upnp_discover(): the host is what is before the next colon, the port what is
\* before the slash behind it.  It looks for both beyond the end of the URL.
Unknown == [host |-> <<>>, port |-> 0]

Walk(url) ==
  LET rest == From(url, 2)
      colon == 1 + Find(From(rest, 2), ":")
      slash == colon + 1 + Find(From(rest, colon + 2), "/")
  IN  IF colon = 1 \/ slash = colon + 1 THEN Unknown
      ELSE [host |-> SubSeq(rest, 1, colon - 1), port |-> Port(From(rest, colon + 1))]

-----------------------------------------------------------------------------
\* The base of GetUPNPUrls(): a URL up to its path.
Authority(url) ==
  LET slash == Find(From(url, 2), "/")
  IN  IF slash = 0 THEN url ELSE SubSeq(url, 1, slash)

\* url_cpy_or_cat().
Joined_NoSlash(base, src) ==
  IF src # <<>> /\ src[1] = Http THEN src ELSE base \o src

Joined(base, src) ==
  IF src # <<>> /\ src[1] = Http THEN src
  ELSE IF src # <<>> /\ src[1] = "/" THEN base \o src
  ELSE base \o <<"/">> \o src
=============================================================================
