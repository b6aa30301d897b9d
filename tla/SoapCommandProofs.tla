------------------------- MODULE SoapCommandProofs -------------------------
(***************************************************************************)
(* Proofs about SoapCommand for any set of functions and any number of     *)
(* addresses: types, the fate of the sockets and of the memory, and what a *)
(* result says of the gateway.                                             *)
(***************************************************************************)
EXTENDS SoapCommand, SequenceTheorems, FiniteSetTheorems, TLAPS

USE CallsAssumption

\* The elements a function asks for are finitely many, none of them what
\* every answer has or the sign of an error.
LEMMA WantedNames ==
  ASSUME NEW c
  PROVE  /\ Cardinality(Wanted(c)) \in Nat
         /\ Wanted(c) \cap {"envelope", "end", "page", Error, Torn} = {}
<1> DEFINE W == {{}, {"NewUptime", "NewConnectionStatus"},
                 {"NewLayer1DownstreamMaxBitRate", "NewLayer1UpstreamMaxBitRate"},
                 {"FirewallEnabled", "InboundPinholeAllowed"},
                 {"NewExternalPort", "NewInternalClient"},
                 {"NewConnectionType"}, {"NewExternalIPAddress"},
                 {"NewPortMappingNumberOfEntries"}, {"NewInternalClient"},
                 {"NewPortListing"}, {"IsWorking"}, {"PinholePackets"}}
<1>1. Wanted(c) \in W
  BY Zenon DEF Wanted
<1>2. \A a, b : IsFiniteSet({a, b}) /\ IsFiniteSet({a})
  <2> SUFFICES ASSUME NEW a, NEW b PROVE IsFiniteSet({a, b}) /\ IsFiniteSet({a})
    OBVIOUS
  <2>1. IsFiniteSet({a})
    BY FS_Singleton
  <2>2. IsFiniteSet({a} \cup {b})
    BY <2>1, FS_AddElement
  <2>3. {a} \cup {b} = {a, b}
    OBVIOUS
  <2> QED
    BY <2>1, <2>2, <2>3
<1>3. \A w \in W : IsFiniteSet(w)
  <2>1. IsFiniteSet({})
    BY FS_EmptySet
  <2>2. \A w \in W : w = {} \/ (\E a, b : w = {a} \/ w = {a, b})
    BY Zenon
  <2> HIDE DEF W
  <2>3. SUFFICES ASSUME NEW w \in W PROVE IsFiniteSet(w)
    OBVIOUS
  <2>4. PICK a, b : w = {} \/ w = {a} \/ w = {a, b}
    BY <2>2
  <2> QED
    BY <1>2, <2>1, <2>4
<1>4. Cardinality(Wanted(c)) \in Nat
  BY <1>1, <1>3, FS_CardinalityType
<1>5. Wanted(c) \cap {"envelope", "end", "page", Error, Torn} = {}
  BY <1>1 DEF Error, Torn
<1>6. QED
  BY <1>4, <1>5

\* A sequence of one element.
LEMMA OneElement ==
  ASSUME NEW S, NEW e \in S
  PROVE  <<e>> \in Seq(S) /\ Len(<<e>>) = 1 /\ Range(<<e>>) = {e}
<1>1. <<e>> \in Seq(S)
  OBVIOUS
<1>2. Len(<<e>>) = 1
  OBVIOUS
<1>3. Range(<<e>>) = {<<e>>[i] : i \in 1 .. Len(<<e>>)}
  BY <1>1, RangeEquality
<1>4. 1 .. Len(<<e>>) = {1} /\ <<e>>[1] = e
  BY <1>2
<1>5. {<<e>>[i] : i \in {1}} = {e}
  BY <1>4
<1>6. QED
  BY <1>1, <1>2, <1>3, <1>4, <1>5

\* Concatenation, for sequences over one set.
LEMMA Joined ==
  ASSUME NEW S
  PROVE  \A x, y \in Seq(S) : /\ x \o y \in Seq(S)
                               /\ Len(x \o y) = Len(x) + Len(y)
                               /\ Range(x \o y) = Range(x) \cup Range(y)
<1> SUFFICES ASSUME NEW x \in Seq(S), NEW y \in Seq(S)
             PROVE  /\ x \o y \in Seq(S) /\ Len(x \o y) = Len(x) + Len(y)
                    /\ Range(x \o y) = Range(x) \cup Range(y)
  OBVIOUS
<1>1. Range(x \o y) = Range(x) \cup Range(y)
  BY RangeConcatenation
<1>2. x \o y \in Seq(S) /\ Len(x \o y) = Len(x) + Len(y)
  BY ConcatProperties
<1>3. QED
  BY <1>1, <1>2

\* What has arrived of a body holds elements of the body and a torn one.
LEMMA ArrivedParts ==
  ASSUME NEW S, NEW b \in Seq(S), NEW a \in Arrived(b)
  PROVE  a \in Seq(S \cup {Torn}) /\ Range(a) \subseteq Range(b) \cup {Torn}
<1>1. \A k \in 0 .. Len(b) : /\ SubSeq(b, 1, k) \in Seq(S)
                             /\ Range(SubSeq(b, 1, k)) \subseteq Range(b)
  <2> SUFFICES ASSUME NEW k \in 0 .. Len(b)
               PROVE  /\ SubSeq(b, 1, k) \in Seq(S)
                      /\ Range(SubSeq(b, 1, k)) \subseteq Range(b)
    OBVIOUS
  <2>1. \A i \in 1 .. k : b[i] \in Range(b) /\ b[i] \in S
    BY LenProperties, ElementOfSeq DEF Range
  <2>2. /\ SubSeq(b, 1, k) \in Seq(Range(b))
        /\ SubSeq(b, 1, k) \in Seq(S)
    BY <2>1, SubSeqProperties
  <2> QED
    BY <2>2, RangeOfSeq
<1>2. CASE a \in {SubSeq(b, 1, k) : k \in 0 .. Len(b)}
  <2>1. a \in Seq(S) /\ Range(a) \subseteq Range(b)
    BY <1>1, <1>2
  <2> QED
    BY <2>1, SeqMonotonic
<1>3. CASE a \in {Append(SubSeq(b, 1, k), Torn) : k \in 0 .. Len(b) - 1}
  <2> DEFINE t == <<Torn>>
  <2>1. t \in Seq(S \cup {Torn}) /\ Range(t) = {Torn}
    BY OneElement
  <2>2. PICK k \in 0 .. Len(b) : a = SubSeq(b, 1, k) \o t
    <3>1. 0 .. Len(b) - 1 \subseteq 0 .. Len(b)
      OBVIOUS
    <3>2. PICK k \in 0 .. Len(b) : a = Append(SubSeq(b, 1, k), Torn)
      BY <1>3, <3>1
    <3>3. SubSeq(b, 1, k) \in Seq(S \cup {Torn})
      BY <1>1, SeqMonotonic
    <3> QED
      BY <3>2, <3>3, AppendIsConcat
  <2> HIDE DEF t
  <2>3. SubSeq(b, 1, k) \in Seq(S \cup {Torn})
    BY <1>1, SeqMonotonic
  <2>4. \A x, y \in Seq(S \cup {Torn}) : /\ x \o y \in Seq(S \cup {Torn})
                                        /\ Len(x \o y) = Len(x) + Len(y)
                                        /\ Range(x \o y) = Range(x) \cup Range(y)
    BY Joined
  <2>5. /\ a \in Seq(S \cup {Torn})
        /\ Range(a) = Range(SubSeq(b, 1, k)) \cup Range(t)
    BY <2>1, <2>2, <2>3, <2>4
  <2> QED
    BY <1>1, <2>1, <2>5
<1>4. QED
  BY <1>2, <1>3 DEF Arrived

\* The answer of a gateway that has obeyed.
LEMMA ObeyedReply ==
  ASSUME call \in Calls, NEW v \in SetToSeqs(Wanted(call))
  PROVE  LET answer == <<"envelope">> \o v \o <<"end">>
         IN  answer \in Seq(Elements) /\ answer # <<>> /\ Error \notin Range(answer)
<1> DEFINE answer == <<"envelope">> \o v \o <<"end">>
<1>1. v \in Seq(Elements) /\ Error \notin Range(v)
  <2>1. v \in [1 .. Cardinality(Wanted(call)) -> Wanted(call)]
    BY DEF SetToSeqs
  <2>2. v \in Seq(Wanted(call))
    BY <2>1, WantedNames, SeqDef
  <2>3. v \in Seq(Elements)
    <3>1. Wanted(call) \subseteq Elements
      BY DEF Elements
    <3> QED
      BY <2>2, <3>1, SeqMonotonic
  <2> QED
    BY <2>2, <2>3, RangeOfSeq, WantedNames
<1> DEFINE first == <<"envelope">>
           last == <<"end">>
<1>2. /\ first \in Seq(Elements) /\ Len(first) = 1 /\ Range(first) = {"envelope"}
      /\ last \in Seq(Elements) /\ Len(last) = 1 /\ Range(last) = {"end"}
  BY OneElement DEF Elements
<1>3. answer = (first \o v) \o last
  OBVIOUS
<1> HIDE DEF first, last, answer
<1>4. \A x, y \in Seq(Elements) : /\ x \o y \in Seq(Elements)
                                 /\ Len(x \o y) = Len(x) + Len(y)
                                 /\ Range(x \o y) = Range(x) \cup Range(y)
  BY Joined
<1>5. /\ first \o v \in Seq(Elements) /\ Len(first \o v) = 1 + Len(v)
      /\ Range(first \o v) = {"envelope"} \cup Range(v)
  BY <1>1, <1>2, <1>4
<1>6. /\ answer \in Seq(Elements) /\ Len(answer) = Len(first \o v) + 1
      /\ Range(answer) = Range(first \o v) \cup {"end"}
  BY <1>2, <1>3, <1>4, <1>5
<1>7. answer # <<>> /\ Error \notin Range(answer)
  <2>1. Len(v) \in Nat
    BY <1>1, LenProperties
  <2> QED
    BY <1>1, <1>5, <1>6, <2>1 DEF Error
<1>8. QED
  BY <1>6, <1>7 DEF answer

-----------------------------------------------------------------------------
\* An interrupted connect() is one to the address the loop is at.
WaitInv == pc = "interrupted" => addrs > 0

\* Types of one call, its sockets, its memory and its result
\* (upnpcommands.c, simpleUPnPcommand2(), connecthostport()).
THEOREM CallTypes == Spec => []TypeOK
<1>1. Init => TypeOK /\ WaitInv
  BY EmptySeq DEF Init, TypeOK, WaitInv, Socks
<1>2. TypeOK /\ WaitInv /\ [Next]_vars => TypeOK' /\ WaitInv'
  <2> SUFFICES ASSUME TypeOK, WaitInv, [Next]_vars PROVE TypeOK' /\ WaitInv'
    OBVIOUS
  <2> USE DEF Goto, sockets, WaitInv
  <2>0. s \in Socks => [socks EXCEPT ![s] = "closed"] \in
          [Socks -> {"unused", "open", "connected", "closed"}]
    BY DEF TypeOK
  <2>1. CASE InvalidArgs
    BY <2>1 DEF InvalidArgs, TypeOK
  <2>2. CASE Resolve
    BY <2>2 DEF Resolve, TypeOK
  <2>3. CASE SocketFails
    BY <2>3 DEF SocketFails, TypeOK
  <2>4. CASE ConnectOk
    BY <2>4 DEF ConnectOk, TypeOK, Socks
  <2>5. CASE ConnectFails
    BY <2>5 DEF ConnectFails, TypeOK, Socks
  <2>6. CASE GiveUp
    BY <2>6 DEF GiveUp, TypeOK
  <2>19. CASE Interrupt
    BY <2>19 DEF Interrupt, TypeOK, Socks
  <2>20. CASE WaitConnects
    BY <2>20 DEF WaitConnects, TypeOK
  <2>21. CASE WaitFails
    <3>1. addrs - 1 \in 0 .. MaxAddrs
      BY <2>21, CallsAssumption DEF TypeOK, WaitInv, WaitFails
    <3> QED
      BY <2>21, <3>1 DEF WaitFails, CloseSocket, TypeOK
  <2>22. CASE WaitAbandons
    BY <2>22 DEF WaitAbandons, CloseSocket, TypeOK
  <2>7. CASE SoapSubmit
    BY <2>7 DEF SoapSubmit, TypeOK
  <2>8. CASE FetchSubmit
    BY <2>8 DEF FetchSubmit, TypeOK
  <2>9. CASE SubmitFails
    BY <2>9 DEF SubmitFails, CloseSocket, TypeOK
  <2>10. CASE Receive
    <3>1. buffer' \in Seq(Elements \cup {Torn})
      BY <2>10, ArrivedParts DEF Receive, TypeOK
    <3>2. /\ held' \in {held, held \cup {"buffer"}} /\ pc' \in {"nothing", "parse"}
          /\ socks' \in {socks, [socks EXCEPT ![s] = "closed"]}
      BY <2>10 DEF Receive, CloseSocket
    <3> QED
      BY <2>10, <3>1, <3>2 DEF Receive, TypeOK
  <2>11. CASE Parse
    BY <2>11 DEF Parse, TypeOK
  <2>12. CASE Result
    BY <2>12 DEF Result, Verdict, TypeOK
  <2>13. CASE FetchReturns
    BY <2>13 DEF FetchReturns, TypeOK
  <2>14. CASE Nothing
    BY <2>14 DEF Nothing, TypeOK
  <2>15. CASE Obey
    BY <2>15, ObeyedReply DEF Obey, TypeOK
  <2>16. CASE Refuse
    BY <2>16 DEF Refuse, TypeOK, Elements
  <2>17. CASE AnswerPage
    BY <2>17 DEF AnswerPage, TypeOK, Elements
  <2>18. CASE UNCHANGED vars
    BY <2>18 DEF vars, TypeOK
  <2> QED
    BY <2>1, <2>2, <2>3, <2>4, <2>5, <2>6, <2>7, <2>8, <2>9, <2>10, <2>11,
       <2>12, <2>13, <2>14, <2>15, <2>16, <2>17, <2>18, <2>19, <2>20, <2>21, <2>22
       DEF Next, Client, Gateway, Returned
<1>3. QED
  BY <1>1, <1>2, PTL DEF Spec

-----------------------------------------------------------------------------
\* Only the socket s can be open.  It is while the call sends and waits, and
\* stays so if the call is a fetch that has sent its request.
SocketInv ==
  /\ pc \in {"call", "connect", "interrupted", "send"} => request = "unsent"
  /\ pc = "interrupted" => s # -1
  /\ pc = "receive" /\ call = Fetch => request = "all"
  /\ pc \in {"send", "receive"} => s # -1 /\ socks[s] = "connected"
  /\ \A i \in Socks : socks[i] \in {"open", "connected"} =>
       /\ i = s
       /\ \/ pc \in {"interrupted", "send", "receive"}
          \/ call = Fetch /\ request = "all" /\ pc \in {"parse", "nothing", "returned"}

\* The call uses a connected socket only, and closes every socket but that of
\* a fetch (connecthostport.c:171-239, miniupnpc.c:197-213).
THEOREM SocketsSafe == Spec => [](OnlyConnectedUsed /\ SocketsClosed)
<1>1. Init => SocketInv
  BY DEF Init, SocketInv, Socks
<1>2. TypeOK /\ SocketInv /\ [Next]_vars => SocketInv'
  <2> SUFFICES ASSUME TypeOK, SocketInv, [Next]_vars PROVE SocketInv'
    OBVIOUS
  <2> USE DEF Goto, sockets, SocketInv
  <2>0. /\ s \in {-1} \cup Socks /\ addrs \in 0 .. MaxAddrs
        /\ socks \in [Socks -> {"unused", "open", "connected", "closed"}]
        /\ -1 \notin Socks
    BY DEF TypeOK, Socks
  <2>1. CASE InvalidArgs
    BY <2>1 DEF InvalidArgs
  <2>2. CASE Resolve
    BY <2>2 DEF Resolve
  <2>3. CASE SocketFails
    BY <2>0, <2>3 DEF SocketFails
  <2>4. CASE ConnectOk
    BY <2>0, <2>4 DEF ConnectOk, Socks
  <2>5. CASE ConnectFails
    BY <2>0, <2>5 DEF ConnectFails, Socks
  <2>6. CASE GiveUp
    BY <2>6 DEF GiveUp
  <2>17. CASE Interrupt
    BY <2>0, <2>17 DEF Interrupt, Socks
  <2>18. CASE WaitConnects
    BY <2>0, <2>18 DEF WaitConnects
  <2>19. CASE WaitFails \/ WaitAbandons
    BY <2>0, <2>19 DEF WaitFails, WaitAbandons, CloseSocket
  <2>7. CASE SoapSubmit
    BY <2>7 DEF SoapSubmit
  <2>8. CASE FetchSubmit
    BY <2>8 DEF FetchSubmit
  <2>9. CASE SubmitFails
    BY <2>0, <2>9 DEF SubmitFails, CloseSocket
  <2>10. CASE Receive
    <3>1. pc' \in {"nothing", "parse"} /\ UNCHANGED <<call, s, request>>
      BY <2>10 DEF Receive
    <3>2. CASE call = Fetch
      BY <2>10, <3>1, <3>2 DEF Receive
    <3>3. CASE call # Fetch
      BY <2>0, <2>10, <3>1, <3>3 DEF Receive, CloseSocket
    <3> QED
      BY <3>2, <3>3
  <2>11. CASE Parse
    BY <2>11 DEF Parse
  <2>12. CASE Result
    BY <2>12 DEF Result
  <2>13. CASE FetchReturns
    BY <2>13 DEF FetchReturns
  <2>14. CASE Nothing
    BY <2>14 DEF Nothing
  <2>15. CASE Gateway
    BY <2>15 DEF Gateway, Obey, Refuse, AnswerPage
  <2>16. CASE UNCHANGED vars
    BY <2>16 DEF vars
  <2> QED
    BY <2>1, <2>2, <2>3, <2>4, <2>5, <2>6, <2>7, <2>8, <2>9, <2>10, <2>11,
       <2>12, <2>13, <2>14, <2>15, <2>16, <2>17, <2>18, <2>19 DEF Next, Client, Returned
<1>3. SocketInv => OnlyConnectedUsed /\ SocketsClosed
  BY DEF SocketInv, OnlyConnectedUsed, SocketsClosed
<1>4. QED
  BY <1>1, <1>2, <1>3, CallTypes, PTL DEF Spec

\* Only a socket that was connected is written to or read, however many
\* addresses failed before it (connecthostport.c:190-229).
THEOREM ConnectedSafe == Spec => []OnlyConnectedUsed
  BY SocketsSafe, PTL

\* What is allocated at each point of the call.
MemoryInv ==
  LET args == IF HasArgs(call) THEN {"args"} ELSE {}
  IN  /\ pc = "call" => held = {}
      /\ pc \in {"connect", "interrupted", "send", "receive", "nothing"} => held = args
      /\ pc = "parse" => held = args \cup {"buffer"}
      /\ MemoryFreed

\* Every path of every function frees what it has allocated, but the pinhole
\* functions without an answer (upnpcommands.c:420-438, 826, 901).
THEOREM MemorySafe == Spec => []MemoryFreed
<1>1. Init => MemoryInv
  BY DEF Init, MemoryInv, MemoryFreed
<1>2. TypeOK /\ MemoryInv /\ [Next]_vars => MemoryInv'
  <2> SUFFICES ASSUME TypeOK, MemoryInv, [Next]_vars PROVE MemoryInv'
    OBVIOUS
  <2> USE DEF Goto, sockets, MemoryInv, MemoryFreed, HasArgs
  <2>1. CASE InvalidArgs
    BY <2>1 DEF InvalidArgs
  <2>2. CASE Resolve
    BY <2>2 DEF Resolve
  <2>3. CASE SocketFails \/ ConnectOk \/ ConnectFails \/ GiveUp
    BY <2>3 DEF SocketFails, ConnectOk, ConnectFails, GiveUp
  <2>14. CASE Interrupt \/ WaitConnects \/ WaitFails \/ WaitAbandons
    BY <2>14 DEF Interrupt, WaitConnects, WaitFails, WaitAbandons, CloseSocket
  <2>4. CASE SoapSubmit \/ FetchSubmit \/ SubmitFails
    BY <2>4 DEF SoapSubmit, FetchSubmit, SubmitFails
  <2>5. CASE Receive
    BY <2>5 DEF Receive
  <2>6. CASE Parse
    BY <2>6 DEF Parse
  <2>7. CASE Result
    BY <2>7 DEF Result, Verdict
  <2>8. CASE FetchReturns
    <3>1. ~HasArgs(Fetch)
      BY DEF Fetch, Orders, Pinholes, Entries
    <3> QED
      BY <2>8, <3>1 DEF FetchReturns
  <2>9. CASE Nothing
    <3>1. Fetch \notin Pinholes /\ \A c \in Pinholes : HasArgs(c)
      BY DEF Fetch, Pinholes
    <3> QED
      BY <2>9, <3>1 DEF Nothing
  <2>10. CASE Gateway
    BY <2>10 DEF Gateway, Obey, Refuse, AnswerPage
  <2>11. CASE UNCHANGED vars
    BY <2>11 DEF vars
  <2> QED
    BY <2>1, <2>2, <2>3, <2>4, <2>5, <2>6, <2>7, <2>8, <2>9, <2>10, <2>11,
       <2>14 DEF Next, Client, Returned
<1>3. MemoryInv => MemoryFreed
  BY DEF MemoryInv
<1>4. QED
  BY <1>1, <1>2, <1>3, CallTypes, PTL DEF Spec

\* How the answer, what has arrived of it and the result hang together.
AnswerInv ==
  /\ pc \in {"call", "connect", "interrupted", "send"} => request = "unsent"
  /\ gateway = "idle" => reply = <<>>
  /\ gateway # "idle" => request # "unsent"
  /\ gateway = "obeyed" => request = "all"
  /\ gateway = "refused" => Range(reply) \cap Wanted(call) = {}
  /\ Error \in Range(reply) => call # Fetch
  /\ buffer # <<>> => gateway # "idle" /\ Range(buffer) \subseteq Range(reply) \cup {Torn}
  /\ pc \notin {"parse", "result", "returned"} => buffer = <<>>
  /\ pc = "result" => call # Fetch
  /\ QuerySuccessIsTrue
  /\ RefusalTold

\* A success of a function that asks for values means that the gateway has
\* obeyed, and an error code that has arrived is reported, wherever the answer
\* was cut (upnpcommands.c:148-178, 384-391).
THEOREM AnswersSafe == Spec => []ResultIsTrue
<1>0. Range(<<>>) = {}
  BY DEF Range
<1>1. Init => AnswerInv
  BY <1>0 DEF Init, AnswerInv, QuerySuccessIsTrue, RefusalTold
<1>2. TypeOK /\ AnswerInv /\ [Next]_vars => AnswerInv'
  <2> SUFFICES ASSUME TypeOK, AnswerInv, [Next]_vars PROVE AnswerInv'
    OBVIOUS
  <2> USE DEF Goto, sockets, AnswerInv, QuerySuccessIsTrue, RefusalTold
  <2>1. CASE InvalidArgs
    BY <1>0, <2>1 DEF InvalidArgs
  <2>2. CASE Resolve
    BY <2>2 DEF Resolve
  <2>3. CASE SocketFails \/ ConnectOk \/ ConnectFails \/ GiveUp
    BY <2>3 DEF SocketFails, ConnectOk, ConnectFails, GiveUp
  <2>14. CASE Interrupt \/ WaitConnects \/ WaitFails \/ WaitAbandons
    BY <2>14 DEF Interrupt, WaitConnects, WaitFails, WaitAbandons, CloseSocket
  <2>4. CASE SoapSubmit \/ FetchSubmit \/ SubmitFails
    BY <2>4 DEF SoapSubmit, FetchSubmit, SubmitFails
  <2>5. CASE Receive
    <3>1. /\ buffer' \in Arrived(reply) /\ pc' = IF buffer' = <<>> THEN "nothing" ELSE "parse"
          /\ UNCHANGED <<call, request, gateway, reply, ret>> /\ pc = "receive"
      BY <2>5 DEF Receive
    <3>2. Range(buffer') \subseteq Range(reply) \cup {Torn}
      BY <3>1, ArrivedParts DEF TypeOK
    <3>3. reply = <<>> => buffer' = <<>>
      <4> DEFINE none == <<>>
      <4>0. Len(none) = 0 /\ SubSeq(none, 1, 0) = <<>>
        OBVIOUS
      <4>1. 0 .. 0 = {0} /\ 0 .. 0 - 1 = {}
        OBVIOUS
      <4> HIDE DEF none
      <4>2. {SubSeq(none, 1, k) : k \in 0 .. Len(none)} = {<<>>}
        BY <4>0, <4>1
      <4>3. {Append(SubSeq(none, 1, k), Torn) : k \in 0 .. Len(none) - 1} = {}
        BY <4>0, <4>1
      <4>4. Arrived(none) = {<<>>}
        BY <4>2, <4>3 DEF Arrived
      <4> USE DEF none
      <4> QED
        BY <3>1, <4>4
    <3> QED
      BY <3>1, <3>2, <3>3
  <2>6. CASE Parse
    BY <2>6 DEF Parse
  <2>7. CASE Result
    <3> DEFINE found == Range(buffer) \ {Torn}
    <3>1. ret' = Verdict(call, found) /\ UNCHANGED <<call, request, gateway, reply, buffer>>
      BY <2>7 DEF Result
    <3>2. Error \in Range(buffer) <=> Error \in found
      BY DEF Error, Torn
    <3>3. RefusalTold'
      BY <3>1, <3>2 DEF Verdict
    <3>4. QuerySuccessIsTrue'
      <4>1. SUFFICES ASSUME Content(call, found), Wanted(call) # {}
                     PROVE  gateway = "obeyed"
        BY <3>1 DEF Verdict
      <4>2. PICK w \in Wanted(call) : w \in found
        BY <4>1 DEF Content
      <4>3. buffer # <<>>
        BY <1>0, <4>2
      <4>4. w \in Range(reply)
        BY <4>2, <4>3
      <4> QED
        BY <4>2, <4>3, <4>4 DEF TypeOK
    <3> QED
      BY <2>7, <3>1, <3>3, <3>4 DEF Result
  <2>8. CASE FetchReturns
    <3>1. Error \notin Range(buffer)
      BY <1>0, <2>8 DEF FetchReturns, Error, Torn
    <3> QED
      BY <2>8, <3>1 DEF FetchReturns
  <2>9. CASE Nothing
    BY <1>0, <2>9 DEF Nothing
  <2>10. CASE Obey
    <3>1. Wanted(Fetch) = {}
      BY DEF Wanted, Fetch
    <3>2. Error \notin Range(reply')
      BY <2>10, ObeyedReply DEF Obey, TypeOK
    <3> QED
      BY <2>10, <3>2 DEF Obey
  <2>11. CASE Refuse
    <3> DEFINE answer == <<"envelope", Error, "end">>
    <3>1. Range(answer) = {"envelope", Error, "end"}
      BY DEF Range
    <3> HIDE DEF answer
    <3>2. reply' = answer
      BY <2>11 DEF Refuse, answer
    <3> QED
      BY <2>11, <3>1, <3>2, WantedNames DEF Refuse
  <2>12. CASE AnswerPage
    <3>1. Range(<<"page">>) = {"page"}
      BY OneElement
    <3> QED
      BY <2>12, <3>1, WantedNames DEF AnswerPage, Error
  <2>13. CASE UNCHANGED vars
    BY <2>13 DEF vars
  <2> QED
    BY <2>1, <2>2, <2>3, <2>4, <2>5, <2>6, <2>7, <2>8, <2>9, <2>10, <2>11,
       <2>12, <2>13, <2>14 DEF Next, Client, Gateway, Returned
<1>3. AnswerInv => ResultIsTrue
  BY DEF AnswerInv, ResultIsTrue
<1>4. QED
  BY <1>1, <1>2, <1>3, CallTypes, PTL DEF Spec
=============================================================================
