---------------------------- MODULE SoapCommand ----------------------------
(***************************************************************************)
(* One call into the gateway library: a function of upnpcommands.c with    *)
(* simpleUPnPcommand2() of miniupnpc.c below it, or miniwget() for a       *)
(* description; connecthostport() and soapPostSubmit() below both.  The    *)
(* gateway works on the request in its own time, the connection may break  *)
(* at any point, and the caller learns of it by a number only.             *)
(*                                                                         *)
(* What getHTTPResponse() returns is taken from Transfer: the body, or a   *)
(* first part of it.  A body is a sequence of elements; an element that    *)
(* has arrived in part counts as Torn.                                     *)
(***************************************************************************)
EXTENDS Integers, Sequences, SequencesExt

CONSTANTS
  Calls,    \* the functions this instance may call
  MaxAddrs  \* bound: addresses of the gateway's host name

Fetch == "miniwget"
Orders == {"AddPortMapping", "DeletePortMapping", "AddPinhole",
           "UpdatePinhole", "DeletePinhole", "GetOutboundPinholeTimeout"}
Pinholes == {"AddPinhole", "UpdatePinhole", "DeletePinhole",
             "GetOutboundPinholeTimeout", "CheckPinholeWorking",
             "GetPinholePackets"}
Entries == {"GetGenericPortMappingEntry", "GetSpecificPortMappingEntry",
            "GetListOfPortMappings"}
Totals == {"GetTotalBytesSent", "GetTotalBytesReceived",
           "GetTotalPacketsSent", "GetTotalPacketsReceived"}
Infos == {"GetStatusInfo", "GetConnectionTypeInfo", "GetLinkLayerMaxBitRates",
          "GetExternalIPAddress", "GetPortMappingNumberOfEntries",
          "GetFirewallStatus"}

ASSUME CallsAssumption ==
  /\ Calls \subseteq {Fetch} \cup Orders \cup Pinholes \cup Entries \cup Totals
                       \cup Infos
  /\ MaxAddrs \in Nat \ {0}

VARIABLES
  pc, call,
  addrs,    \* addresses connecthostport() has left to try
  s,        \* its socket, known by its address, or -1
  socks,    \* what became of the socket made for each address
  request,  \* how much of the request was sent
  gateway,  \* what the gateway has made of it
  reply,    \* the body it answers with
  buffer,   \* what of it is in the buffer
  held,     \* allocations of the call that are not freed yet
  ret       \* what the call returns

sockets == <<addrs, s, socks>>
vars == <<pc, call, sockets, request, gateway, reply, buffer, held, ret>>

-----------------------------------------------------------------------------
Socks == 1 .. MaxAddrs
Torn == "torn"
Error == "errorCode"

\* The elements a function asks the reply for, and when it is content.
Wanted(c) ==
  CASE c = "GetStatusInfo" -> {"NewUptime", "NewConnectionStatus"}
    [] c = "GetConnectionTypeInfo" -> {"NewConnectionType"}
    [] c = "GetLinkLayerMaxBitRates" ->
         {"NewLayer1DownstreamMaxBitRate", "NewLayer1UpstreamMaxBitRate"}
    [] c = "GetExternalIPAddress" -> {"NewExternalIPAddress"}
    [] c = "GetPortMappingNumberOfEntries" -> {"NewPortMappingNumberOfEntries"}
    [] c = "GetFirewallStatus" -> {"FirewallEnabled", "InboundPinholeAllowed"}
    [] c = "GetGenericPortMappingEntry" -> {"NewExternalPort", "NewInternalClient"}
    [] c = "GetSpecificPortMappingEntry" -> {"NewInternalClient"}
    [] c = "GetListOfPortMappings" -> {"NewPortListing"}
    [] c = "CheckPinholeWorking" -> {"IsWorking"}
    [] c = "GetPinholePackets" -> {"PinholePackets"}
    [] OTHER -> {}

\* What a body is made of.
Elements == {"envelope", "end", "page", Error} \cup UNION {Wanted(c) : c \in Calls}

Content(c, found) ==
  IF c = "GetGenericPortMappingEntry" THEN Wanted(c) \cap found # {}
  ELSE Wanted(c) \subseteq found

\* The result, from the elements found in the reply: an error code is looked
\* for last and overrides all else.
Verdict_CodeFirst(c, found) ==
  IF Content(c, found) THEN "success"
  ELSE IF Error \in found THEN "code" ELSE "unknown"
Verdict(c, found) ==
  IF c \in Totals THEN "value"
  ELSE IF Error \in found THEN "code"
  ELSE IF Content(c, found) THEN "success" ELSE "unknown"

HasArgs(c) == c \in Orders \cup Pinholes \cup Entries
Goto(p) == pc' = p

Init ==
  /\ pc = "call" /\ call \in Calls
  /\ addrs = 0 /\ s = -1 /\ socks = [i \in Socks |-> "unused"]
  /\ request = "unsent" /\ gateway = "idle" /\ reply = <<>>
  /\ buffer = <<>> /\ held = {} /\ ret = "none"

-----------------------------------------------------------------------------
\* A pointer the function needs is missing.
InvalidArgs ==
  /\ pc = "call" /\ call \notin Totals \cup {Fetch, "GetPortMappingNumberOfEntries"}
  /\ ret' = "invalid" /\ Goto("returned")
  /\ UNCHANGED <<call, sockets, request, gateway, reply, buffer, held>>

\* The argument array is made, the URL taken apart and the name resolved.
Resolve ==
  /\ pc = "call"
  /\ held' = IF HasArgs(call) THEN {"args"} ELSE {}
  /\ \/ addrs' \in 1 .. MaxAddrs /\ Goto("connect")
     \/ Goto("nothing") /\ UNCHANGED addrs
  /\ UNCHANGED <<call, s, socks, request, gateway, reply, buffer, ret>>

CloseSocket == socks' = [socks EXCEPT ![s] = "closed"]

\* connecthostport(), lines 171-226, one turn of the loop.
SocketFails_Unchecked ==
  /\ pc = "connect"
  /\ addrs' = addrs - 1 /\ s' = -1
  /\ UNCHANGED <<pc, call, socks, request, gateway, reply, buffer, held, ret>>

SocketFails ==
  /\ pc = "connect" /\ addrs > 0
  /\ addrs' = addrs - 1 /\ s' = -1
  /\ UNCHANGED <<pc, call, socks, request, gateway, reply, buffer, held, ret>>

ConnectOk ==
  /\ pc = "connect" /\ addrs > 0
  /\ s' = addrs /\ socks' = [socks EXCEPT ![addrs] = "connected"]
  /\ Goto("send")
  /\ UNCHANGED <<call, addrs, request, gateway, reply, buffer, held, ret>>

ConnectFails_KeepsSocket ==
  /\ pc = "connect" /\ addrs > 0
  /\ addrs' = addrs - 1
  /\ s' = addrs /\ socks' = [socks EXCEPT ![addrs] = "open"]
  /\ UNCHANGED <<pc, call, request, gateway, reply, buffer, held, ret>>

ConnectFails ==
  /\ pc = "connect" /\ addrs > 0
  /\ addrs' = addrs - 1
  /\ s' = addrs /\ socks' = [socks EXCEPT ![addrs] = "closed"]
  /\ UNCHANGED <<pc, call, request, gateway, reply, buffer, held, ret>>

\* A signal ends connect() before its outcome is known.  The wait for it is
\* taken up again as often as signals come (lines 193-202).
Interrupt ==
  /\ pc = "connect" /\ addrs > 0
  /\ s' = addrs /\ socks' = [socks EXCEPT ![addrs] = "open"]
  /\ Goto("interrupted")
  /\ UNCHANGED <<call, addrs, request, gateway, reply, buffer, held, ret>>

WaitConnects ==
  /\ pc = "interrupted"
  /\ socks' = [socks EXCEPT ![s] = "connected"]
  /\ Goto("send")
  /\ UNCHANGED <<call, addrs, s, request, gateway, reply, buffer, held, ret>>

WaitFails ==
  /\ pc = "interrupted"
  /\ addrs' = addrs - 1 /\ CloseSocket
  /\ Goto("connect")
  /\ UNCHANGED <<call, s, request, gateway, reply, buffer, held, ret>>

\* getsockopt() fails: the addresses that are left are not tried.
WaitAbandons ==
  /\ pc = "interrupted"
  /\ CloseSocket
  /\ Goto("nothing")
  /\ UNCHANGED <<call, addrs, s, request, gateway, reply, buffer, held, ret>>

\* Lines 228-239: s is the last socket tried, closed or never made.
GiveUp_ChecksSocket ==
  /\ pc = "connect" /\ addrs = 0
  /\ IF s < 0 THEN Goto("nothing") ELSE Goto("send")
  /\ UNCHANGED <<call, sockets, request, gateway, reply, buffer, held, ret>>

GiveUp ==
  /\ pc = "connect" /\ addrs = 0
  /\ Goto("nothing")
  /\ UNCHANGED <<call, sockets, request, gateway, reply, buffer, held, ret>>

-----------------------------------------------------------------------------
\* One send() for the header and the body; that a part of it was sent is no
\* error (lines 197-204 and httpWrite()).
SoapSubmit ==
  /\ pc = "send" /\ call # Fetch
  /\ request' \in {"part", "all"}
  /\ Goto("receive")
  /\ UNCHANGED <<call, sockets, gateway, reply, buffer, held, ret>>

\* miniwget3() sends until all is sent (lines 352-365).
FetchSubmit ==
  /\ pc = "send" /\ call = Fetch
  /\ request' = "all"
  /\ Goto("receive")
  /\ UNCHANGED <<call, sockets, gateway, reply, buffer, held, ret>>

\* send() fails, of a fetch perhaps after a part; or no memory for a request.
SubmitFails_KeepsSocket ==
  /\ pc = "send"
  /\ request' \in IF call = Fetch THEN {"unsent", "part"} ELSE {"unsent"}
  /\ Goto("nothing")
  /\ UNCHANGED <<call, sockets, gateway, reply, buffer, held, ret>>

SubmitFails ==
  /\ pc = "send"
  /\ request' \in IF call = Fetch THEN {"unsent", "part"} ELSE {"unsent"}
  /\ CloseSocket
  /\ Goto("nothing")
  /\ UNCHANGED <<call, addrs, s, gateway, reply, buffer, held, ret>>

-----------------------------------------------------------------------------
\* The gateway (external): it obeys, refuses with an error code, or answers
\* with a page of its web server, all in its own time.
Obey ==
  /\ request = "all" /\ gateway = "idle"
  /\ gateway' = "obeyed"
  /\ \E values \in SetToSeqs(Wanted(call)) :
       reply' = <<"envelope">> \o values \o <<"end">>
  /\ UNCHANGED <<pc, call, sockets, request, buffer, held, ret>>

Refuse ==
  /\ request = "all" /\ gateway = "idle" /\ call # Fetch
  /\ gateway' = "refused" /\ reply' = <<"envelope", Error, "end">>
  /\ UNCHANGED <<pc, call, sockets, request, buffer, held, ret>>

AnswerPage ==
  /\ request \in {"part", "all"} /\ gateway = "idle"
  /\ gateway' = "refused" /\ reply' = <<"page">>
  /\ UNCHANGED <<pc, call, sockets, request, buffer, held, ret>>

-----------------------------------------------------------------------------
\* What of the body b may have arrived when the connection or the caller's
\* patience ends: all, or some elements and perhaps a part of the next.
Arrived(b) ==
  {SubSeq(b, 1, k) : k \in 0 .. Len(b)}
    \cup {Append(SubSeq(b, 1, k), Torn) : k \in 0 .. Len(b) - 1}

Receive_Waits ==
  /\ pc = "receive" /\ reply # <<>>
  /\ \E b \in Arrived(reply) :
       /\ buffer' = b
       /\ held' = IF b = <<>> THEN held ELSE held \cup {"buffer"}
       /\ Goto(IF b = <<>> THEN "nothing" ELSE "parse")
  /\ IF call = Fetch THEN UNCHANGED socks ELSE CloseSocket
  /\ UNCHANGED <<call, addrs, s, request, gateway, reply, ret>>

\* getHTTPResponse() and, but for a fetch, closesocket().
Receive ==
  /\ pc = "receive"
  /\ \E b \in Arrived(reply) :
       /\ buffer' = b
       /\ held' = IF b = <<>> THEN held ELSE held \cup {"buffer"}
       /\ Goto(IF b = <<>> THEN "nothing" ELSE "parse")
  /\ IF call = Fetch THEN UNCHANGED socks ELSE CloseSocket
  /\ UNCHANGED <<call, addrs, s, request, gateway, reply, ret>>

\* ParseNameValue() makes a list of the elements; the buffer is freed, and
\* by GetListOfPortMappings the arguments.
Parse ==
  /\ pc = "parse" /\ call # Fetch
  /\ held' = IF call = "GetListOfPortMappings" THEN {"list"}
             ELSE (held \ {"buffer"}) \cup {"list"}
  /\ Goto("result")
  /\ UNCHANGED <<call, sockets, request, gateway, reply, buffer, ret>>

\* The list is read, then freed with the arguments.
Result ==
  /\ pc = "result"
  /\ ret' = Verdict(call, Range(buffer) \ {Torn})
  /\ held' = {}
  /\ Goto("returned")
  /\ UNCHANGED <<call, sockets, request, gateway, reply, buffer>>

\* miniwget() hands the buffer to its caller.
FetchReturns ==
  /\ pc = "parse" /\ call = Fetch
  /\ ret' = "buffer" /\ Goto("returned")
  /\ UNCHANGED <<call, sockets, request, gateway, reply, buffer, held>>

\* There is no buffer.  The functions for pinholes return at once, the others
\* free the arguments.
Nothing_Returns ==
  /\ pc = "nothing"
  /\ ret' = IF call = Fetch THEN "null" ELSE "http"
  /\ Goto("returned")
  /\ UNCHANGED <<call, sockets, request, gateway, reply, buffer, held>>

Nothing ==
  /\ pc = "nothing"
  /\ ret' = IF call = Fetch THEN "null" ELSE "http"
  /\ held' = IF call \in Pinholes THEN held ELSE {}
  /\ Goto("returned")
  /\ UNCHANGED <<call, sockets, request, gateway, reply, buffer>>

Client ==
  \/ InvalidArgs \/ Resolve \/ SocketFails \/ ConnectOk \/ ConnectFails
  \/ Interrupt \/ WaitConnects \/ WaitFails \/ WaitAbandons \/ GiveUp
  \/ SoapSubmit \/ FetchSubmit \/ SubmitFails \/ Receive \/ Parse \/ Result
  \/ FetchReturns \/ Nothing

Gateway == Obey \/ Refuse \/ AnswerPage
Returned == pc = "returned" /\ UNCHANGED vars
Next == Client \/ Gateway \/ Returned

\* Every wait of the caller has a limit, which for an interrupted connect() is
\* the kernel's own, and signals cease; the gateway owes nothing.
Spec == Init /\ [][Next]_vars /\ WF_vars(Client)

-----------------------------------------------------------------------------
TypeOK ==
  /\ pc \in {"call", "connect", "interrupted", "send", "receive", "parse", "result", "nothing",
             "returned"}
  /\ call \in Calls /\ addrs \in 0 .. MaxAddrs /\ s \in {-1} \cup Socks
  /\ socks \in [Socks -> {"unused", "open", "connected", "closed"}]
  /\ request \in {"unsent", "part", "all"}
  /\ gateway \in {"idle", "obeyed", "refused"}
  /\ reply \in Seq(Elements) /\ buffer \in Seq(Elements \cup {Torn})
  /\ held \subseteq {"args", "buffer", "list"}
  /\ ret \in {"none", "invalid", "http", "null", "buffer", "value", "code",
              "success", "unknown"}

\* The request and the answer go over a socket that is connected and open,
\* never over one that a turn of the loop has closed, and that is
\* closed once only (connecthostport.c:217-237, miniupnpc.c:202, 213).
OnlyConnectedUsed ==
  pc \in {"send", "receive"} => s # -1 /\ socks[s] = "connected"

\* When a call is over its sockets are closed, on every path of failure too;
\* only a fetch that has got as far as its answer keeps one.
SocketsClosed ==
  pc = "returned" =>
    \A i \in Socks : socks[i] \in {"open", "connected"} =>
                      call = Fetch /\ i = s /\ request = "all"

\* When a call is over nothing is left allocated but what a fetch returns,
\* and the arguments of a pinhole function that got no answer.
MemoryFreed ==
  pc = "returned" =>
    held = IF ret = "buffer" THEN {"buffer"}
           ELSE IF ret = "http" /\ call \in Pinholes THEN {"args"} ELSE {}

\* A function that asks for something succeeds only if the gateway has obeyed
\* the whole request.
QuerySuccessIsTrue ==
  ret = "success" /\ Wanted(call) # {} => request = "all" /\ gateway = "obeyed"

\* A refusal of which the error code has arrived is reported as such.
RefusalTold ==
  pc = "returned" /\ Error \in Range(buffer) =>
    ret = IF call \in Totals THEN "value" ELSE "code"

\* The result of a function that asks for something is true of the gateway,
\* wherever its answer was cut (upnpcommands.c:148-178).
ResultIsTrue == QuerySuccessIsTrue /\ RefusalTold

\* A call ends, whatever the gateway does.
Ends == <>(pc = "returned")

-----------------------------------------------------------------------------
\* "0 : SUCCESS, NON ZERO : ERROR. Either an UPnP error code or an unknown
\* error." (upnpcommands.h:96-97, AddPortMapping.)
SuccessMeansObeyed == ret = "success" => gateway = "obeyed"
=============================================================================
