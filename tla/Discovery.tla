----------------------------- MODULE Discovery -----------------------------
(***************************************************************************)
(* How avremote finds its renderer: upnp_discover() of discover.c, with    *)
(* upnpDiscover() and UPNP_GetValidIGD() of the MiniUPnP client library    *)
(* below it.  Searches go out as multicast datagrams, one device type at a *)
(* time; answers are lost, repeated and late.  The answers are then sorted *)
(* by fetching each device's description, up to three times, and any of    *)
(* the fetches may fail.  The library is made for Internet gateways (IGD); *)
(* a renderer is what is left when no gateway is found.                    *)
(***************************************************************************)
EXTENDS Integers, Sequences, FiniteSets

CONSTANTS
  Devices,   \* the UPnP devices of the network; a device stands for its URL
  Igds,      \* those whose description has a WANCommonInterfaceConfig
  Twofold,   \* those of the gateways with two WAN connection services
  Nobody,    \* no device
  MaxAnswers \* bound: datagrams that answer the searches of one run

ASSUME DevicesAssumption ==
  /\ IsFiniteSet(Devices) /\ Twofold \subseteq Igds /\ Igds \subseteq Devices
  /\ Nobody \notin Devices /\ MaxAnswers \in Nat

\* deviceList, of which deviceIndex is the next to search for.
Types == <<"igd", "wanip", "wanppp", "root">>
Root == "root"

VARIABLES
  pc,
  daemon,    \* the devices a minissdpd knows
  index,     \* deviceIndex
  sudp,      \* is the socket open
  asked,     \* the types that were searched for on the network
  answers,   \* datagrams on their way
  budget,    \* datagrams the devices may still send
  devlist,   \* the list, its head first
  error,     \* *error of upnpDiscover()
  state, at, \* the loops of UPNP_GetValidIGD(): the pass, the place in devlist
  swapped,   \* is the second connection service being tried
  missed,    \* passes and devices: where the description did not come
  urls,      \* the device *urls is set for, Nobody if it holds nothing
  r, num,    \* what UPNP_GetValidIGD() and upnp_discover() return
  target     \* upnp->hostname and upnp->port

search == <<daemon, index, sudp, asked, answers, budget, devlist, error>>
sorting == <<state, at, swapped, missed, urls, r>>
vars == <<pc, search, sorting, num, target>>

-----------------------------------------------------------------------------
AnswersTo(d) == IF d \in Igds THEN {"igd", "wanip", Root} ELSE {Root}
Reply == [url : Devices, st : {"igd", "wanip", "wanppp", Root}]
Goto(p) == pc' = p

\* The lists a daemon may give for a type: its devices in any order.
ListsOf(t) ==
  LET known == {d \in daemon : t \in AnswersTo(d)}
  IN  {s \in [1 .. Cardinality(known) -> [url : known, st : {t}]] :
         \A i, j \in DOMAIN s : i # j => s[i] # s[j]}

Init ==
  /\ pc = "minissdpd" /\ daemon \in SUBSET Devices
  /\ index = 1 /\ sudp = FALSE /\ asked = {} /\ answers = {}
  /\ budget = MaxAnswers /\ devlist = <<>> /\ error = "unknown"
  /\ state = 1 /\ at = 1 /\ swapped = FALSE /\ missed = {} /\ urls = Nobody /\ r = 0
  /\ num = 0 /\ target = Nobody

-----------------------------------------------------------------------------
\* Lines 362-376, getDevicesFromMiniSSDPD(): the daemon is asked for one type
\* after the other, and may not answer.  More than root devices is enough.
AskDaemon ==
  /\ pc = "minissdpd" /\ devlist = <<>> /\ index <= Len(Types)
  /\ devlist' \in ListsOf(Types[index]) \cup {<<>>}
  /\ IF devlist' # <<>> /\ Types[index] # Root
     THEN /\ error' = "success" /\ Goto("valid") /\ UNCHANGED index
     ELSE /\ index' = index + 1 /\ UNCHANGED <<pc, error>>
  /\ UNCHANGED <<daemon, sudp, asked, answers, budget, sorting, num, target>>

\* Lines 377-391.
DaemonDone ==
  /\ pc = "minissdpd" /\ (devlist # <<>> \/ index > Len(Types))
  /\ index' = 1
  /\ \/ sudp' = TRUE /\ Goto("bind") /\ UNCHANGED <<devlist, error>>
     \/ sudp' = FALSE /\ devlist' = <<>> /\ error' = "socket" /\ Goto("valid")
  /\ UNCHANGED <<daemon, asked, answers, budget, sorting, num, target>>

\* Lines 470-516: setsockopt() and bind().  The first forgets the socket, both
\* forget the list.
Bind ==
  /\ pc = "bind"
  /\ \/ Goto("send") /\ UNCHANGED <<sudp, devlist, error>>
     \/ /\ sudp' \in BOOLEAN /\ devlist' = <<>> /\ error' = "socket"
        /\ Goto("valid")
  /\ UNCHANGED <<daemon, index, asked, answers, budget, sorting, num, target>>

\* Lines 523-588: the search for one type, sent or not.
Send ==
  /\ pc = "send"
  /\ asked' = asked \cup {Types[index]} /\ index' = index + 1
  /\ Goto("wait")
  /\ UNCHANGED <<daemon, sudp, answers, budget, devlist, error, sorting, num,
                 target>>

\* getaddrinfo() fails and the socket is forgotten, or sendto() does.
SendFails ==
  /\ pc = "send"
  /\ index' = index + 1 /\ error' = "socket" /\ sudp' \in BOOLEAN
  /\ Goto("valid")
  /\ UNCHANGED <<daemon, asked, answers, budget, devlist, sorting, num, target>>

\* A device (external) answers a search it was sent, once or again.
Answer ==
  /\ budget > 0 /\ budget' = budget - 1
  /\ \E d \in Devices : \E t \in AnswersTo(d) \cap asked :
       answers' = answers \cup {[url |-> d, st |-> t]}
  /\ UNCHANGED <<pc, daemon, index, sudp, asked, devlist, error, sorting, num,
                 target>>

Lose ==
  /\ \E a \in answers : answers' = answers \ {a}
  /\ UNCHANGED <<pc, daemon, index, sudp, asked, budget, devlist, error,
                 sorting, num, target>>

-----------------------------------------------------------------------------
Known_ByType(a) == \E i \in DOMAIN devlist : devlist[i] = a /\ a.st # Root
Known(a) == \E i \in DOMAIN devlist : devlist[i] = a

\* Lines 607-645: an answer that is not in the list yet becomes its head.
Receive ==
  /\ pc = "wait"
  /\ \E a \in answers :
       /\ answers' = answers \ {a}
       /\ devlist' = IF Known(a) THEN devlist ELSE <<a>> \o devlist
  /\ UNCHANGED <<pc, daemon, index, sudp, asked, budget, error, sorting, num,
                 target>>

\* Lines 631-637: no memory for it; the socket is forgotten.
ReceiveNoMemory ==
  /\ pc = "wait" /\ \E a \in answers : ~Known(a) /\ answers' = answers \ {a}
  /\ error' = "memory" /\ Goto("valid")
  /\ UNCHANGED <<daemon, index, sudp, asked, budget, devlist, sorting, num,
                 target>>

\* Lines 598-606: silence.  A list ends the search, as does the last type.
SearchOver == devlist # <<>> \/ index > Len(Types)

Silence ==
  /\ pc = "wait"
  /\ IF SearchOver THEN error' = "success" /\ sudp' = FALSE /\ Goto("valid")
     ELSE Goto("send") /\ UNCHANGED <<error, sudp>>
  /\ UNCHANGED <<daemon, index, asked, answers, budget, devlist, sorting, num,
                 target>>

\* Lines 592-597.
WaitFails ==
  /\ pc = "wait"
  /\ error' = "socket" /\ sudp' = FALSE /\ Goto("valid")
  /\ UNCHANGED <<daemon, index, asked, answers, budget, devlist, sorting, num,
                 target>>

-----------------------------------------------------------------------------
\* UPNP_GetValidIGD() (lines 783-862): three passes over the list.
Dev == devlist[at].url

ReturnValid(v) == r' = v /\ Goto("pick")

PassesOver_OffByOne == state > 4
PassesOver == state > 3

\* The list is empty, or the third pass is over.
GetValidNothing ==
  /\ pc = "valid" /\ (devlist = <<>> \/ PassesOver)
  /\ ReturnValid(0)
  /\ UNCHANGED <<search, state, at, swapped, missed, urls, num, target>>

NextPass ==
  /\ pc = "valid" /\ devlist # <<>> /\ ~PassesOver /\ at > Len(devlist)
  /\ state' = state + 1 /\ at' = 1
  /\ UNCHANGED <<pc, search, swapped, missed, urls, r, num, target>>

\* Lines 807-809 and 856: no description comes, or, of a gateway, only a first
\* part that does not tell what it is (the last pass does not ask).
MissDevice ==
  /\ pc = "valid" /\ ~PassesOver /\ at <= Len(devlist)
  /\ missed' = missed \cup {<<state, Dev>>} /\ at' = at + 1
  /\ UNCHANGED <<pc, search, state, swapped, urls, r, num, target>>

\* Lines 807-821: the description is there, and it is that of a gateway or the
\* pass takes anything.
Takes_Early == Dev \in Igds \/ state >= 2
Takes == Dev \in Igds \/ state >= 3

\* Lines 817 and 854: it is of no use in this pass.
SkipDevice ==
  /\ pc = "valid" /\ ~PassesOver /\ at <= Len(devlist)
  /\ ~Takes
  /\ at' = at + 1
  /\ UNCHANGED <<pc, search, state, swapped, missed, urls, r, num, target>>

FetchDevice ==
  /\ pc = "valid" /\ ~PassesOver /\ at <= Len(devlist)
  /\ Takes
  /\ urls' = Dev /\ swapped' = FALSE
  /\ Goto("check")
  /\ UNCHANGED <<search, state, at, missed, r, num, target>>

\* Lines 828-829 and 846-847; only the first pass asks if the gateway is
\* connected.
Accept ==
  /\ pc = "check"
  /\ ReturnValid(state)
  /\ UNCHANGED <<search, state, at, swapped, missed, urls, num, target>>

FreeUrls_Forgotten == UNCHANGED urls
FreeUrls == urls' = Nobody

\* Lines 830-850: not connected, or the question was not answered.  The second
\* connection service is tried once.
Reject ==
  /\ pc = "check" /\ state = 1
  /\ FreeUrls
  /\ IF Dev \in Twofold /\ ~swapped THEN Goto("swap") /\ UNCHANGED at
     ELSE Goto("valid") /\ at' = at + 1
  /\ UNCHANGED <<search, state, swapped, missed, r, num, target>>

Swap_Forgotten ==
  /\ pc = "swap" /\ urls' = Dev /\ Goto("check")
  /\ UNCHANGED <<search, state, at, swapped, missed, r, num, target>>

Swap ==
  /\ pc = "swap"
  /\ swapped' = TRUE /\ urls' = Dev
  /\ Goto("check")
  /\ UNCHANGED <<search, state, at, missed, r, num, target>>

-----------------------------------------------------------------------------
\* upnp_discover() (discover.c:56-98): every entry of the list is counted and
\* the first is the target, if what was found is not a gateway.  The urls of a
\* gateway are not freed.
Count_One(l) == IF l = <<>> THEN 0 ELSE 1
Count(l) == Len(l)

Pick ==
  /\ pc = "pick"
  /\ IF r = 3 THEN /\ num' = Count(devlist) /\ target' = devlist[1].url
                   /\ FreeUrls
     ELSE UNCHANGED <<num, target, urls>>
  /\ Goto("exit")
  /\ UNCHANGED <<search, state, at, swapped, missed, r>>

Program ==
  \/ AskDaemon \/ DaemonDone \/ Bind \/ Send \/ SendFails
  \/ Receive \/ ReceiveNoMemory \/ Silence \/ WaitFails
  \/ GetValidNothing \/ NextPass \/ MissDevice \/ SkipDevice \/ FetchDevice
  \/ Accept \/ Reject \/ Swap \/ Pick

Stopped == pc = "exit" /\ UNCHANGED vars
Next == Program \/ Answer \/ Lose \/ Stopped

\* Every wait has a limit (receivedata.c:47), every fetch an end.
Spec == Init /\ [][Next]_vars /\ WF_vars(Program)

-----------------------------------------------------------------------------
TypeOK ==
  /\ pc \in {"minissdpd", "bind", "send", "wait", "valid", "check", "swap",
             "pick", "exit"}
  /\ daemon \subseteq Devices /\ index \in 1 .. Len(Types) + 1
  /\ sudp \in BOOLEAN /\ asked \subseteq {"igd", "wanip", "wanppp", Root}
  /\ answers \subseteq Reply /\ budget \in 0 .. MaxAnswers
  /\ devlist \in Seq(Reply)
  /\ error \in {"unknown", "socket", "memory", "success"}
  /\ state \in 1 .. 4 /\ at \in Nat /\ swapped \in BOOLEAN
  /\ missed \subseteq (1 .. 3) \X Devices
  /\ urls \in Devices \cup {Nobody} /\ r \in 0 .. 3
  /\ num \in Nat /\ target \in Devices \cup {Nobody}

\* However often a device repeats its answer, it is listed once per type; main()
\* counts the entries, and would refuse to choose between equal ones.
ListedOnce ==
  \A i, j \in DOMAIN devlist : i # j => devlist[i] # devlist[j]

\* The renderer main() goes on with (num = 1) is the one whose description was
\* fetched last, although upnp_discover() takes the head of the list and
\* UPNP_GetValidIGD() says of no entry that it means that one.
TargetWasFetched ==
  pc = "exit" /\ num = 1 => target = Dev

\* The urls of one device are freed before those of the next are made, so that
\* at most one set is ever lost; it is lost when a gateway is returned.
UrlsFreedBeforeReuse ==
  [][/\ pc # "check" /\ pc' = "check" => urls = Nobody
     /\ pc # "exit" /\ pc' = "exit" /\ r \in {0, 3} => urls' = Nobody]_vars

\* What the list, the passes and the result of UPNP_GetValidIGD() have to do with
\* each other.
Listed(D) == {d \in D : \E k \in DOMAIN devlist : devlist[k].url = d}
Earned ==
  /\ r = 0 => {3} \X Listed(Devices) \subseteq missed
  /\ r \in {1, 2} => Dev \in Igds
  /\ r = 3 => {2} \X Listed(Igds) \subseteq missed

\* A gateway is left to be played to only if, in the second pass, the description
\* of each gateway of the list did not come; what is left out altogether is a list
\* of which no description came in the last pass; and what counts as a gateway is
\* one, whatever failed before and between the passes (miniupnpc.c:801-858).
Verdict == pc = "exit" => Earned

\* Whatever is lost or repeated, the discovery ends.
Terminates == <>(pc = "exit")

=============================================================================
