--------------------------- MODULE DiscoveryProofs ---------------------------
(***************************************************************************)
(* Theorems about Discovery, for any network, any daemon and any number of *)
(* answers; the last one is that it implements the step of AVRemote that   *)
(* stands for it.                                                          *)
(***************************************************************************)
EXTENDS Discovery, FiniteSetTheorems, SequenceTheorems, TLAPS

Searching == {"minissdpd", "bind", "send", "wait"}

\* What is known of the list while it is being sorted, and of what is in use.
Inside ==
  /\ pc \in {"bind", "send"} => index <= 4
  /\ pc \in {"check", "swap"} => state <= 3
  /\ pc \in {"check", "swap"} \/ (pc = "pick" /\ r # 0) => at <= Len(devlist)
UrlsInUse ==
  /\ pc \in Searching \cup {"valid", "swap"} => urls = Nobody
  /\ pc = "pick" /\ r = 0 => urls = Nobody
Outcome ==
  /\ pc # "exit" => num = 0
  /\ pc = "exit" /\ num = 1 => at = 1 /\ target = devlist[1].url

\* TypeOK is not inductive without the bounds of the loops.
IInv ==
  /\ TypeOK /\ at # 0 /\ ListedOnce
  /\ Inside /\ UrlsInUse /\ Outcome

Names == {"igd", "wanip", "wanppp", Root}

LEMMA TypeNames == Len(Types) = 4 /\ \A k \in 1 .. 4 : Types[k] \in Names
  BY DEF Types, Names, Root

LEMMA AnswerNames == \A d \in Devices : AnswersTo(d) \subseteq Names
  BY DEF AnswersTo, Names

\* What a daemon tells is a list of different answers.
LEMMA Lists ==
  ASSUME daemon \subseteq Devices, NEW t \in Names, NEW s \in ListsOf(t)
  PROVE  s \in Seq(Reply) /\ \A j, k \in DOMAIN s : j # k => s[j] # s[k]
<1> DEFINE known == {d \in daemon : t \in AnswersTo(d)}
<1>1. IsFiniteSet(known)
  <2>1. known \subseteq Devices
    OBVIOUS
  <2> QED
    BY <2>1, FS_Subset, DevicesAssumption
<1>2. Cardinality(known) \in Nat
  BY <1>1, FS_CardinalityType
<1>3. /\ s \in [1 .. Cardinality(known) -> [url : known, st : {t}]]
      /\ \A j, k \in DOMAIN s : j # k => s[j] # s[k]
  BY DEF ListsOf
<1>4. [url : known, st : {t}] \subseteq Reply
  BY DEF Reply, Names
<1> HIDE DEF known
<1>5. s \in [1 .. Cardinality(known) -> Reply]
  BY <1>3, <1>4
<1>6. s \in Seq(Reply)
  BY <1>2, <1>5, SeqDef
<1> QED
  BY <1>3, <1>6

\* An answer in front of the list.
LEMMA NewHead ==
  ASSUME NEW l \in Seq(Reply), NEW a \in Reply,
         \A k \in DOMAIN l : l[k] # a,
         \A j, k \in DOMAIN l : j # k => l[j] # l[k]
  PROVE  /\ <<a>> \o l \in Seq(Reply)
         /\ \A j, k \in DOMAIN (<<a>> \o l) : j # k => (<<a>> \o l)[j] # (<<a>> \o l)[k]
<1> DEFINE m == <<a>> \o l
<1>1. <<a>> \in Seq(Reply) /\ Len(<<a>>) = 1 /\ <<a>>[1] = a
  OBVIOUS
<1>2. Len(l) \in Nat /\ DOMAIN l = 1 .. Len(l)
  BY LenProperties
<1>3. /\ m \in Seq(Reply) /\ Len(m) = 1 + Len(l)
      /\ \A k \in 1 .. 1 + Len(l) : m[k] = IF k <= 1 THEN a ELSE l[k - 1]
  BY <1>1, <1>2, ConcatProperties
<1> HIDE DEF m
<1>4. DOMAIN m = 1 .. 1 + Len(l)
  BY <1>3, LenProperties
<1>5. ASSUME NEW j \in DOMAIN m, NEW k \in DOMAIN m, j # k
      PROVE  m[j] # m[k]
  <2>1. CASE j = 1
    <3>1. k - 1 \in DOMAIN l /\ m[j] = a /\ m[k] = l[k - 1]
      BY <1>2, <1>3, <1>4, <1>5, <2>1
    <3> QED
      BY <3>1
  <2>2. CASE k = 1
    <3>1. j - 1 \in DOMAIN l /\ m[k] = a /\ m[j] = l[j - 1]
      BY <1>2, <1>3, <1>4, <1>5, <2>2
    <3> QED
      BY <3>1
  <2>3. CASE j # 1 /\ k # 1
    <3>1. /\ j - 1 \in DOMAIN l /\ k - 1 \in DOMAIN l /\ j - 1 # k - 1
          /\ m[j] = l[j - 1] /\ m[k] = l[k - 1]
      BY <1>2, <1>3, <1>4, <1>5, <2>3
    <3> QED
      BY <3>1
  <2> QED
    BY <2>1, <2>2, <2>3
<1> QED
  BY <1>3, <1>5 DEF m

-----------------------------------------------------------------------------
LEMMA Initially == Init => IInv
<1> SUFFICES ASSUME Init PROVE IInv
  OBVIOUS
<1>1. TypeOK
  <2>1. devlist \in Seq(Reply)
    BY EmptySeq DEF Init
  <2>2. index \in 1 .. Len(Types) + 1 /\ budget \in 0 .. MaxAnswers
    BY TypeNames, DevicesAssumption DEF Init
  <2>3. state \in 1 .. 4 /\ at \in Nat /\ r \in 0 .. 3 /\ num \in Nat
    BY DEF Init
  <2>4. sudp \in BOOLEAN /\ swapped \in BOOLEAN
    BY Zenon DEF Init
  <2> QED
    BY <2>1, <2>2, <2>3, <2>4, Zenon DEF Init, TypeOK
<1>2. ListedOnce
  BY DEF Init, ListedOnce
<1> QED
  BY <1>1, <1>2 DEF Init, IInv, Inside, UrlsInUse, Outcome, Searching

\* The search: answers come, are put into the list, and the socket is closed.
LEMMA SearchStep ==
  ASSUME IInv, AskDaemon \/ DaemonDone \/ Bind \/ Send \/ SendFails \/ Receive
               \/ ReceiveNoMemory \/ Silence \/ WaitFails \/ Answer \/ Lose
  PROVE  IInv'
<1> USE DEF Goto, search, sorting
<1>0. /\ TypeOK /\ Len(Types) = 4 /\ IsFiniteSet(Devices) /\ ListedOnce
      /\ <<>> \in Seq(Reply) /\ DOMAIN (<<>> ) = {}
  BY TypeNames, EmptySeq, DevicesAssumption DEF IInv
<1>1. CASE AskDaemon
  <2>1. Types[index] \in Names /\ index \in 1 .. 4
    BY <1>0, <1>1, TypeNames DEF AskDaemon, TypeOK
  <2>2. devlist' \in Seq(Reply) /\ ListedOnce'
    <3>1. CASE devlist' = <<>>
      BY <1>0, <3>1 DEF ListedOnce
    <3>2. CASE devlist' \in ListsOf(Types[index])
      BY <1>0, <2>1, <3>2, Lists DEF TypeOK, ListedOnce
    <3> QED
      BY <1>1, <3>1, <3>2 DEF AskDaemon
  <2> QED
    BY <1>0, <1>1, <2>1, <2>2 DEF AskDaemon, IInv, TypeOK, Inside, UrlsInUse, Outcome, Searching
<1>2. CASE DaemonDone
  <2>1. devlist' \in Seq(Reply) /\ ListedOnce'
    BY <1>0, <1>2 DEF DaemonDone, TypeOK, ListedOnce
  <2>2. pc = "minissdpd" /\ pc' \in {"bind", "valid"} /\ (pc' = "valid" => error' = "socket" /\ ~sudp')
        /\ (pc' = "bind" => error' = error)
    BY <1>2 DEF DaemonDone
  <2>3. error' \in {"unknown", "socket", "memory", "success"} /\ sudp' \in BOOLEAN /\ index' = 1
    BY <1>0, <1>2 DEF DaemonDone, TypeOK
  <2>4. TypeOK'
    BY <1>0, <1>2, <2>1, <2>2, <2>3 DEF DaemonDone, TypeOK
  <2> QED
    BY <1>2, <2>1, <2>2, <2>3, <2>4 DEF DaemonDone, IInv, Inside, UrlsInUse, Outcome, Searching
<1>3. CASE Bind
  <2>1. devlist' \in Seq(Reply) /\ ListedOnce'
    BY <1>0, <1>3 DEF Bind, TypeOK, ListedOnce
  <2> QED
    BY <1>0, <1>3, <2>1 DEF Bind, IInv, TypeOK, Inside, UrlsInUse, Outcome, Searching
<1>4. CASE Send
  <2>1. Types[index] \in Names /\ index \in 1 .. 4
    BY <1>0, <1>4, TypeNames DEF Send, IInv, Inside, TypeOK
  <2>2. asked' \subseteq Names
    BY <1>0, <1>4, <2>1 DEF Send, TypeOK, Names
  <2>3. TypeOK'
    BY <1>0, <1>4, <2>1, <2>2 DEF Send, TypeOK, Names
  <2> QED
    BY <1>4, <2>3 DEF Send, IInv, ListedOnce, Inside, UrlsInUse,
       Outcome, Searching
<1>5. CASE SendFails
  <2>1. index \in 1 .. 4
    BY <1>0, <1>5 DEF SendFails, IInv, Inside, TypeOK
  <2> QED
    BY <1>0, <1>5, <2>1 DEF SendFails, IInv, TypeOK, ListedOnce, Inside,
       UrlsInUse, Outcome, Searching
<1>6. CASE Receive
  <2>1. PICK a \in answers : /\ answers' = answers \ {a}
                             /\ devlist' = IF Known(a) THEN devlist ELSE <<a>> \o devlist
    BY <1>6 DEF Receive
  <2>2. devlist' \in Seq(Reply) /\ ListedOnce'
    <3>1. CASE Known(a)
      BY <1>0, <2>1, <3>1 DEF TypeOK, ListedOnce
    <3>2. CASE ~Known(a)
      <4>1. a \in Reply /\ \A k \in DOMAIN devlist : devlist[k] # a
        BY <1>0, <3>2 DEF TypeOK, Known
      <4> QED
        BY <1>0, <2>1, <3>2, <4>1, NewHead DEF TypeOK, ListedOnce
    <3> QED
      BY <3>1, <3>2
  <2> QED
    BY <1>0, <1>6, <2>1, <2>2 DEF Receive, IInv, TypeOK, Inside, UrlsInUse, Outcome, Searching
<1>7. CASE ReceiveNoMemory
  BY <1>0, <1>7 DEF ReceiveNoMemory, IInv, TypeOK, ListedOnce, Inside,
     UrlsInUse, Outcome, Searching
<1>8. CASE Silence
  <2>1. pc' = "send" => index <= 4
    BY <1>0, <1>8 DEF Silence, SearchOver, TypeOK
  <2>2. TypeOK'
    BY <1>0, <1>8 DEF Silence, TypeOK
  <2> QED
    BY <1>8, <2>1, <2>2 DEF Silence, IInv, ListedOnce, Inside, UrlsInUse, Outcome, Searching
<1>9. CASE WaitFails
  BY <1>0, <1>9 DEF WaitFails, IInv, TypeOK, ListedOnce, Inside, UrlsInUse, Outcome, Searching
<1>10. CASE Answer
  <2>1. answers' \subseteq Reply
    BY <1>0, <1>10, AnswerNames DEF Answer, TypeOK, Reply, Names
  <2> QED
    BY <1>0, <1>10, <2>1, DevicesAssumption DEF Answer, IInv, TypeOK, ListedOnce,
       Inside, UrlsInUse, Outcome, Searching
<1>11. CASE Lose
  BY <1>0, <1>11 DEF Lose, IInv, TypeOK, ListedOnce, Inside, UrlsInUse, Outcome, Searching
<1> QED
  BY <1>1, <1>2, <1>3, <1>4, <1>5, <1>6, <1>7, <1>8, <1>9, <1>10, <1>11

\* The sorting leaves the list alone and stays inside it.
LEMMA SortStep ==
  ASSUME IInv, GetValidNothing \/ NextPass \/ SkipDevice \/ FetchDevice \/ MissDevice \/ Accept
               \/ Reject \/ Swap \/ Pick
  PROVE  IInv'
<1> USE DEF Goto, search, sorting, ReturnValid, FreeUrls
<1>0. Len(devlist) \in Nat /\ TypeOK
  BY LenProperties DEF IInv, TypeOK
<1>1. CASE GetValidNothing
  BY <1>0, <1>1 DEF GetValidNothing, IInv, TypeOK, ListedOnce, Inside,
     UrlsInUse, Outcome, Searching
<1>2. CASE NextPass
  BY <1>0, <1>2 DEF NextPass, PassesOver, IInv, TypeOK, ListedOnce, Inside,
     UrlsInUse, Outcome, Searching
<1>3. CASE SkipDevice
  BY <1>0, <1>3 DEF SkipDevice, IInv, TypeOK, ListedOnce, Inside, UrlsInUse, Outcome, Searching
<1>d. at <= Len(devlist) => devlist[at].url \in Devices
  <2> SUFFICES ASSUME at <= Len(devlist) PROVE devlist[at].url \in Devices
    OBVIOUS
  <2>1. at \in 1 .. Len(devlist)
    BY <1>0 DEF IInv, TypeOK
  <2>2. devlist[at] \in Reply
    BY <1>0, <2>1, ElementOfSeq DEF TypeOK
  <2> QED
    BY <2>2 DEF Reply
<1>4. CASE FetchDevice
  <2>1. state <= 3 /\ Dev \in Devices
    BY <1>0, <1>4, <1>d DEF FetchDevice, Dev, PassesOver, TypeOK
  <2>2. swapped' \in BOOLEAN
    BY <1>4, Zenon DEF FetchDevice
  <2>3. TypeOK'
    BY <1>0, <1>4, <2>1, <2>2 DEF FetchDevice, TypeOK
  <2> QED
    BY <1>4, <2>1, <2>3 DEF FetchDevice, IInv, ListedOnce, Inside, UrlsInUse, Outcome, Searching
<1>5. CASE Accept
  BY <1>0, <1>5 DEF Accept, IInv, TypeOK, ListedOnce, Inside, UrlsInUse, Outcome, Searching
<1>6. CASE Reject
  BY <1>0, <1>6 DEF Reject, IInv, TypeOK, ListedOnce, Inside, UrlsInUse, Outcome, Searching
<1>7. CASE Swap
  BY <1>0, <1>7, <1>d DEF Swap, Dev, IInv, TypeOK, ListedOnce, Inside,
     UrlsInUse, Outcome, Searching
<1>8. CASE Pick
  <2>1. r # 0 => at \in 1 .. Len(devlist) /\ devlist[1].url \in Devices
    <3> SUFFICES ASSUME r # 0
                 PROVE  at \in 1 .. Len(devlist) /\ devlist[1].url \in Devices
      OBVIOUS
    <3>1. at \in 1 .. Len(devlist) /\ 1 \in 1 .. Len(devlist)
      BY <1>0, <1>8 DEF Pick, IInv, Inside, TypeOK
    <3>2. devlist[1] \in Reply
      BY <1>0, <3>1, ElementOfSeq DEF TypeOK
    <3> QED
      BY <3>1, <3>2 DEF Reply
  <2> QED
    BY <1>0, <1>8, <2>1 DEF Pick, Count, IInv, TypeOK, ListedOnce, Inside,
       UrlsInUse, Outcome, Searching
<1>9. CASE MissDevice
  <2>1. state \in 1 .. 3 /\ Dev \in Devices
    BY <1>0, <1>9, <1>d DEF MissDevice, Dev, PassesOver, TypeOK
  <2>2. missed' \subseteq (1 .. 3) \X Devices
    BY <1>0, <1>9, <2>1 DEF MissDevice, TypeOK
  <2>3. TypeOK'
    BY <1>0, <1>9, <2>2 DEF MissDevice, TypeOK
  <2>4. at' # 0
    BY <1>0, <1>9 DEF MissDevice, TypeOK
  <2> QED
    BY <1>9, <2>3, <2>4 DEF MissDevice, IInv, ListedOnce, Inside, UrlsInUse, Outcome, Searching
<1> QED
  BY <1>1, <1>2, <1>3, <1>4, <1>5, <1>6, <1>7, <1>8, <1>9

LEMMA Stutters == IInv /\ UNCHANGED vars => IInv'
  BY DEF vars, search, sorting, IInv, TypeOK, ListedOnce, Inside, UrlsInUse, Outcome, Searching

LEMMA Inductive == Spec => []IInv
<1>1. IInv /\ [Next]_vars => IInv'
  BY SearchStep, SortStep, Stutters DEF Next, Program, Stopped
<1> QED
  BY Initially, <1>1, PTL DEF Spec

-----------------------------------------------------------------------------
(* What the passes have left behind.                                        *)

\* No description of a device of D came in the pass p up to the place n.
Tried(p, D, n) ==
  \A k \in DOMAIN devlist :
    k <= n /\ devlist[k].url \in D => <<p, devlist[k].url>> \in missed

Passes ==
  /\ pc \in Searching => state = 1 /\ at = 1
  /\ pc = "check" => Takes
  /\ pc = "swap" => Dev \in Igds
  /\ pc \in {"valid", "check", "swap"} =>
       /\ state = 2 => Tried(2, Igds, at - 1)
       /\ state = 3 => Tried(2, Igds, Len(devlist)) /\ Tried(3, Devices, at - 1)
       /\ state = 4 => Tried(2, Igds, Len(devlist)) /\ Tried(3, Devices, Len(devlist))
  /\ pc \in {"pick", "exit"} => Earned

LEMMA AllTried ==
  ASSUME TypeOK, NEW p, NEW D, Tried(p, D, Len(devlist))
  PROVE  {p} \X Listed(D) \subseteq missed
<1>1. DOMAIN devlist = 1 .. Len(devlist) /\ Len(devlist) \in Nat
  BY LenProperties DEF TypeOK
<1> QED
  BY <1>1 DEF Tried, Listed

LEMMA PassesStep ==
  ASSUME IInv, Passes, [Next]_vars
  PROVE  Passes'
<1> USE DEF Goto, search, sorting, ReturnValid
<1>0. /\ TypeOK /\ Len(devlist) \in Nat /\ DOMAIN devlist = 1 .. Len(devlist)
      /\ state \in 1 .. 4 /\ at \in Nat \ {0}
  BY LenProperties DEF IInv, TypeOK
<1>1. CASE \/ AskDaemon \/ DaemonDone \/ Bind \/ Send \/ SendFails \/ Receive
           \/ ReceiveNoMemory \/ Silence \/ WaitFails
  <2>1. pc \in Searching /\ pc' \in Searching \cup {"valid"} /\ state' = state /\ at' = at
    BY <1>1 DEF AskDaemon, DaemonDone, Bind, Send, SendFails, Receive, ReceiveNoMemory,
       Silence, WaitFails, Searching
  <2>2. state' = 1 /\ at' = 1
    BY <2>1 DEF Passes
  <2> QED
    BY <2>1, <2>2 DEF Passes, Searching
<1>2. CASE GetValidNothing
  <2>1. pc = "valid" /\ pc' = "pick" /\ r' = 0 /\ UNCHANGED <<devlist, missed, at, state>>
        /\ (devlist = <<>> \/ state = 4)
    BY <1>0, <1>2 DEF GetValidNothing, PassesOver
  <2>2. {3} \X Listed(Devices) \subseteq missed
    <3>1. CASE devlist = <<>>
      BY <3>1 DEF Listed
    <3>2. CASE state = 4
      BY <1>0, <2>1, <3>2, AllTried DEF Passes
    <3> QED
      BY <2>1, <3>1, <3>2
  <2>3. Earned'
    BY <2>1, <2>2 DEF Earned, Listed
  <2> QED
    BY <2>1, <2>3 DEF Passes, Searching
<1>3. CASE NextPass
  <2>1. /\ pc = "valid" /\ pc' = "valid" /\ UNCHANGED <<devlist, missed>>
        /\ at > Len(devlist) /\ state <= 3 /\ state' = state + 1 /\ at' = 1
    BY <1>0, <1>3 DEF NextPass, PassesOver
  <2>2. \A p, D : Tried(p, D, at - 1) => Tried(p, D, Len(devlist))
    BY <1>0, <2>1 DEF Tried
  <2>3. \A p, D : Tried(p, D, 0)
    BY <1>0 DEF Tried
  <2>4. \A p, D, n : Tried(p, D, n)' <=> Tried(p, D, n)
    BY <2>1 DEF Tried
  <2>5. CASE state = 1
    BY <2>1, <2>3, <2>4, <2>5 DEF Passes, Searching
  <2>6. CASE state = 2
    BY <2>1, <2>2, <2>3, <2>4, <2>6 DEF Passes, Searching
  <2>7. CASE state = 3
    BY <2>1, <2>2, <2>3, <2>4, <2>7 DEF Passes, Searching
  <2> QED
    BY <1>0, <2>1, <2>5, <2>6, <2>7
<1>4. CASE MissDevice \/ SkipDevice
  <2>1. /\ pc = "valid" /\ pc' = "valid" /\ UNCHANGED <<devlist, state>> /\ state <= 3
        /\ at <= Len(devlist) /\ at' = at + 1 /\ missed \subseteq missed'
    BY <1>0, <1>4 DEF MissDevice, SkipDevice, PassesOver
  <2>2. <<state, Dev>> \in missed' \/ (Dev \notin Igds /\ state < 3)
    BY <1>0, <1>4 DEF MissDevice, SkipDevice, Takes
  <2>3. \A p, D, n : Tried(p, D, n) => Tried(p, D, n)'
    BY <2>1 DEF Tried
  <2>4. ASSUME NEW D, Tried(state, D, at - 1), Dev \in D => <<state, Dev>> \in missed'
        PROVE  Tried(state, D, at - 1)'
    <3> SUFFICES ASSUME NEW k \in DOMAIN devlist, k <= at, devlist[k].url \in D
                 PROVE  <<state, devlist[k].url>> \in missed'
      BY <1>0, <2>1 DEF Tried
    <3>1. CASE k = at
      BY <2>4, <3>1 DEF Dev
    <3>2. CASE k # at
      <4>1. k <= at - 1
        BY <1>0, <3>2
      <4> QED
        BY <2>1, <2>4, <4>1 DEF Tried
    <3> QED
      BY <3>1, <3>2
  <2>6. CASE state = 1
    BY <2>1, <2>6 DEF Passes, Searching
  <2>7. CASE state = 2
    <3>1. Tried(2, Igds, at - 1)'
      BY <2>1, <2>2, <2>4, <2>7 DEF Passes
    <3> QED
      BY <2>1, <2>7, <3>1 DEF Passes, Searching
  <2>8. CASE state = 3
    <3>1. Tried(2, Igds, Len(devlist))'
      BY <2>1, <2>3, <2>8 DEF Passes
    <3>2. Tried(3, Devices, at - 1)'
      BY <2>1, <2>2, <2>4, <2>8 DEF Passes
    <3> QED
      BY <2>1, <2>8, <3>1, <3>2 DEF Passes, Searching
  <2> QED
    BY <1>0, <2>1, <2>6, <2>7, <2>8
<1>5. CASE FetchDevice \/ Swap
  <2>1. /\ pc \in {"valid", "swap"} /\ pc' = "check"
        /\ UNCHANGED <<devlist, missed, state, at>>
    BY <1>5 DEF FetchDevice, Swap
  <2>2. Takes
    BY <1>5 DEF FetchDevice, Swap, Passes, Takes
  <2> QED
    BY <2>1, <2>2 DEF Passes, Searching, Takes, Dev, Tried
<1>6. CASE Accept
  <2>1. pc = "check" /\ pc' = "pick" /\ r' = state /\ UNCHANGED <<devlist, missed, at>>
    BY <1>6 DEF Accept
  <2>2. state \in 1 .. 3 /\ Takes
    BY <1>0, <2>1 DEF IInv, Inside, Passes
  <2>3. state = 3 => {2} \X Listed(Igds) \subseteq missed
    BY <1>0, <2>1, AllTried DEF Passes
  <2>4. Earned'
    BY <2>1, <2>2, <2>3 DEF Earned, Takes, Dev, Listed
  <2> QED
    BY <2>1, <2>4 DEF Passes, Searching
<1>7. CASE Reject
  <2>1. /\ pc = "check" /\ pc' \in {"swap", "valid"} /\ UNCHANGED <<devlist, missed, state>>
        /\ state = 1 /\ (pc' = "swap" => at' = at)
    BY <1>7 DEF Reject
  <2>2. Dev \in Igds
    BY <2>1 DEF Passes, Takes
  <2> QED
    BY <2>1, <2>2 DEF Passes, Searching, Dev
<1>8. CASE Pick
  BY <1>8 DEF Pick, Passes, Searching, Earned, Dev, Listed
<1>9. CASE Answer \/ Lose \/ Stopped \/ UNCHANGED vars
  <2>1. UNCHANGED <<pc, devlist, missed, state, at, r>>
    BY <1>9 DEF Answer, Lose, Stopped, vars
  <2> QED
    BY <2>1 DEF Passes, Takes, Dev, Tried, Earned, Listed
<1> QED
  BY <1>1, <1>2, <1>3, <1>4, <1>5, <1>6, <1>7, <1>8, <1>9 DEF Next, Program

-----------------------------------------------------------------------------
\* Every state of a discovery is well-typed: four passes and five types bound
\* its loops, and the list has only answers of devices.
THEOREM DiscoveryTypes == Spec => []TypeOK
  BY Inductive, PTL DEF IInv

\* No entry is listed twice, however many devices there are and however often
\* they answer (miniupnpc.c:618-628).
THEOREM OnceSafe == Spec => []ListedOnce
  BY Inductive, PTL DEF IInv

\* If one entry was found it is the device that was fetched last, although
\* upnp_discover() and UPNP_GetValidIGD() choose for themselves (discover.c:86).
THEOREM TargetSafe == Spec => []TargetWasFetched
<1>1. IInv => TargetWasFetched
  BY DEF IInv, Outcome, TargetWasFetched, Dev
<1> QED
  BY Inductive, <1>1, PTL

\* A gateway is left to be played to only if the descriptions of all gateways of the
\* list did not come in the second pass; a list is left out only if none came in the
\* last; and what counts as a gateway is one (UPNP_GetValidIGD, miniupnpc.c:801-858).
THEOREM VerdictIsEarned == Spec => []Verdict
<1>1. Init => Passes
  BY DEF Init, Passes, Searching
<1>2. IInv /\ Passes /\ [Next]_vars => Passes'
  BY PassesStep
<1>3. Passes => Verdict
  BY DEF Passes, Verdict
<1> QED
  BY <1>1, <1>2, <1>3, Inductive, PTL DEF Spec

\* The urls of a device are made only when those of the one before are freed,
\* and an outcome without a gateway leaves none (miniupnpc.c:830-850,
\* discover.c:93).
THEOREM UrlsSafe == Spec => UrlsFreedBeforeReuse
<1> DEFINE Freed == /\ pc # "check" /\ pc' = "check" => urls = Nobody
                    /\ pc # "exit" /\ pc' = "exit" /\ r \in {0, 3} => urls' = Nobody
<1>1. ASSUME IInv, Next
      PROVE  Freed
  <2> USE <1>1 DEF Goto
  <2>1. pc # "check" /\ pc' = "check" => pc \in {"valid", "swap"}
    BY DEF Next, Program, Stopped, AskDaemon, DaemonDone, Bind, Send, SendFails, Receive,
       ReceiveNoMemory, Silence, WaitFails, GetValidNothing, NextPass, SkipDevice,
       MissDevice, FetchDevice, Accept, Reject, Swap, Pick, Answer, Lose, ReturnValid, vars
  <2>2. pc # "exit" /\ pc' = "exit" => Pick
    BY DEF Next, Program, Stopped, AskDaemon, DaemonDone, Bind, Send, SendFails, Receive,
       ReceiveNoMemory, Silence, WaitFails, GetValidNothing, NextPass, SkipDevice,
       MissDevice, FetchDevice, Accept, Reject, Swap, Answer, Lose, ReturnValid, vars
  <2>3. Pick /\ r \in {0, 3} => urls' = Nobody
    BY DEF IInv, UrlsInUse, Pick, FreeUrls
  <2> QED
    BY <2>1, <2>2, <2>3 DEF IInv, UrlsInUse, Searching
<1>2. IInv /\ [Next]_vars => [Freed]_vars
  BY <1>1
<1> QED
  BY Inductive, <1>2, PTL DEF Spec, UrlsFreedBeforeReuse
-----------------------------------------------------------------------------
(***************************************************************************)
(* upnp_discover() as main() sees it.  A run of Discovery is one run of    *)
(* AVRemote that has come as far as its first step, Discover: nothing, as  *)
(* long as the search goes on, and then this step.  main() makes no        *)
(* difference between no device and several, so that several count as      *)
(* none here.                                                              *)
(***************************************************************************)
CONSTANTS
  Opts,  \* the command line
  Dry, Commands, ResSize, MaxLen, MaxChunks

Discovers ==
  /\ Opts \in [cmd : Commands, server : Devices \cup {Nobody}, dry : {FALSE}]
  /\ Opts.cmd = "discover" \/ Opts.server = Nobody
  /\ MaxChunks \in Nat \ {0}

One == num = 1
Over == pc = "exit"
GoesOn == Opts.server # Nobody \/ One
NoAnswer == [req |-> Nobody, ok |-> FALSE, whole |-> FALSE, len |-> 0]
NoSocket == [peer |-> Nobody, fd |-> -2, hdr |-> Nobody, body |-> Nobody,
             reply |-> NoAnswer, shut |-> FALSE, done |-> FALSE, old |-> FALSE]

Main == INSTANCE AVRemote WITH
  Renderers <- Devices, None <- Nobody, opts <- Opts,
  pc <- IF ~Over THEN "discover" ELSE IF GoesOn THEN "connect" ELSE "exit",
  end <- IF Over /\ ~GoesOn THEN "notfound" ELSE "running",
  found <- IF One THEN 1 ELSE 0,
  hostname <- IF ~Over THEN Nobody
              ELSE IF Opts.server # Nobody THEN Opts.server
              ELSE IF One THEN target ELSE Nobody,
  sockfd <- -1, msg <- Nobody, phase <- "cmd",
  res <- [head |-> NoAnswer, tail |-> NoAnswer],
  chunks <- IF Opts.cmd = "pipe" THEN 1 ELSE 0,
  socks <- [s \in 1 .. 2 |-> NoSocket],
  stray <- {}, printed <- {}, applied <- [d \in Devices |-> {}]

LEMMA SameCount == \A S : Main!Cardinality(S) = Cardinality(S)
  BY DEF Main!Cardinality, Cardinality

LEMMA MainBegins == Discovers /\ Init => Main!Init
<1> SUFFICES ASSUME Discovers, Init PROVE Main!Init
  OBVIOUS
<1>1. pc = "minissdpd" /\ num = 0
  BY DEF Init
<1>2. ~Over /\ ~One
  BY <1>1 DEF Over, One
<1>3. /\ Opts \in [cmd : Commands, server : Devices \cup {Nobody}, dry : BOOLEAN]
      /\ ~Opts.dry
  BY DEF Discovers
<1>4. (IF Opts.cmd = "pipe" THEN 1 ELSE 0) \in IF Opts.cmd = "pipe" THEN 1 .. MaxChunks ELSE {0}
  BY DEF Discovers
<1> QED
  BY <1>2, <1>3, <1>4 DEF Main!Init, Main!CreatedFd, Main!NoRes, Main!NoReply, Main!Unused,
     Main!Closed, Main!Socks, NoAnswer, NoSocket

\* The search ends with one step, that of upnp_discover() itself.
LEMMA PickEnds ==
  ASSUME Next, pc # "exit", pc' = "exit"
  PROVE  Pick
BY DEF Next, Program, Stopped, AskDaemon, DaemonDone, Bind, Send, SendFails, Receive,
   ReceiveNoMemory, Silence, WaitFails, GetValidNothing, NextPass, SkipDevice,
   MissDevice, FetchDevice, Accept, Reject, Swap, Answer, Lose, ReturnValid, vars, Goto

LEMMA MainGoesOn ==
  ASSUME Discovers, IInv, IInv', [Next]_vars
  PROVE  [Main!Discover]_(Main!vars)
<1>1. CASE Over
  <2>1. pc = "exit"
    BY <1>1 DEF Over
  <2>2. UNCHANGED <<pc, num, target>>
    BY <2>1 DEF Next, Program, Stopped, AskDaemon, DaemonDone, Bind, Send, SendFails, Receive,
       ReceiveNoMemory, Silence, WaitFails, GetValidNothing, NextPass, SkipDevice,
       MissDevice, FetchDevice, Accept, Reject, Swap, Pick, Answer, Lose, vars
  <2>3. Over' = Over /\ One' = One /\ GoesOn' = GoesOn
    BY <2>2 DEF Over, One, GoesOn
  <2>4. UNCHANGED Main!vars
    BY <2>2, <2>3 DEF Main!vars, Main!client
  <2> QED
    BY <2>4
<1>2. CASE ~Over /\ ~Over'
  <2>1. num = 0 /\ num' = 0
    BY <1>2 DEF Over, IInv, Outcome
  <2>2. ~One /\ ~One'
    BY <2>1 DEF One
  <2>3. UNCHANGED Main!vars
    BY <1>2, <2>2 DEF Main!vars, Main!client, GoesOn
  <2> QED
    BY <2>3
<1>3. CASE ~Over /\ Over'
  <2>1. Pick
    BY <1>3, PickEnds DEF Over, vars
  <2>2. num = 0
    BY <1>3 DEF Over, IInv, Outcome
  <2>3. num' = 1 => target' \in Devices
    <3> SUFFICES ASSUME num' = 1 PROVE target' \in Devices
      OBVIOUS
    <3>1. r = 3 /\ Len(devlist) = 1 /\ target' = devlist[1].url
      BY <2>1, <2>2 DEF Pick, Count
    <3>2. devlist \in Seq(Reply)
      BY DEF IInv, TypeOK
    <3>3. devlist[1] \in Reply
      BY <3>1, <3>2
    <3> QED
      BY <3>1, <3>3 DEF Reply
  <2> DEFINE devs == IF num' = 1 THEN {target'} ELSE {}
  <2>4. devs \in SUBSET Devices
    BY <2>3
  <2>5. Cardinality(devs) = IF num' = 1 THEN 1 ELSE 0
    BY FS_EmptySet, FS_Singleton
  <2>6. Opts.dry = FALSE /\ (Opts.cmd = "discover" \/ Opts.server = Nobody)
    BY DEF Discovers
  <2>7. Main!Discover
    BY <1>3, <2>2, <2>4, <2>5, <2>6, SameCount DEF Main!Discover, Main!Discovering, Main!Decided, Main!Goto,
       Main!Exit, Over, One, GoesOn
  <2> QED
    BY <2>7
<1> QED
  BY <1>1, <1>2, <1>3

\* What main() takes upnp_discover() for is what it does: it ends at once, as far as
\* main() can see, and if it has found one device the host is that device, or the one
\* the user has named (discover.c:56-98, cmdline.c).
THEOREM DiscoverIsDone == Discovers => (Spec => Main!Init /\ [][Main!Discover]_(Main!vars))
<1> SUFFICES ASSUME Discovers PROVE Spec => Main!Init /\ [][Main!Discover]_(Main!vars)
  OBVIOUS
<1>1. Init => Main!Init
  BY MainBegins
<1>2. IInv /\ IInv' /\ [Next]_vars => [Main!Discover]_(Main!vars)
  BY MainGoesOn
<1> QED
  BY <1>1, <1>2, Inductive, PTL DEF Spec
=============================================================================
