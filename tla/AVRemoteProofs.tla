--------------------------- MODULE AVRemoteProofs ---------------------------
(***************************************************************************)
(* Proofs about AVRemote for every set of renderers, every set of commands *)
(* and all bounds: the type invariant, and on top of it the inductive      *)
(* invariants that say where requests go, which connections are open, what *)
(* may still be written to them, and what the client has read.             *)
(***************************************************************************)
EXTENDS AVRemote, FiniteSetTheorems, TLAPS

USE RenderersAssumption, CommandsAssumption, BoundsAssumption

SockType == [peer : Renderers \cup {None}, fd : {Closed} \cup Fds,
             hdr : Msgs \cup {None}, body : Msgs \cup {None},
             reply : Replies \cup {NoReply}, shut : BOOLEAN,
             done : BOOLEAN, old : BOOLEAN]

\* A record of an unused socket, and one of a new connection, are sockets.
LEMMA FreshSockets ==
  /\ Unused \in SockType
  /\ \A p \in Renderers \cup {None}, f \in Fds :
       [Unused EXCEPT !.peer = p, !.fd = f, !.old = TRUE] \in SockType
  /\ \A f \in Fds : [Unused EXCEPT !.fd = f, !.old = TRUE] \in SockType
  /\ FreshFd \in Fds /\ NewSock \in Socks
<1>1. Unused \in SockType
  BY DEF Unused, SockType
<1>2. \A u \in SockType, p \in Renderers \cup {None}, f \in Fds :
        /\ [u EXCEPT !.peer = p, !.fd = f, !.old = TRUE] \in SockType
        /\ [u EXCEPT !.fd = f, !.old = TRUE] \in SockType
  BY DEF SockType
<1>3. FreshFd \in Fds /\ NewSock \in Socks
  BY DEF FreshFd, NewSock, Fds, Socks
<1>4. QED
  BY <1>1, <1>2, <1>3

\* Cutting a reply to the size of upnp->res, over an older one, leaves what
\* the buffer can hold.
LEMMA HeldReplies ==
  ASSUME NEW t \in Replies, NEW old \in Held \cup {NoReply}
  PROVE  /\ Cut(t) \in Held
         /\ [head |-> Cut(t), tail |-> IF Cut(t).len < old.len THEN old
                                                            ELSE NoReply]
              \in [head : Held \cup {NoReply}, tail : Held \cup {NoReply}]
<1>1. Cut(t) \in Held
  <2>1. CASE t.len <= ResSize
    BY <2>1 DEF Cut, Held
  <2>2. CASE ~ (t.len <= ResSize)
    <3>1. Cut(t) = [t EXCEPT !.len = ResSize, !.whole = FALSE]
      BY <2>2 DEF Cut
    <3>2. ResSize \in 1 .. MaxLen
      BY <2>2 DEF Replies
    <3>3. Cut(t) \in Replies /\ Cut(t).len = ResSize
      BY <3>1, <3>2 DEF Replies
    <3> QED
      BY <3>3 DEF Held
  <2> QED
    BY <2>1, <2>2
<1>2. QED
  BY <1>1

\* Closing descriptors changes nothing else of a socket.
LEMMA ClosingSockets ==
  ASSUME TypeOK
  PROVE  /\ CloseFd \in [Socks -> SockType]
         /\ CloseAll => socks' \in [Socks -> SockType]
<1>1. \A s \in Socks : [socks[s] EXCEPT !.fd = Closed] \in SockType
  BY DEF TypeOK, SockType
<1>2. QED
  BY <1>1 DEF CloseFd, CloseAll, TypeOK, SockType

\* Type correctness of the program, its sockets and its reply buffer
\* (cmdline.c:151-321, avremote.c:54-214).
THEOREM TypeCorrect == Spec => []TypeOK
<1>1. Init => TypeOK
  <2> SUFFICES ASSUME Init PROVE TypeOK
    OBVIOUS
  <2>1. socks \in [Socks -> SockType]
    BY FreshSockets DEF Init
  <2>2. chunks \in 0 .. MaxChunks
    BY DEF Init
  <2> QED
    BY <2>1, <2>2 DEF Init, TypeOK, PCs, Ends, Hosts, CreatedFd, NoRes, SockType
<1>2. TypeOK /\ [Next]_vars => TypeOK'
  <2> SUFFICES ASSUME TypeOK, [Next]_vars PROVE TypeOK'
    OBVIOUS
  <2> USE DEF Goto, Exit, PCs, Ends
  <2> DEFINE SocksOK == socks \in [Socks -> SockType]
  <2>0. SocksOK
    BY DEF TypeOK, SockType
  <2>1. CASE Discover
    <3>1. \A devs \in SUBSET Renderers : Cardinality(devs) \in Nat
      BY FS_Subset, FS_CardinalityType
    <3>2. found' \in Nat /\ hostname' \in Hosts /\ pc' \in PCs /\ end' \in Ends
      BY <2>1, <3>1 DEF Discover, TypeOK, Hosts
    <3> QED
      BY <2>1, <3>2 DEF Discover, TypeOK
  <2>2. CASE SkipDiscovery
    BY <2>2 DEF SkipDiscovery, TypeOK
  <2>3. CASE Connect
    <3>1. SocksOK' /\ sockfd' \in Fds
      BY <2>3, <2>0, FreshSockets DEF Connect, ConnectOk
    <3> QED
      BY <2>3, <3>1 DEF Connect, TypeOK, SockType
  <2>4. CASE ConnectAborts
    <3>1. SocksOK'
      BY <2>4, ClosingSockets DEF ConnectAborts
    <3> QED
      BY <2>4, <3>1 DEF ConnectAborts, TypeOK, SockType
  <2>5. CASE DryRun
    BY <2>5 DEF DryRun, TypeOK, Hosts
  <2>6. CASE Command
    BY <2>6 DEF Command, TypeOK, Msgs
  <2>7. CASE CommandUrl
    BY <2>7 DEF CommandUrl, TypeOK, Msgs, Simple, Url
  <2>8. CASE PipeRead
    BY <2>8 DEF PipeRead, TypeOK, Msgs
  <2>9. CASE PipeEof
    BY <2>9 DEF PipeEof, TypeOK
  <2>10. CASE SendHdr
    <3>1. SocksOK' /\ stray' \subseteq Msgs
      BY <2>10, <2>0 DEF SendHdr, Written, NotWritten, Holders, TypeOK, SockType
    <3> QED
      BY <2>10, <3>1 DEF SendHdr, TypeOK, SockType
  <2>11. CASE SendMsg
    <3>1. SocksOK' /\ stray' \subseteq Msgs
      BY <2>11, <2>0 DEF SendMsg, Written, NotWritten, Holders, TypeOK, SockType
    <3> QED
      BY <2>11, <3>1 DEF SendMsg, TypeOK, SockType
  <2>12. CASE SigPipe
    <3>1. SocksOK'
      BY <2>12, ClosingSockets DEF SigPipe
    <3> QED
      BY <2>12, <3>1 DEF SigPipe, TypeOK, SockType
  <2>13. CASE RecvReply
    <3>1. PICK s \in Socks :
            /\ IF socks[s].reply = NoReply THEN UNCHANGED res
               ELSE res' = Overwrite(Cut(socks[s].reply))
            /\ socks' = [socks EXCEPT ![s].reply = NoReply]
      BY <2>13 DEF RecvReply, Holders
    <3>2. SocksOK'
      BY <2>0, <3>1 DEF SockType
    <3>3. res' \in [head : Held \cup {NoReply}, tail : Held \cup {NoReply}]
      <4>1. CASE socks[s].reply = NoReply
        BY <3>1, <4>1 DEF TypeOK
      <4>2. CASE socks[s].reply # NoReply
        <5>1. socks[s].reply \in Replies /\ res.head \in Held \cup {NoReply}
          BY <2>0, <4>2 DEF SockType, TypeOK
        <5> QED
          BY <3>1, <4>2, <5>1, HeldReplies DEF Overwrite
      <4> QED
        BY <4>1, <4>2
    <3>4. pc' \in PCs
      BY <2>13 DEF RecvReply, AfterRecv
    <3> QED
      BY <2>13, <3>2, <3>3, <3>4 DEF RecvReply, TypeOK, SockType
  <2>14. CASE RecvTimeout
    BY <2>14 DEF RecvTimeout, AfterRecv, TypeOK
  <2>15. CASE CloseLoad
    <3>1. SocksOK'
      BY <2>15, ClosingSockets DEF CloseLoad
    <3> QED
      BY <2>15, <3>1 DEF CloseLoad, TypeOK, SockType
  <2>16. CASE Reconnect
    <3>1. SocksOK' /\ sockfd' \in {-1, 0} \cup Fds
      <4>1. sockfd \in {-1, 0} \cup Fds
        BY DEF TypeOK
      <4>2. CASE ConnectOk
        BY <4>2, <2>0, FreshSockets DEF ConnectOk
      <4>3. CASE ConnectFails
        BY <4>1, <4>3, <2>0, FreshSockets DEF ConnectFails
      <4> QED
        BY <2>16, <4>2, <4>3 DEF Reconnect
    <3>2. msg' \in Msgs /\ pc' \in PCs /\ phase' = "cmd"
      BY <2>16 DEF Reconnect, Msgs, Simple, Url
    <3>3. UNCHANGED <<opts, found, hostname, res, chunks, stray, printed, end,
                      applied>>
      BY <2>16 DEF Reconnect
    <3> QED
      BY <3>1, <3>2, <3>3 DEF TypeOK, SockType
  <2>17. CASE Report
    BY <2>17 DEF Report, TypeOK
  <2>18. CASE ReportCrash
    <3>1. SocksOK'
      BY <2>18, ClosingSockets DEF ReportCrash
    <3> QED
      BY <2>18, <3>1 DEF ReportCrash, TypeOK, SockType
  <2>19. CASE FreeUpnp
    <3>1. SocksOK'
      BY <2>19, <2>0, ClosingSockets DEF FreeUpnp
    <3> QED
      BY <2>19, <3>1 DEF FreeUpnp, TypeOK, SockType
  <2>20. ASSUME NEW s \in Socks, Handle(s) PROVE TypeOK'
    <3>1. PICK obeys \in BOOLEAN, answer \in Replies \cup {NoReply} :
            /\ socks' = [socks EXCEPT ![s].done = TRUE, ![s].reply = answer]
            /\ applied' = IF obeys
                 THEN [applied EXCEPT ![socks[s].peer] =
                         @ \cup {[req |-> socks[s].body, answered |-> Fits(answer),
                                  after |-> {a.req : a \in @}]}]
                 ELSE applied
      BY <2>20 DEF Handle
    <3>2. socks[s].body \in Msgs /\ socks[s].peer \in Renderers
      BY <2>0, <2>20 DEF Handle, Complete, SockType
    <3>3. SocksOK'
      <4>2. \A u \in SockType, t \in Replies \cup {NoReply} :
              [u EXCEPT !.done = TRUE, !.reply = t] \in SockType
        BY DEF SockType
      <4>3. socks[s] \in SockType
        BY <2>0
      <4> QED
        BY <2>0, <3>1, <4>2, <4>3
    <3>4. {a.req : a \in applied[socks[s].peer]} \subseteq Msgs
      <4>1. applied[socks[s].peer] \in
              SUBSET [req : Msgs, answered : BOOLEAN, after : SUBSET Msgs]
        BY <3>2 DEF TypeOK
      <4>2. \A a \in applied[socks[s].peer] : a.req \in Msgs
        BY <4>1
      <4> QED
        BY <4>2
    <3>5. applied' \in [Renderers -> SUBSET [req : Msgs, answered : BOOLEAN, after : SUBSET Msgs]]
      <4>1. Fits(answer) \in BOOLEAN
        BY DEF Fits, Replies, NoReply
      <4> QED
        BY <3>1, <3>2, <3>4, <4>1 DEF TypeOK
    <3> QED
      BY <2>20, <3>3, <3>5 DEF Handle, TypeOK, SockType, client
  <2>21. ASSUME NEW s \in Socks, Shut(s) PROVE TypeOK'
    <3>1. \A u \in SockType : [u EXCEPT !.shut = TRUE] \in SockType
      BY DEF SockType
    <3>2. socks' = [socks EXCEPT ![s] = [socks[s] EXCEPT !.shut = TRUE]]
      BY <2>21 DEF Shut
    <3>3. SocksOK'
      BY <2>0, <2>21, <3>1, <3>2
    <3> QED
      BY <2>21, <3>3 DEF Shut, TypeOK, SockType, client
  <2>22. CASE UNCHANGED vars
    BY <2>22 DEF vars, client, TypeOK
  <2> QED
    BY <2>1, <2>2, <2>3, <2>4, <2>5, <2>6, <2>7, <2>8, <2>9, <2>10, <2>11,
       <2>12, <2>13, <2>14, <2>15, <2>16, <2>17, <2>18, <2>19, <2>20, <2>21,
       <2>22 DEF Next, ClientNext, Stopped
<1>3. QED
  BY <1>1, <1>2, PTL DEF Spec

-----------------------------------------------------------------------------
\* What makes StrayOnlyAfterFailedReconnect inductive: descriptor 0 is left in
\* upnp->sockfd only by the default branch, from its close() on, and the
\* second socket stays without a peer until the reconnection has succeeded.
StrayInv ==
  /\ sockfd = 0 =>
       /\ opts.cmd = "url" /\ socks[2].peer = None
       /\ \/ pc = "reconnect"
          \/ /\ phase = "cmd" /\ msg = Url[2]
             /\ pc \in {"sendHdr", "sendMsg", "recv", "report", "free", "exit"}
       /\ pc \in {"sendHdr", "sendMsg"} => ~opts.dry
  /\ stray # {} => /\ sockfd = 0 /\ ~opts.dry /\ stray = {Url[2]}
                   /\ phase = "cmd" /\ pc # "reconnect"
  /\ phase = "load" \/ pc \in {"discover", "connect", "command"} =>
       socks[2].peer = None
  /\ phase = "load" => opts.cmd = "url"
  /\ pc = "close" => phase = "load"
  /\ pc \in {"discover", "connect"} => ~socks[1].old

\* What makes UnambiguousTarget inductive: before the first connection there
\* is none, and a renderer stands in upnp->hostname only after main() has
\* decided for it.
TargetInv ==
  /\ UnambiguousTarget
  /\ pc \in {"discover", "connect"} => \A s \in Socks : socks[s].peer = None
  /\ pc = "discover" => hostname = None
  /\ hostname \in Renderers /\ pc # "exit" => opts.server # None \/ found = 1

\* Only a connection attempt changes a socket's peer.
Kept == \A s \in Socks : /\ socks'[s].peer = socks[s].peer
                        /\ socks'[s].old = socks[s].old

Attempt == Connect \/ Reconnect

LEMMA PeersKept ==
  ASSUME TypeOK, [Next]_vars, ~Attempt
  PROVE  Kept
<1> USE DEF Kept
<1>0. socks \in [Socks -> SockType]
  BY DEF TypeOK, SockType
<1>1. CASE CloseAll
  BY <1>1, <1>0 DEF CloseAll, SockType
<1>2. CASE socks' = CloseFd
  BY <1>2, <1>0 DEF CloseFd, SockType
<1>3. CASE SendHdr
  BY <1>3, <1>0 DEF SendHdr, Written, NotWritten, Holders, SockType
<1>4. CASE SendMsg
  BY <1>4, <1>0 DEF SendMsg, Written, NotWritten, Holders, SockType
<1>5. CASE RecvReply
  BY <1>5, <1>0 DEF RecvReply, Holders, SockType
<1>6. ASSUME NEW s \in Socks, Handle(s) \/ Shut(s) PROVE Kept
  BY <1>6, <1>0 DEF Handle, Shut, SockType
<1>7. CASE UNCHANGED socks
  BY <1>7
<1>8. ClientNext => \/ CloseAll \/ socks' = CloseFd \/ UNCHANGED socks
                   \/ SendHdr \/ SendMsg \/ RecvReply
  BY DEF ClientNext, Attempt, Discover, SkipDiscovery, ConnectAborts, DryRun,
     Command, CommandUrl, PipeRead, PipeEof, SigPipe, RecvTimeout, CloseLoad,
     Report, ReportCrash, FreeUpnp
<1>9. QED
  BY <1>1, <1>2, <1>3, <1>4, <1>5, <1>6, <1>7, <1>8
     DEF Next, Stopped, vars

\* A request is only ever written to a connection of the program, except for
\* the Play after a reconnection that failed (cmdline.c:299-310).
THEOREM StraySafe == Spec => []StrayOnlyAfterFailedReconnect
<1>1. Init => StrayInv
  BY DEF Init, StrayInv, CreatedFd, Unused, Socks
<1>2. TypeOK /\ StrayInv /\ [Next]_vars => StrayInv'
  <2> SUFFICES ASSUME TypeOK, StrayInv, [Next]_vars PROVE StrayInv'
    OBVIOUS
  <2> USE DEF Goto, Exit, StrayInv
  <2>0. ~Attempt => /\ socks'[2].peer = socks[2].peer
                    /\ socks'[1].old = socks[1].old
    BY PeersKept DEF Kept, Socks
  <2>a. \A f \in Fds : f # 0
    BY DEF Fds
  <2>1. CASE Connect
    <3>1. sockfd' # 0 /\ stray = {} /\ stray' = {}
      BY <2>1, <2>a, FreshSockets DEF Connect, ConnectOk
    <3>2. socks'[2].peer = None
      <4>1. NewSock = 1 /\ socks'[2] = socks[2]
        BY <2>1 DEF Connect, ConnectOk, NewSock, TypeOK, Socks
      <4> QED
        BY <4>1, <2>1 DEF Connect
    <3> QED
      BY <2>1, <3>1, <3>2 DEF Connect
  <2>2. CASE Reconnect
    <3>1. stray = {} /\ stray' = {} /\ msg' = Url[2] /\ phase' = "cmd"
      BY <2>2 DEF Reconnect
    <3>2. CASE ConnectOk
      <4>1. sockfd' # 0
        BY <3>2, <2>a, FreshSockets DEF ConnectOk
      <4> QED
        BY <2>2, <3>1, <4>1 DEF Reconnect
    <3>3. CASE ConnectFails
      <4>1. sockfd' = sockfd
        BY <3>3 DEF ConnectFails
      <4>2. sockfd = 0 => socks'[2].peer = None /\ opts.cmd = "url"
        <5> DEFINE leaked == [Unused EXCEPT !.fd = FreshFd, !.old = TRUE]
        <5>1. leaked.peer = None
          BY DEF Unused
        <5>2. socks \in [Socks -> SockType]
          BY DEF TypeOK, SockType
        <5>3. \/ socks' = socks
              \/ socks'[2].peer = None
              \/ socks'[2] = socks[2]
          <6>1. socks' = socks \/ socks' = [socks EXCEPT ![NewSock] = leaked]
            BY <3>3 DEF ConnectFails
          <6> HIDE DEF leaked
          <6>2. 2 \in Socks /\ DOMAIN socks = Socks
            BY <5>2 DEF Socks
          <6> QED
            BY <5>1, <6>1, <6>2
        <5> QED
          BY <2>2, <5>3 DEF Reconnect
      <4>3. pc' \in {"report", "sendHdr"} /\ (pc' = "sendHdr" => ~opts'.dry)
        BY <2>2 DEF Reconnect
      <4>4. opts' = opts
        BY <2>2 DEF Reconnect
      <4> QED
        BY <3>1, <4>1, <4>2, <4>3, <4>4
    <3> QED
      BY <2>2, <3>2, <3>3 DEF Reconnect
  <2>3. CASE Discover
    BY <2>3, <2>0 DEF Discover, Attempt, Connect, Reconnect
  <2>4. CASE SkipDiscovery
    BY <2>4, <2>0 DEF SkipDiscovery, Attempt, Connect, Reconnect
  <2>5. CASE ConnectAborts
    BY <2>5, <2>0 DEF ConnectAborts, Attempt, Connect, Reconnect
  <2>6. CASE DryRun
    BY <2>6, <2>0 DEF DryRun, Attempt, Connect, Reconnect
  <2>7. CASE Command
    BY <2>7, <2>0 DEF Command, Attempt, Connect, Reconnect
  <2>8. CASE CommandUrl
    BY <2>8, <2>0 DEF CommandUrl, Attempt, Connect, Reconnect
  <2>9. CASE PipeRead
    BY <2>9, <2>0 DEF PipeRead, Attempt, Connect, Reconnect
  <2>10. CASE PipeEof
    BY <2>10, <2>0 DEF PipeEof, Attempt, Connect, Reconnect
  <2>11. CASE SendHdr
    <3>1. stray' # stray => sockfd = 0 /\ stray' = stray \cup {msg}
      BY <2>11 DEF SendHdr, Written, NotWritten
    <3> QED
      BY <2>11, <2>0, <3>1 DEF SendHdr, Attempt, Connect, Reconnect
  <2>12. CASE SendMsg
    <3>1. stray' # stray => sockfd = 0 /\ stray' = stray \cup {msg}
      BY <2>12 DEF SendMsg, Written, NotWritten
    <3> QED
      BY <2>12, <2>0, <3>1 DEF SendMsg, Attempt, Connect, Reconnect
  <2>13. CASE SigPipe
    BY <2>13, <2>0 DEF SigPipe, Attempt, Connect, Reconnect
  <2>14. CASE RecvReply
    BY <2>14, <2>0 DEF RecvReply, AfterRecv, Attempt, Connect, Reconnect
  <2>15. CASE RecvTimeout
    BY <2>15, <2>0 DEF RecvTimeout, AfterRecv, Attempt, Connect, Reconnect
  <2>16. CASE CloseLoad
    BY <2>16, <2>0 DEF CloseLoad, Attempt, Connect, Reconnect
  <2>17. CASE Report
    BY <2>17, <2>0 DEF Report, Attempt, Connect, Reconnect
  <2>18. CASE ReportCrash
    BY <2>18, <2>0 DEF ReportCrash, Attempt, Connect, Reconnect
  <2>19. CASE FreeUpnp
    BY <2>19, <2>0 DEF FreeUpnp, Attempt, Connect, Reconnect
  <2>20. CASE \E s \in Socks : Handle(s) \/ Shut(s)
    <3>1. UNCHANGED client
      BY <2>20 DEF Handle, Shut
    <3>2. ~Attempt
      BY <3>1 DEF client, Attempt, Connect, Reconnect
    <3> QED
      BY <2>0, <3>1, <3>2 DEF client
  <2>21. CASE UNCHANGED vars
    BY <2>21 DEF vars, client
  <2> QED
    BY <2>1, <2>2, <2>3, <2>4, <2>5, <2>6, <2>7, <2>8, <2>9, <2>10, <2>11,
       <2>12, <2>13, <2>14, <2>15, <2>16, <2>17, <2>18, <2>19, <2>20, <2>21
       DEF Next, ClientNext, Stopped
<1>3. StrayInv => StrayOnlyAfterFailedReconnect
  BY DEF StrayInv, StrayOnlyAfterFailedReconnect
<1>4. QED
  BY <1>1, <1>2, <1>3, TypeCorrect, PTL DEF Spec

LEMMA TargetAlways == Spec => []TargetInv
<1> USE DEF TargetInv, UnambiguousTarget, Goto, Exit
<1>1. Init => TargetInv
  BY DEF Init, Unused
<1>2. TypeOK /\ TargetInv /\ [Next]_vars => TargetInv'
  <2> SUFFICES ASSUME TypeOK, TargetInv, [Next]_vars PROVE TargetInv'
    OBVIOUS
  <2>0. ~Attempt => \A s \in Socks : socks'[s].peer = socks[s].peer
    BY PeersKept DEF Kept
  <2>1. ASSUME Attempt, ConnectOk PROVE TargetInv'
    <3> DEFINE new == [Unused EXCEPT !.peer = hostname, !.fd = FreshFd,
                                     !.old = TRUE]
    <3>1. new.peer = hostname /\ hostname \in Renderers
      BY <2>1 DEF ConnectOk, Unused
    <3>2. socks' = [socks EXCEPT ![NewSock] = new]
      BY <2>1 DEF ConnectOk
    <3> HIDE DEF new
    <3>3. \A s \in Socks : socks'[s].peer \in {socks[s].peer, hostname}
      BY <3>1, <3>2 DEF TypeOK
    <3>4. /\ hostname' = hostname /\ opts' = opts /\ found' = found
          /\ pc \in {"connect", "reconnect"}
          /\ pc' \notin {"discover", "connect"}
      BY <2>1 DEF Attempt, Connect, Reconnect
    <3>5. opts.server # None \/ found = 1
      BY <3>1, <3>4
    <3> QED
      BY <3>3, <3>4, <3>5
  <2>2. ASSUME Reconnect, ConnectFails PROVE TargetInv'
    <3>1. [Unused EXCEPT !.fd = FreshFd, !.old = TRUE].peer = None
      BY DEF Unused
    <3>2. \A s \in Socks : socks'[s].peer \in {socks[s].peer, None}
      BY <2>2, <3>1 DEF ConnectFails, TypeOK
    <3> QED
      BY <2>2, <3>2 DEF Reconnect
  <2>3. CASE Discover
    <3>1. PICK devs \in SUBSET Renderers :
            /\ found' = Cardinality(devs)
            /\ IF Decided(Cardinality(devs))
               THEN Goto("connect") /\ UNCHANGED end ELSE Exit("notfound")
      BY <2>3 DEF Discover
    <3>2. pc' = "exit" \/ opts'.server # None \/ found' = 1
      BY <2>3, <3>1 DEF Discover, Decided
    <3>3. pc' # "discover" /\ \A s \in Socks : socks'[s].peer = None
      BY <2>3, <3>1 DEF Discover
    <3> QED
      BY <3>2, <3>3
  <2>4. CASE DryRun
    BY <2>4 DEF DryRun
  <2>5. CASE SkipDiscovery
    BY <2>5 DEF SkipDiscovery
  <2>6. ASSUME ~Attempt, UNCHANGED <<opts, found, hostname>>,
               pc' \notin {"discover", "connect"},
               pc = "exit" => pc' = "exit"
        PROVE  TargetInv'
    BY <2>0, <2>6
  <2>7. ASSUME ClientNext, ~Attempt, ~Discover, ~DryRun, ~SkipDiscovery
        PROVE  TargetInv'
    <3>1. /\ UNCHANGED <<opts, found, hostname>>
          /\ pc' \notin {"discover", "connect"} /\ pc # "exit"
      BY <2>7 DEF ClientNext, Attempt, ConnectAborts, Command, CommandUrl,
         PipeRead, PipeEof, SendHdr, SendMsg, SigPipe, RecvReply, RecvTimeout,
         AfterRecv, CloseLoad, Report, ReportCrash, FreeUpnp
    <3> QED
      BY <2>6, <2>7, <3>1
  <2>8. CASE \E s \in Socks : Handle(s) \/ Shut(s)
    <3>1. UNCHANGED client
      BY <2>8 DEF Handle, Shut
    <3>2. ~Attempt
      BY <3>1 DEF client, Attempt, Connect, Reconnect
    <3> QED
      BY <2>0, <3>1, <3>2 DEF client
  <2>9. CASE UNCHANGED vars
    BY <2>9 DEF vars, client
  <2>10. Attempt => ConnectOk \/ (Reconnect /\ ConnectFails)
    BY DEF Attempt, Connect, Reconnect
  <2> QED
    BY <2>1, <2>2, <2>3, <2>4, <2>5, <2>7, <2>8, <2>9, <2>10
       DEF Next, Stopped
<1> QED
  BY <1>1, <1>2, TypeCorrect, PTL DEF Spec

\* Requests go to one renderer, which the user named or which was the only
\* one discovered (cmdline.c:160-178).
THEOREM TargetSafe == Spec => []UnambiguousTarget
<1>1. TargetInv => UnambiguousTarget
  BY DEF TargetInv
<1> QED
  BY <1>1, TargetAlways, PTL

-----------------------------------------------------------------------------
\* What makes ConnectionsClosed inductive: a connection that is not closed is
\* the one in upnp->sockfd, and the process has not ended before exit().
OpenIsCurrent ==
  \A s \in Socks : socks[s].peer # None /\ socks[s].fd # Closed => socks[s].fd = sockfd
ClosedInv ==
  /\ OpenIsCurrent
  /\ pc # "exit" => end # "success"
  /\ ConnectionsClosed

\* A connection attempt without an open connection makes at most the current
\* one.
LEMMA AttemptCurrent ==
  ASSUME TypeOK, OpenIsCurrent, ConnectOk \/ ConnectFails
  PROVE  OpenIsCurrent'
<1>0. /\ socks \in [Socks -> SockType] /\ FreshFd \in Fds /\ NewSock \in Socks
      /\ \A f \in Fds : ~(f <= 0)
  <2>1. FreshFd \in Fds /\ NewSock \in Socks
    BY FreshSockets
  <2>2. \A f \in Fds : ~(f <= 0)
    BY DEF Fds
  <2> QED
    BY <2>1, <2>2 DEF TypeOK, SockType
<1>1. CASE ConnectOk
  <2> DEFINE u == [Unused EXCEPT !.peer = hostname, !.fd = FreshFd, !.old = TRUE]
  <2>1. u.fd = FreshFd
    BY DEF Unused
  <2>2. socks' = [socks EXCEPT ![NewSock] = u] /\ sockfd' = FreshFd /\ sockfd <= 0
    BY <1>1 DEF ConnectOk
  <2> HIDE DEF u
  <2>3. ASSUME NEW s \in Socks, socks'[s].peer # None, socks'[s].fd # Closed
        PROVE  socks'[s].fd = sockfd'
    <3>1. CASE s = NewSock
      BY <1>0, <2>1, <2>2, <3>1
    <3>2. CASE s # NewSock
      <4>1. socks'[s] = socks[s]
        BY <1>0, <2>2, <3>2
      <4>2. socks[s].fd = sockfd /\ socks[s].fd \in Fds
        BY <1>0, <2>3, <4>1 DEF OpenIsCurrent, SockType
      <4> QED
        BY <1>0, <2>2, <4>2, Zenon
    <3> QED
      BY <3>1, <3>2
  <2> QED
    BY <2>3 DEF OpenIsCurrent
<1>2. CASE ConnectFails
  <2> DEFINE u == [Unused EXCEPT !.fd = FreshFd, !.old = TRUE]
  <2>1. u.peer = None
    BY DEF Unused
  <2>2. sockfd' = sockfd /\ (socks' = socks \/ socks' = [socks EXCEPT ![NewSock] = u])
    BY <1>2 DEF ConnectFails
  <2> HIDE DEF u
  <2>3. ASSUME NEW s \in Socks, socks'[s].peer # None
        PROVE  socks'[s] = socks[s]
    BY <1>0, <2>1, <2>2, <2>3
  <2> QED
    BY <2>2, <2>3 DEF OpenIsCurrent
<1> QED
  BY <1>1, <1>2

\* Reading, writing and the renderers leave descriptors and peers alone.
LEMMA DescriptorsKept ==
  ASSUME TypeOK, SendHdr \/ SendMsg \/ RecvReply \/ \E s \in Socks : Handle(s) \/ Shut(s)
  PROVE  \A s \in Socks : socks'[s].peer = socks[s].peer /\ socks'[s].fd = socks[s].fd
<1>0. socks \in [Socks -> SockType]
  BY DEF TypeOK, SockType
<1>1. CASE SendHdr
  BY <1>1, <1>0 DEF SendHdr, Written, NotWritten, Holders, SockType
<1>2. CASE SendMsg
  BY <1>2, <1>0 DEF SendMsg, Written, NotWritten, Holders, SockType
<1>3. CASE RecvReply
  BY <1>3, <1>0 DEF RecvReply, Holders, SockType
<1>4. ASSUME NEW s \in Socks, Handle(s) \/ Shut(s)
      PROVE  \A q \in Socks : socks'[q].peer = socks[q].peer /\ socks'[q].fd = socks[q].fd
  BY <1>4, <1>0 DEF Handle, Shut, SockType
<1> QED
  BY <1>1, <1>2, <1>3, <1>4

\* The program closes every connection it made before it ends well, also the
\* first one of "load and play" (cmdline.c:299, avremote.c:76).
THEOREM ClosedSafe == Spec => []ConnectionsClosed
<1>1. Init => ClosedInv
  BY DEF Init, ClosedInv, OpenIsCurrent, ConnectionsClosed, Unused
<1>2. TypeOK /\ ClosedInv /\ [Next]_vars => ClosedInv'
  <2> SUFFICES ASSUME TypeOK, ClosedInv, [Next]_vars PROVE ClosedInv'
    OBVIOUS
  <2> USE DEF Goto, Exit, ClosedInv
  <2>0. socks \in [Socks -> SockType] /\ \A f \in Fds : f > 0 /\ f >= 0
    BY DEF TypeOK, SockType, Fds
  <2>1. CASE Connect \/ Reconnect
    <3>1. OpenIsCurrent'
      BY <2>1, AttemptCurrent DEF Connect, Reconnect
    <3>2. pc # "exit" /\ pc' # "exit" /\ end' = end
      BY <2>1 DEF Connect, Reconnect
    <3> QED
      BY <3>1, <3>2 DEF ConnectionsClosed
  <2>2. CASE \/ Discover \/ SkipDiscovery \/ DryRun \/ Command \/ CommandUrl \/ PipeRead
             \/ PipeEof \/ RecvTimeout \/ Report
    <3>1. socks' = socks /\ sockfd' = sockfd /\ end' # "success"
      BY <2>2 DEF Discover, SkipDiscovery, DryRun, Command, CommandUrl, PipeRead, PipeEof,
         RecvTimeout, Report
    <3> QED
      BY <3>1 DEF OpenIsCurrent, ConnectionsClosed
  <2>3. CASE SendHdr \/ SendMsg \/ RecvReply \/ \E s \in Socks : Handle(s) \/ Shut(s)
    <3>1. sockfd' = sockfd /\ end' = end /\ (pc' # "exit" => pc # "exit")
      <4>1. CASE SendHdr \/ SendMsg \/ RecvReply
        BY <4>1 DEF SendHdr, SendMsg, RecvReply
      <4>2. CASE \E s \in Socks : Handle(s) \/ Shut(s)
        BY <4>2 DEF Handle, Shut, client
      <4> QED
        BY <2>3, <4>1, <4>2
    <3> QED
      BY <2>3, <3>1, DescriptorsKept DEF OpenIsCurrent, ConnectionsClosed
  <2>4. CASE ConnectAborts \/ SigPipe \/ ReportCrash
    <3>1. CloseAll /\ end' # "success" /\ pc' = "exit"
      BY <2>4 DEF ConnectAborts, SigPipe, ReportCrash
    <3>2. \A s \in Socks : socks'[s].fd = Closed
      BY <2>0, <3>1 DEF CloseAll, SockType
    <3> QED
      BY <3>1, <3>2 DEF OpenIsCurrent, ConnectionsClosed
  <2>5. socks' = CloseFd =>
          \A s \in Socks : socks'[s].peer # None => socks'[s].fd = Closed
    <3> SUFFICES ASSUME socks' = CloseFd, NEW s \in Socks, socks'[s].peer # None
                 PROVE  socks'[s].fd = Closed
      OBVIOUS
    <3>1. CASE s \in Holders(sockfd) /\ sockfd >= 0
      BY <2>0, <3>1 DEF CloseFd, SockType
    <3>2. CASE ~(s \in Holders(sockfd) /\ sockfd >= 0)
      <4>1. socks'[s] = socks[s]
        BY <3>2 DEF CloseFd
      <4>2. socks[s].fd # Closed => socks[s].fd = sockfd /\ socks[s].fd \in Fds
        BY <2>0, <4>1 DEF OpenIsCurrent, SockType
      <4> QED
        BY <2>0, <3>2, <4>1, <4>2, Zenon DEF Holders
    <3> QED
      BY <3>1, <3>2
  <2>6. CASE CloseLoad
    <3>1. socks' = CloseFd /\ end' # "success"
      BY <2>6 DEF CloseLoad
    <3> QED
      BY <2>5, <3>1 DEF OpenIsCurrent, ConnectionsClosed
  <2>7. CASE FreeUpnp
    <3>1. \A s \in Socks : socks'[s].peer # None => socks'[s].fd = Closed
      <4>1. CASE sockfd > 0
        BY <2>5, <2>7, <4>1 DEF FreeUpnp
      <4>2. CASE ~(sockfd > 0)
        BY <2>0, <2>7, <4>2 DEF FreeUpnp, OpenIsCurrent, SockType
      <4> QED
        BY <4>1, <4>2
    <3> QED
      BY <2>7, <3>1 DEF FreeUpnp, OpenIsCurrent, ConnectionsClosed
  <2>8. CASE UNCHANGED vars
    BY <2>8 DEF vars, client, OpenIsCurrent, ConnectionsClosed
  <2> QED
    BY <2>1, <2>2, <2>3, <2>4, <2>6, <2>7, <2>8 DEF Next, ClientNext, Stopped
<1>3. ClosedInv => ConnectionsClosed
  BY DEF ClosedInv
<1> QED
  BY <1>1, <1>2, <1>3, TypeCorrect, PTL DEF Spec

-----------------------------------------------------------------------------
\* What NoWriteAfterClose needs of a state: the second socket is made by the
\* reconnection only, and a header is still to be written to the current one.
ClosedIfUnused == \A s \in Socks : ~socks[s].old => socks[s].fd = Closed
WriteInv ==
  /\ pc \in {"discover", "connect"} => \A s \in Socks : ~socks[s].old
  /\ pc = "reconnect" => sockfd = 0
  /\ ClosedIfUnused
  /\ socks[2].old => /\ phase = "cmd"
                     /\ pc \in {"sendHdr", "sendMsg", "recv", "report", "free", "exit"}
  /\ pc \in {"command", "sendHdr"} => \A s \in Holders(sockfd) : socks[s].hdr = None

\* A connection attempt makes an entry of its own, and its descriptor is that of
\* no other.
LEMMA AttemptFresh ==
  ASSUME TypeOK, ClosedIfUnused, ~socks[2].old, ConnectOk \/ ConnectFails
  PROVE  /\ ~socks[NewSock].old
         /\ \A s \in Socks : s # NewSock => socks'[s] = socks[s]
         /\ \/ socks' = socks
            \/ socks'[NewSock].old /\ socks'[NewSock].hdr = None
         /\ ClosedIfUnused'
         /\ ConnectOk => \A s \in Socks : socks'[s].fd = sockfd' => socks'[s].hdr = None
<1>0. /\ socks \in [Socks -> SockType] /\ NewSock \in Socks /\ FreshFd \in Fds
      /\ Closed \notin Fds /\ Socks = {1, 2}
  <2>1. NewSock \in Socks /\ FreshFd \in Fds
    BY FreshSockets
  <2>2. Closed \notin Fds
    BY DEF Closed, Fds
  <2>3. Socks = {1, 2}
    BY DEF Socks
  <2> QED
    BY <2>1, <2>2, <2>3 DEF TypeOK, SockType
<1>1. ~socks[NewSock].old
  BY DEF NewSock
<1>2. \A s \in Socks : s # NewSock => socks[s].fd # FreshFd
  <2> SUFFICES ASSUME NEW s \in Socks, s # NewSock PROVE socks[s].fd # FreshFd
    OBVIOUS
  <2>1. CASE s = 2
    BY <1>0, <2>1 DEF ClosedIfUnused
  <2>2. CASE s = 1
    <3>1. socks[2].fd # 3
      BY <1>0 DEF ClosedIfUnused, Closed
    <3> QED
      BY <1>0, <2>2, <3>1 DEF FreshFd, Holders
  <2> QED
    BY <1>0, <2>1, <2>2
<1>3. CASE ConnectOk
  <2> DEFINE u == [Unused EXCEPT !.peer = hostname, !.fd = FreshFd, !.old = TRUE]
  <2>1. u.old /\ u.hdr = None /\ u.fd = FreshFd
    BY DEF Unused
  <2>2. socks' = [socks EXCEPT ![NewSock] = u] /\ sockfd' = FreshFd
    BY <1>3 DEF ConnectOk
  <2> HIDE DEF u
  <2>3. socks'[NewSock] = u /\ \A s \in Socks : s # NewSock => socks'[s] = socks[s]
    BY <1>0, <2>2
  <2> QED
    BY <1>1, <1>2, <2>1, <2>2, <2>3 DEF ClosedIfUnused
<1>4. CASE ConnectFails
  <2> DEFINE u == [Unused EXCEPT !.fd = FreshFd, !.old = TRUE]
  <2>1. u.old /\ u.hdr = None
    BY DEF Unused
  <2>2. socks' = socks \/ socks' = [socks EXCEPT ![NewSock] = u]
    BY <1>4 DEF ConnectFails
  <2> HIDE DEF u
  <2>3. socks' = socks \/ (/\ socks'[NewSock] = u
                           /\ \A s \in Socks : s # NewSock => socks'[s] = socks[s])
    BY <1>0, <2>2
  <2>4. ConnectOk => \A s \in Socks : socks'[s].fd = sockfd' => socks'[s].hdr = None
    BY <1>3
  <2>5. ClosedIfUnused'
    BY <2>1, <2>3 DEF ClosedIfUnused
  <2> QED
    BY <1>1, <2>1, <2>3, <2>4, <2>5
<1> QED
  BY <1>3, <1>4

\* Steps other than an attempt and the first write keep the headers, and give
\* no closed entry a new body.
LEMMA HeadersKept ==
  ASSUME TypeOK, [Next]_vars, ~Attempt, NEW s \in Socks
  PROVE  /\ ~SendHdr => socks'[s].hdr = socks[s].hdr
         /\ socks[s].fd = Closed => /\ socks'[s].fd = Closed
                                    /\ socks'[s].hdr = socks[s].hdr
                                    /\ socks'[s].body = socks[s].body
         /\ SendHdr => \/ socks'[s].hdr = socks[s].hdr
                       \/ s \in Holders(sockfd)
<1> DEFINE Goal == /\ ~SendHdr => socks'[s].hdr = socks[s].hdr
                   /\ socks[s].fd = Closed => /\ socks'[s].fd = Closed
                                              /\ socks'[s].hdr = socks[s].hdr
                                              /\ socks'[s].body = socks[s].body
                   /\ SendHdr => \/ socks'[s].hdr = socks[s].hdr
                                 \/ s \in Holders(sockfd)
<1>0. socks \in [Socks -> SockType]
  BY DEF TypeOK, SockType
<1>a. sockfd # Closed
  BY DEF TypeOK, Closed, Fds
<1>b. ASSUME NEW q \in Holders(sockfd) PROVE q \in Socks /\ socks[q].fd # Closed
  BY <1>a DEF Holders
<1>1. CASE CloseAll
  BY <1>1, <1>0 DEF CloseAll, SockType
<1>2. CASE socks' = CloseFd
  BY <1>2, <1>0 DEF CloseFd, SockType
<1>3. CASE SendHdr
  <2>1. socks' = socks \/ \E q \in Holders(sockfd) : socks' = [socks EXCEPT ![q]["hdr"] = msg]
    BY <1>3 DEF SendHdr, Written, NotWritten
  <2>2. CASE socks' = socks
    BY <2>2
  <2>3. ASSUME NEW q \in Holders(sockfd), socks' = [socks EXCEPT ![q]["hdr"] = msg]
        PROVE  Goal
    BY <1>0, <1>3, <1>b, <2>3 DEF SockType
  <2> QED
    BY <2>1, <2>2, <2>3
<1>4. CASE SendMsg
  <2>1. socks' = socks \/ \E q \in Holders(sockfd) : socks' = [socks EXCEPT ![q]["body"] = msg]
    BY <1>4 DEF SendMsg, Written, NotWritten
  <2>2. CASE socks' = socks
    BY <2>2
  <2>3. ASSUME NEW q \in Holders(sockfd), socks' = [socks EXCEPT ![q]["body"] = msg]
        PROVE  Goal
    <3>1. pc = "sendMsg"
      BY <1>4 DEF SendMsg
    <3>2. ~SendHdr
      BY <3>1 DEF SendHdr
    <3> QED
      BY <1>0, <1>b, <2>3, <3>2 DEF SockType
  <2> QED
    BY <2>1, <2>2, <2>3
<1>5. CASE RecvReply
  BY <1>5, <1>0 DEF RecvReply, Holders, SockType
<1>6. ASSUME NEW q \in Socks, Handle(q) \/ Shut(q) PROVE Goal
  BY <1>6, <1>0 DEF Handle, Shut, SockType
<1>7. CASE UNCHANGED socks
  BY <1>7
<1>8. ClientNext => \/ CloseAll \/ socks' = CloseFd \/ UNCHANGED socks
                   \/ SendHdr \/ SendMsg \/ RecvReply
  BY DEF ClientNext, Attempt, Discover, SkipDiscovery, ConnectAborts, DryRun,
     Command, CommandUrl, PipeRead, PipeEof, SigPipe, RecvTimeout, CloseLoad,
     Report, ReportCrash, FreeUpnp
<1>9. QED
  BY <1>1, <1>2, <1>3, <1>4, <1>5, <1>6, <1>7, <1>8
     DEF Next, Stopped, vars

\* No step that is not an attempt makes an entry that is not in use open.
LEMMA UnusedKept ==
  ASSUME TypeOK, [Next]_vars, ~Attempt, ClosedIfUnused
  PROVE  ClosedIfUnused'
<1>1. \A s \in Socks : socks'[s].old = socks[s].old
  BY PeersKept DEF Kept
<1>2. \A s \in Socks : socks[s].fd = Closed => socks'[s].fd = Closed
  BY HeadersKept
<1> QED
  BY <1>1, <1>2 DEF ClosedIfUnused

\* Nothing is added to a connection the program has closed, and no second
\* header to any, although descriptor numbers are used again (avremote.c:171,
\* cmdline.c:296-310).
THEOREM WritesSafe == Spec => NoWriteAfterClose
<1> DEFINE Once == \A s \in Socks : socks[s].old =>
              /\ socks[s].fd = Closed =>
                   socks'[s].hdr = socks[s].hdr /\ socks'[s].body = socks[s].body
              /\ opts.cmd # "pipe" /\ socks[s].hdr # None => socks'[s].hdr = socks[s].hdr
<1>1. Init => WriteInv
  BY DEF Init, WriteInv, ClosedIfUnused, Unused, Socks
<1>2. TypeOK /\ TypeOK' /\ WriteInv /\ [Next]_vars => WriteInv'
  <2> SUFFICES ASSUME TypeOK, TypeOK', WriteInv, [Next]_vars PROVE WriteInv'
    OBVIOUS
  <2> USE DEF Goto, Exit, WriteInv
  <2>0. 1 \in Socks /\ 2 \in Socks /\ \A f \in Fds : f > 0
    BY DEF Socks, Fds
  <2>1. CASE Attempt
    <3>1. ~socks[2].old /\ ClosedIfUnused
      BY <2>0, <2>1 DEF Attempt, Connect, Reconnect
    <3>2. ConnectOk \/ ConnectFails
      BY <2>1 DEF Attempt, Connect, Reconnect
    <3>3. ClosedIfUnused' /\ \A s \in Socks : s # NewSock => socks'[s] = socks[s]
      BY <3>1, <3>2, AttemptFresh
    <3>4. ConnectOk => \A s \in Holders(sockfd)' : socks'[s].hdr = None
      BY <3>1, <3>2, AttemptFresh DEF Holders
    <3>5. CASE Connect
      <4>1. NewSock = 1 /\ pc' \in {"pipe", "command"} /\ ConnectOk
        BY <2>0, <3>5 DEF Connect, NewSock
      <4>2. ~socks'[2].old
        BY <2>0, <3>1, <3>3, <4>1
      <4> QED
        BY <3>3, <3>4, <4>1, <4>2
    <3>6. CASE Reconnect
      <4>1. phase' = "cmd" /\ pc' \in {"report", "sendHdr"}
        BY <3>6 DEF Reconnect
      <4>2. ~ConnectOk => \A s \in Holders(sockfd)' : socks'[s].hdr = None
        <5>1. ~ConnectOk => sockfd' = 0
          BY <3>6, <3>2 DEF Reconnect, ConnectFails
        <5>2. \A s \in Socks : socks'[s].fd # 0
          BY <2>0 DEF TypeOK, Closed
        <5> QED
          BY <5>1, <5>2 DEF Holders
      <4> QED
        BY <3>3, <3>4, <4>1, <4>2
    <3> QED
      BY <2>1, <3>5, <3>6 DEF Attempt
  <2>2. ASSUME ~Attempt
        PROVE  /\ ClosedIfUnused'
               /\ \A s \in Socks : socks'[s].old = socks[s].old
    BY <2>2, UnusedKept, PeersKept DEF Kept
  <2>3. CASE Discover \/ SkipDiscovery \/ DryRun
    <3>1. ~Attempt
      BY <2>3 DEF Discover, SkipDiscovery, DryRun, Attempt, Connect, Reconnect
    <3>2. pc \in {"discover", "connect"} /\ pc' \in {"connect", "command", "exit"}
          /\ sockfd' = sockfd /\ socks' = socks /\ (pc' = "command" => pc = "connect")
      BY <2>3 DEF Discover, SkipDiscovery, DryRun
    <3>3. \A s \in Socks : socks[s].fd = Closed
      BY <3>2 DEF ClosedIfUnused
    <3>4. Holders(sockfd)' = {}
      BY <3>2, <3>3 DEF Holders, TypeOK, Closed, Fds
    <3> QED
      BY <2>0, <2>2, <3>1, <3>2, <3>4
  <2>4. CASE Command \/ CommandUrl
    <3>1. ~Attempt
      BY <2>4 DEF Command, CommandUrl, Attempt, Connect, Reconnect
    <3>2. /\ pc = "command" /\ pc' \in {"report", "sendHdr"}
          /\ sockfd' = sockfd /\ socks' = socks
      BY <2>4 DEF Command, CommandUrl
    <3>3. Holders(sockfd)' = Holders(sockfd)
      BY <3>2 DEF Holders
    <3> QED
      BY <2>0, <2>2, <3>1, <3>2, <3>3
  <2>5. CASE \/ ConnectAborts \/ PipeRead \/ PipeEof \/ SendHdr \/ SendMsg \/ SigPipe
             \/ RecvReply \/ RecvTimeout \/ CloseLoad \/ Report \/ ReportCrash \/ FreeUpnp
    <3>1. ~Attempt
      BY <2>5 DEF ConnectAborts, PipeRead, PipeEof, SendHdr, SendMsg, SigPipe, RecvReply,
         RecvTimeout, CloseLoad, Report, ReportCrash, FreeUpnp, Attempt, Connect, Reconnect
    <3>2. /\ pc' \notin {"discover", "connect", "command", "sendHdr"}
          /\ pc' = "reconnect" => sockfd' = 0
          /\ pc \in {"sendHdr", "sendMsg", "recv", "report", "free", "exit"} /\ phase = "cmd" =>
               /\ pc' \in {"sendHdr", "sendMsg", "recv", "report", "free", "exit"}
               /\ phase' = "cmd"
      BY <2>5 DEF ConnectAborts, PipeRead, PipeEof, SendHdr, SendMsg, SigPipe, RecvReply,
         RecvTimeout, AfterRecv, CloseLoad, Report, ReportCrash, FreeUpnp
    <3> QED
      BY <2>0, <2>2, <3>1, <3>2
  <2>6. CASE \E q \in Socks : Handle(q) \/ Shut(q)
    <3>1. UNCHANGED client
      BY <2>6 DEF Handle, Shut
    <3>2. ~Attempt /\ ~SendHdr
      BY <3>1 DEF client, Attempt, Connect, Reconnect, SendHdr
    <3>3. \A s \in Socks : socks'[s].fd = socks[s].fd /\ socks'[s].hdr = socks[s].hdr
      BY <2>6, <3>2, DescriptorsKept, HeadersKept
    <3>4. pc' = pc /\ phase' = phase /\ sockfd' = sockfd
      BY <3>1 DEF client
    <3>5. Holders(sockfd)' = Holders(sockfd)
      BY <3>3, <3>4 DEF Holders
    <3> QED
      BY <2>0, <2>2, <3>2, <3>3, <3>4, <3>5 DEF Holders
  <2>7. CASE UNCHANGED vars
    BY <2>7 DEF vars, client, ClosedIfUnused, Holders
  <2> QED
    BY <2>1, <2>3, <2>4, <2>5, <2>6, <2>7 DEF Next, ClientNext, Attempt, Stopped
<1>3. TypeOK /\ WriteInv /\ [Next]_vars => [Once]_vars
  <2> SUFFICES ASSUME TypeOK, WriteInv, [Next]_vars, NEW s \in Socks, socks[s].old
               PROVE  /\ socks[s].fd = Closed =>
                           socks'[s].hdr = socks[s].hdr /\ socks'[s].body = socks[s].body
                      /\ opts.cmd # "pipe" /\ socks[s].hdr # None =>
                           socks'[s].hdr = socks[s].hdr
    OBVIOUS
  <2>1. CASE Attempt
    <3>1. ~socks[2].old /\ ClosedIfUnused /\ (ConnectOk \/ ConnectFails)
      BY <2>1 DEF Attempt, Connect, Reconnect, WriteInv, Socks
    <3>2. socks'[s] = socks[s]
      BY <3>1, AttemptFresh
    <3> QED
      BY <3>2
  <2>2. CASE ~Attempt /\ ~SendHdr
    BY <2>2, HeadersKept
  <2>3. CASE SendHdr
    <3>1. ~Attempt
      BY <2>3 DEF SendHdr, Attempt, Connect, Reconnect
    <3>2. s \in Holders(sockfd) => socks[s].hdr = None
      BY <2>3 DEF SendHdr, WriteInv
    <3> QED
      BY <2>3, <3>1, <3>2, HeadersKept
  <2> QED
    BY <2>1, <2>2, <2>3
<1> QED
  BY <1>1, <1>2, <1>3, TypeCorrect, PTL DEF Spec, NoWriteAfterClose

-----------------------------------------------------------------------------
\* What CrashMeansNoAnswer rests on: "get" is one exchange on one connection, so
\* that a positive answer sent to its end is on its way or in upnp->res, and
\* there to its end if it fits.
AnswerHere == \/ socks[1].reply # NoReply /\ socks[1].reply.ok /\ Fits(socks[1].reply)
              \/ res.head.ok /\ res.head.whole
Unanswered == {"discover", "connect", "command", "sendHdr", "sendMsg", "recv"}
CrashInv ==
  /\ end = "crash" => pc = "exit" /\ opts.cmd = Get
  /\ opts.cmd = Get =>
       /\ phase = "cmd" /\ pc \notin {"close", "reconnect", "pipe"}
       /\ pc \in {"discover", "connect"} =>
            ~socks[1].old /\ ~socks[1].done /\ socks[1].peer = None
       /\ pc \in Unanswered => res.head = NoReply
       /\ socks[2].peer = None /\ socks[2].reply = NoReply
       /\ ~socks[1].done => socks[1].reply = NoReply /\ \A r \in Renderers : applied[r] = {}
       /\ (\E r \in Renderers : \E a \in applied[r] : a.answered) => AnswerHere
  /\ end = "crash" => ~(res.head.ok /\ res.head.whole)

\* A run that was not stopped has a renderer.
HostInv ==
  /\ ~opts.dry /\ pc \notin {"discover", "connect", "exit"} => hostname \in Renderers
  /\ end = "crash" => pc = "exit" /\ hostname \in Renderers

\* How an answer that fits is read when it has come.
LEMMA CutAnswers ==
  ASSUME socks[1].reply.ok, Fits(socks[1].reply), res' = Overwrite(Cut(socks[1].reply))
  PROVE  res'.head.ok /\ res'.head.whole
<1>1. res'.head = Cut(socks[1].reply)
  BY DEF Overwrite
<1>2. Cut(socks[1].reply) = socks[1].reply
  BY DEF Cut, Fits
<1> QED
  BY <1>1, <1>2 DEF Fits

\* What most steps leave as it is.
RepliesKept ==
  \A s \in Socks : /\ socks'[s].peer = socks[s].peer /\ socks'[s].old = socks[s].old
                   /\ socks'[s].done = socks[s].done /\ socks'[s].reply = socks[s].reply

\* "get" breaks down only for want of a full answer, whatever the renderer sends
\* and when (parsers.c:29-83, avremote.c:195-212).
THEOREM CrashSafe == Spec => []CrashMeansNoAnswer
<1>1. Init => CrashInv
  BY DEF Init, CrashInv, AnswerHere, Unused, Socks, NoRes
<1>2. TypeOK /\ CrashInv /\ [Next]_vars => CrashInv'
  <2> SUFFICES ASSUME TypeOK, CrashInv, [Next]_vars PROVE CrashInv'
    OBVIOUS
  <2> USE DEF Goto, Exit, CrashInv, AnswerHere
  <2>0. socks \in [Socks -> SockType] /\ Socks = {1, 2}
    BY DEF TypeOK, SockType, Socks
  <2>1. CASE Connect
    <3> DEFINE u == [Unused EXCEPT !.peer = hostname, !.fd = FreshFd, !.old = TRUE]
    <3>1. u.reply = NoReply /\ u.done = FALSE
      BY DEF Unused
    <3>2. socks' = [socks EXCEPT ![NewSock] = u]
      BY <2>1 DEF Connect, ConnectOk
    <3> HIDE DEF u
    <3>3. opts.cmd = Get => socks'[1] = u /\ socks'[2] = socks[2]
      BY <2>0, <2>1, <3>2 DEF Connect, NewSock
    <3>4. opts.cmd = Get => ~socks[1].done
      <4>1. pc \in {"discover", "connect"}
        BY <2>1 DEF Connect
      <4> QED
        BY <4>1
    <3> QED
      BY <2>0, <2>1, <3>1, <3>3, <3>4 DEF Connect, Get, Unanswered
  <2>2. ASSUME opts' = opts, applied' = applied, RepliesKept, res' = res,
               opts.cmd = Get =>
                 /\ phase' = "cmd" /\ pc' \notin {"close", "reconnect", "pipe"}
                 /\ pc' \in {"discover", "connect"} => pc \in {"discover", "connect"}
                 /\ pc' \in Unanswered => pc \in Unanswered,
               end' = "crash" => pc' = "exit" /\ opts.cmd = Get /\ ~(res.head.ok /\ res.head.whole)
        PROVE  CrashInv'
    BY <2>0, <2>2 DEF RepliesKept
  <2>3. CASE \/ Discover \/ SkipDiscovery \/ DryRun \/ Command \/ CommandUrl \/ PipeRead
             \/ PipeEof \/ RecvTimeout \/ Report
    <3>1. /\ socks' = socks /\ opts' = opts /\ applied' = applied /\ res' = res
          /\ end' = "crash" => end = "crash" /\ pc # "exit"
      BY <2>3 DEF Discover, SkipDiscovery, DryRun, Command, CommandUrl, PipeRead, PipeEof,
         RecvTimeout, Report
    <3>2. opts.cmd = Get =>
            /\ phase' = "cmd" /\ pc' \notin {"close", "reconnect", "pipe"}
            /\ pc' \in {"discover", "connect"} => pc \in {"discover", "connect"}
            /\ pc' \in Unanswered => pc \in Unanswered
      BY <2>3 DEF Discover, SkipDiscovery, DryRun, Command, CommandUrl, PipeRead, PipeEof,
         RecvTimeout, AfterRecv, Report, Get, Unanswered
    <3> QED
      BY <2>2, <3>1, <3>2 DEF RepliesKept
  <2>4. CASE ConnectAborts \/ SigPipe \/ ReportCrash \/ CloseLoad \/ FreeUpnp
    <3>1. /\ opts' = opts /\ applied' = applied /\ res' = res
          /\ end' = "crash" => pc' = "exit" /\ opts.cmd = Get /\ ~(res.head.ok /\ res.head.whole)
          /\ opts.cmd = Get =>
               phase' = "cmd" /\ pc' \notin {"close", "reconnect", "pipe"} \cup Unanswered
      BY <2>4 DEF ConnectAborts, SigPipe, ReportCrash, ParserCrashes, Parsed, CloseLoad, FreeUpnp,
         Unanswered
    <3>2. CloseAll \/ socks' = CloseFd \/ socks' = socks
      BY <2>4 DEF ConnectAborts, SigPipe, ReportCrash, CloseLoad, FreeUpnp
    <3>3. RepliesKept
      <4>1. CASE CloseAll
        BY <2>0, <4>1 DEF CloseAll, SockType, RepliesKept
      <4>2. CASE socks' = CloseFd
        BY <2>0, <4>2 DEF CloseFd, SockType, RepliesKept
      <4> QED
        BY <3>2, <4>1, <4>2 DEF RepliesKept
    <3> QED
      BY <2>2, <3>1, <3>3 DEF Unanswered
  <2>5. CASE SendHdr \/ SendMsg
    <3>1. RepliesKept
      BY <2>0, <2>5 DEF SendHdr, SendMsg, Written, NotWritten, Holders, SockType, RepliesKept
    <3>2. /\ opts' = opts /\ applied' = applied /\ res' = res /\ phase' = phase
          /\ pc' \in {"sendMsg", "recv"} /\ end' = end /\ pc # "exit"
          /\ pc \in Unanswered
      BY <2>5 DEF SendHdr, SendMsg, Unanswered
    <3> QED
      BY <2>2, <3>1, <3>2
  <2>6. CASE RecvReply
    <3>1. PICK q \in Holders(sockfd) :
            /\ IF socks[q].reply = NoReply THEN UNCHANGED res
               ELSE res' = Overwrite(Cut(socks[q].reply))
            /\ socks' = [socks EXCEPT ![q].reply = NoReply]
      BY <2>6 DEF RecvReply
    <3>2. /\ opts' = opts /\ applied' = applied /\ end' = end /\ phase' = phase /\ pc = "recv"
          /\ pc' \in {"close", "pipe", "report"} /\ (phase = "cmd" => pc' = "report")
          /\ pc \in Unanswered
      BY <2>6 DEF RecvReply, AfterRecv, Unanswered
    <3>3. end # "crash"
      BY <3>2
    <3>4. q \in Socks
      BY DEF Holders
    <3>5. \A s \in Socks : /\ socks'[s].peer = socks[s].peer /\ socks'[s].done = socks[s].done
                           /\ socks'[s].reply \in {socks[s].reply, NoReply}
                           /\ s # q => socks'[s] = socks[s]
      BY <2>0, <3>1, <3>4 DEF SockType
    <3>6. opts.cmd = Get /\ (\E r \in Renderers : \E a \in applied[r] : a.answered) =>
            AnswerHere'
      <4> SUFFICES ASSUME opts.cmd = Get, AnswerHere PROVE AnswerHere'
        OBVIOUS
      <4>1. CASE socks[q].reply = NoReply
        <5>1. socks' = socks /\ res' = res
          BY <2>0, <3>1, <3>4, <4>1 DEF SockType
        <5> QED
          BY <5>1
      <4>2. CASE socks[q].reply # NoReply
        <5>1. q = 1
          BY <2>0, <3>4, <4>2
        <5>2. ~res.head.ok
          BY <3>2 DEF NoReply
        <5> QED
          BY <3>1, <4>2, <5>1, <5>2, CutAnswers
      <4> QED
        BY <4>1, <4>2
    <3> QED
      BY <2>0, <3>2, <3>3, <3>5, <3>6 DEF Unanswered
  <2>7. CASE Reconnect
    <3>1. opts.cmd # Get /\ opts' = opts /\ end' = end /\ pc # "exit"
      BY <2>7 DEF Reconnect
    <3> QED
      BY <3>1
  <2>8. ASSUME NEW q \in Socks, Handle(q)
        PROVE  CrashInv'
    <3>1. PICK obeys \in BOOLEAN, answer \in Replies \cup {NoReply} :
            /\ answer # NoReply => answer.req = socks[q].body /\ answer.ok = obeys
            /\ socks' = [socks EXCEPT ![q].done = TRUE, ![q].reply = answer]
            /\ applied' = IF obeys
                 THEN [applied EXCEPT ![socks[q].peer] =
                         @ \cup {[req |-> socks[q].body, answered |-> Fits(answer),
                                  after |-> {a.req : a \in @}]}]
                 ELSE applied
      BY <2>8 DEF Handle
    <3>2. UNCHANGED client /\ socks[q].peer # None /\ ~socks[q].done
      BY <2>8 DEF Handle
    <3>3. /\ socks'[q].done /\ socks'[q].reply = answer
          /\ socks'[q].peer = socks[q].peer /\ socks'[q].old = socks[q].old
          /\ \A s \in Socks : s # q => socks'[s] = socks[s]
      BY <2>0, <3>1 DEF SockType
    <3>4. ~NoReply.whole
      BY DEF NoReply
    <3>5. opts.cmd = Get => q = 1 /\ pc \notin {"discover", "connect"}
      BY <2>0, <3>2
    <3>6. opts.cmd = Get /\ (\E r \in Renderers : \E a \in applied'[r] : a.answered) =>
            AnswerHere'
      <4> SUFFICES ASSUME opts.cmd = Get, NEW r \in Renderers, NEW a \in applied'[r], a.answered
                   PROVE  AnswerHere'
        OBVIOUS
      <4>1. applied[r] = {} /\ q = 1 /\ socks[q].peer \in Renderers
        BY <2>0, <3>2, <3>5 DEF SockType
      <4>2. applied \in [Renderers -> SUBSET [req : Msgs, answered : BOOLEAN,
                                             after : SUBSET Msgs]]
        BY DEF TypeOK
      <4> DEFINE e == [req |-> socks[q].body, answered |-> Fits(answer),
                       after |-> {b.req : b \in applied[socks[q].peer]}]
      <4>3. e.answered = Fits(answer)
        OBVIOUS
      <4>4. \/ applied' = applied
            \/ obeys /\ applied' = [applied EXCEPT ![socks[q].peer] = @ \cup {e}]
        BY <3>1
      <4> HIDE DEF e
      <4>5. a = e /\ obeys
        BY <4>1, <4>2, <4>4
      <4>6. obeys /\ a.answered = Fits(answer)
        BY <4>3, <4>5
      <4>7. Fits(answer) /\ answer # NoReply
        BY <3>4, <4>6 DEF Fits
      <4>8. answer.ok = obeys
        BY <3>1, <4>7
      <4>9. socks'[1].reply = answer
        BY <3>3, <4>1
      <4> QED
        BY <4>6, <4>7, <4>8, <4>9
    <3> QED
      BY <2>0, <3>1, <3>2, <3>3, <3>5, <3>6 DEF client
  <2>9. ASSUME NEW q \in Socks, Shut(q)
        PROVE  CrashInv'
    <3>1. RepliesKept
      BY <2>0, <2>9 DEF Shut, SockType, RepliesKept
    <3> QED
      BY <2>2, <2>9, <3>1 DEF Shut, client
  <2>10. CASE UNCHANGED vars
    BY <2>2, <2>10 DEF vars, client, RepliesKept
  <2> QED
    BY <2>1, <2>3, <2>4, <2>5, <2>6, <2>7, <2>8, <2>9, <2>10 DEF Next, ClientNext, Stopped
<1>3. Init => HostInv
  BY DEF Init, HostInv
<1>4. HostInv /\ [Next]_vars => HostInv'
  BY DEF HostInv, Next, ClientNext, Discover, SkipDiscovery, Connect, ConnectOk, ConnectAborts,
     DryRun, Command, CommandUrl, PipeRead, PipeEof, SendHdr, SendMsg, SigPipe, RecvReply,
     RecvTimeout, AfterRecv, CloseLoad, Reconnect, Report, ReportCrash, ParserCrashes, Parsed,
     FreeUpnp,
     Handle, Shut, Stopped, Goto, Exit, vars, client
<1>5. TypeOK /\ CrashInv /\ HostInv => CrashMeansNoAnswer
  <2> SUFFICES ASSUME TypeOK, CrashInv, HostInv, end = "crash",
                      \E a \in applied[hostname] : a.req = Get /\ a.answered
               PROVE  \E s \in Socks : socks[s].reply # NoReply
    BY DEF CrashMeansNoAnswer
  <2> QED
    BY DEF CrashInv, HostInv, AnswerHere, Socks
<1> QED
  BY <1>1, <1>2, <1>3, <1>4, <1>5, TypeCorrect, PTL DEF Spec

-----------------------------------------------------------------------------
\* What AnsweredLoadIsPlayed rests on, for the default branch.  Until the load
\* has been answered or given up there is nothing but it; afterwards its
\* connection is closed, so that no late answer to it can be read; and what
\* was read of an answer to it tells that it was obeyed.
Early == pc \in {"discover", "connect", "command"}
First == phase = "load" \/ Early
Reqs(r) == {a.req : a \in applied[r]}
LoadRead == \E t \in {res.head, res.tail} : t.req = Load /\ t.ok

Stages ==
  /\ phase # "pipe" /\ pc # "pipe" /\ (pc \in {"close", "reconnect"} => phase = "load")
  /\ First => msg \in {None, Load}
  /\ ~First /\ pc # "exit" => msg = Play

OnlyLoads ==
  /\ Early => res = NoRes /\ \A s \in Socks : socks[s].body = None
  /\ First => /\ \A s \in Socks : socks[s].body \in {None, Load}
              /\ \A r \in Renderers : \A a \in applied[r] : a.req = Load

LoadClosed ==
  \A s \in Socks : socks[s].body = Load /\ socks[s].fd # Closed =>
    socks[s].fd = sockfd /\ phase = "load" /\ pc # "reconnect"

TrueReplies ==
  \A s \in Socks : socks[s].reply # NoReply =>
    /\ socks[s].reply.req = Load => socks[s].body = Load
    /\ socks[s].reply.ok => socks[s].peer # None /\ socks[s].reply.req \in Reqs(socks[s].peer)

Played ==
  /\ LoadRead => Load \in Reqs(hostname)
  /\ \A r \in Renderers : \A a \in applied[r] :
       a.req = Play /\ LoadRead => Load \in a.after

LoadInv == opts.cmd = "url" => Stages /\ OnlyLoads /\ LoadClosed /\ TrueReplies /\ Played

SocksKept ==
  \A s \in Socks :
    /\ socks'[s].peer = socks[s].peer /\ socks'[s].body = socks[s].body
    /\ socks'[s].reply = socks[s].reply
    /\ socks[s].fd = Closed => socks'[s].fd = Closed

\* If a positive answer to the load was read, the Play that is obeyed comes after
\* it, whatever the renderers do and however late (cmdline.c:293-310).
THEOREM PlaysTheLoaded == Spec => []AnsweredLoadIsPlayed
<1>0. None # Load /\ Load # Play /\ None # Play /\ Url[1] = Load /\ Url[2] = Play
      /\ NoReply.req = None /\ Closed \notin Fds
  BY DEF Load, Play, Url, Msgs, Simple, NoReply, Closed, Fds
<1>1. Init => LoadInv
  <2> SUFFICES ASSUME Init PROVE Stages /\ OnlyLoads /\ LoadClosed /\ TrueReplies /\ Played
    BY DEF LoadInv
  <2>1. \A s \in Socks : socks[s] = Unused
    BY DEF Init
  <2>2. Unused.body = None /\ Unused.reply = NoReply
    BY DEF Unused
  <2>3. ~LoadRead
    BY <1>0 DEF Init, NoRes, LoadRead
  <2> QED
    BY <1>0, <2>1, <2>2, <2>3 DEF Init, Stages, OnlyLoads, LoadClosed, TrueReplies, Played,
       Early, First
<1>2. TypeOK /\ TargetInv /\ LoadInv /\ [Next]_vars => LoadInv'
  <2> SUFFICES ASSUME TypeOK, TargetInv, LoadInv, [Next]_vars, opts.cmd = "url",
                      opts' = opts
               PROVE  LoadInv'
    <3>1. ASSUME TypeOK, [Next]_vars PROVE opts' = opts
      <4>1. ClientNext => opts' = opts
        BY DEF ClientNext, Discover, SkipDiscovery, Connect, ConnectAborts, DryRun, Command,
           CommandUrl, PipeRead, PipeEof, SendHdr, SendMsg, SigPipe, RecvReply, RecvTimeout,
           CloseLoad, Reconnect, Report, ReportCrash, FreeUpnp
      <4>2. (\E s \in Socks : Handle(s) \/ Shut(s)) => opts' = opts
        BY DEF Handle, Shut, client
      <4> QED
        BY <3>1, <4>1, <4>2 DEF Next, Stopped, vars, client
    <3> QED
      BY <3>1 DEF LoadInv
  <2>0. /\ socks \in [Socks -> SockType] /\ Socks = {1, 2} /\ (sockfd # Closed)
        /\ Stages /\ OnlyLoads /\ LoadClosed /\ TrueReplies /\ Played
    BY DEF TypeOK, SockType, Socks, LoadInv, Closed, Fds
  \* Steps that leave the exchanges as they are and may close descriptors.
  <2>1. ASSUME applied' = applied, res' = res, hostname' = hostname \/ Early,
               SocksKept, Early' => Early, First' => First, Stages', LoadClosed'
        PROVE  LoadInv'
    <3>1. OnlyLoads'
      BY <2>0, <2>1 DEF OnlyLoads, SocksKept
    <3>2. TrueReplies'
      BY <2>0, <2>1 DEF TrueReplies, SocksKept, Reqs
    <3>3. LoadRead' = LoadRead
      BY <2>1 DEF LoadRead
    <3>4. Early => ~LoadRead
      BY <1>0, <2>0 DEF OnlyLoads, LoadRead, NoRes
    <3>5. Played'
      BY <2>0, <2>1, <3>3, <3>4 DEF Played, Reqs
    <3> QED
      BY <2>1, <3>1, <3>2, <3>5 DEF LoadInv
  <2>2. CASE \/ Discover \/ SkipDiscovery \/ DryRun \/ Command \/ CommandUrl \/ PipeRead
             \/ PipeEof \/ RecvTimeout \/ Report
    <3>1. applied' = applied /\ res' = res /\ (hostname' = hostname \/ Early) /\ socks' = socks
          /\ sockfd' = sockfd
      BY <2>2 DEF Discover, SkipDiscovery, DryRun, Command, CommandUrl, PipeRead, PipeEof,
         RecvTimeout, Report, Early
    <3>2. /\ (Early' => Early) /\ (First' => First) /\ Stages'
          /\ phase = "load" => phase' = "load"
          /\ pc' # "reconnect"
      BY <1>0, <2>0, <2>2 DEF Discover, SkipDiscovery, DryRun, Command, CommandUrl, PipeRead,
         PipeEof, RecvTimeout, AfterRecv, Report, Early, First, Stages, Goto, Exit
    <3>3. SocksKept /\ LoadClosed'
      BY <2>0, <3>1, <3>2 DEF SocksKept, LoadClosed
    <3> QED
      BY <2>1, <3>1, <3>2, <3>3
  <2>3. CASE ConnectAborts \/ SigPipe \/ ReportCrash \/ CloseLoad \/ FreeUpnp
    <3>1. /\ applied' = applied /\ res' = res /\ hostname' = hostname /\ phase' = phase
          /\ pc' \in {"exit", "reconnect"} /\ msg' = msg
          /\ pc' = "reconnect" => pc = "close"
      BY <2>3 DEF ConnectAborts, SigPipe, ReportCrash, CloseLoad, FreeUpnp, Goto, Exit
    <3>2. ~Early' /\ (First' => First) /\ Stages'
      BY <2>0, <3>1 DEF Early, First, Stages
    <3>3. CASE CloseAll
      <4>1. SocksKept /\ \A s \in Socks : socks'[s].fd = Closed
        BY <2>0, <3>3 DEF CloseAll, SockType, SocksKept
      <4> QED
        BY <2>1, <3>1, <3>2, <4>1 DEF LoadClosed
    <3>4. CASE CloseLoad \/ FreeUpnp
      <4>1. socks' = CloseFd \/ socks' = socks
        BY <3>4 DEF CloseLoad, FreeUpnp
      <4>2. SocksKept
        BY <2>0, <4>1 DEF CloseFd, SockType, SocksKept
      <4>3. ASSUME NEW s \in Socks, socks'[s].body = Load
            PROVE  socks'[s].fd = Closed
        <5>1. socks[s].body = Load
          BY <4>2, <4>3 DEF SocksKept
        <5>2. CASE socks[s].fd = Closed
          BY <4>2, <5>2 DEF SocksKept
        <5>3. CASE socks[s].fd # Closed
          <6>1. socks[s].fd = sockfd /\ phase = "load"
            BY <2>0, <5>1, <5>3 DEF LoadClosed
          <6>2. s \in Holders(sockfd) /\ sockfd > 0
            BY <2>0, <5>3, <6>1 DEF Holders, SockType, Fds, TypeOK
          <6>3. socks' = CloseFd /\ sockfd >= 0
            BY <3>4, <6>2 DEF CloseLoad, FreeUpnp, TypeOK, Fds
          <6> QED
            BY <2>0, <6>2, <6>3 DEF CloseFd, SockType
        <5> QED
          BY <5>2, <5>3
      <4> QED
        BY <2>1, <3>1, <3>2, <4>2, <4>3 DEF LoadClosed
    <3> QED
      BY <2>3, <3>3, <3>4 DEF ConnectAborts, SigPipe, ReportCrash
  <2>4. CASE Connect \/ Reconnect
    <3> DEFINE v == [Unused EXCEPT !.fd = FreshFd, !.old = TRUE]
    <3> DEFINE u == [Unused EXCEPT !.peer = hostname, !.fd = FreshFd, !.old = TRUE]
    <3>1. /\ u.body = None /\ u.reply = NoReply /\ v.body = None /\ v.reply = NoReply
      BY DEF Unused
    <3>2. socks' = socks \/ socks' = [socks EXCEPT ![NewSock] = u]
                         \/ socks' = [socks EXCEPT ![NewSock] = v]
      BY <2>4 DEF Connect, Reconnect, ConnectOk, ConnectFails
    <3> HIDE DEF u, v
    <3>3. NewSock \in Socks
      BY FreshSockets
    <3>4. \A s \in Socks : \/ socks'[s] = socks[s]
                           \/ socks'[s].body = None /\ socks'[s].reply = NoReply
      BY <2>0, <3>1, <3>2, <3>3
    <3>5. /\ applied' = applied /\ res' = res /\ hostname' = hostname
          /\ pc \in {"connect", "reconnect"}
      BY <2>4 DEF Connect, Reconnect
    <3>6. \A s \in Socks : socks[s].body = Load => socks[s].fd = Closed
      <4>1. CASE pc = "connect"
        BY <1>0, <2>0, <4>1 DEF OnlyLoads, LoadClosed, Early, Stages
      <4>2. CASE pc = "reconnect"
        BY <2>0, <4>2 DEF LoadClosed
      <4> QED
        BY <3>5, <4>1, <4>2
    <3>7. LoadClosed'
      BY <1>0, <3>4, <3>6 DEF LoadClosed
    <3>8. TrueReplies'
      BY <2>0, <3>4, <3>5 DEF TrueReplies, Reqs
    <3>9. Played' /\ LoadRead' = LoadRead
      BY <2>0, <3>5 DEF Played, Reqs, LoadRead
    <3>10. (Early' => Early) /\ (First' => First) /\ Stages'
      BY <1>0, <2>0, <2>4 DEF Connect, Reconnect, Early, First, Stages, Goto
    <3>11. OnlyLoads'
      BY <2>0, <3>4, <3>5, <3>10 DEF OnlyLoads
    <3> QED
      BY <3>7, <3>8, <3>9, <3>10, <3>11 DEF LoadInv
  <2>5. CASE SendHdr
    <3>1. SocksKept /\ \A s \in Socks : socks'[s].fd = socks[s].fd
      BY <2>0, <2>5 DEF SendHdr, Written, NotWritten, Holders, SockType, SocksKept
    <3>2. /\ applied' = applied /\ res' = res /\ hostname' = hostname /\ phase' = phase
          /\ pc' = "sendMsg" /\ pc = "sendHdr" /\ msg' = msg /\ sockfd' = sockfd
      BY <2>5 DEF SendHdr, Goto
    <3>3. ~Early' /\ (First' => First) /\ Stages'
      BY <2>0, <3>2 DEF Early, First, Stages
    <3>4. LoadClosed'
      BY <2>0, <3>1, <3>2 DEF LoadClosed, SocksKept
    <3> QED
      BY <2>1, <3>1, <3>2, <3>3, <3>4
  <2>6. CASE SendMsg
    <3>1. /\ applied' = applied /\ res' = res /\ hostname' = hostname /\ phase' = phase
          /\ pc' = "recv" /\ pc = "sendMsg" /\ msg' = msg /\ sockfd' = sockfd
      BY <2>6 DEF SendMsg, Goto
    <3>2. ~Early' /\ (First' => First) /\ Stages'
      BY <2>0, <3>1 DEF Early, First, Stages
    <3>3. \A s \in Socks :
            /\ socks'[s].peer = socks[s].peer /\ socks'[s].reply = socks[s].reply
            /\ socks'[s].fd = socks[s].fd
            /\ \/ socks'[s].body = socks[s].body
               \/ socks'[s].body = msg /\ msg # None /\ socks[s].fd = sockfd
      BY <2>0, <2>6 DEF SendMsg, Written, NotWritten, Holders, SockType
    <3>4. First => msg \in {None, Load}
      BY <2>0 DEF Stages
    <3>5. ~First => msg = Play
      BY <2>0, <3>1 DEF Stages
    <3>6. First => phase = "load"
      BY <3>1 DEF First, Early
    <3>7. OnlyLoads'
      BY <2>0, <3>1, <3>2, <3>3, <3>4 DEF OnlyLoads
    <3>8. LoadClosed'
      BY <1>0, <2>0, <3>1, <3>3, <3>5, <3>6 DEF LoadClosed
    <3>9. TrueReplies'
      <4> SUFFICES ASSUME NEW s \in Socks, socks[s].reply # NoReply, socks[s].reply.req = Load
                   PROVE  socks'[s].body = Load
        BY <2>0, <3>1, <3>3 DEF TrueReplies, Reqs
      <4>1. socks[s].body = Load
        BY <2>0 DEF TrueReplies
      <4>2. CASE socks'[s].body = socks[s].body
        BY <4>1, <4>2
      <4>3. CASE socks'[s].body = msg /\ msg # None /\ socks[s].fd = sockfd
        <5>1. phase = "load"
          BY <2>0, <4>1, <4>3 DEF LoadClosed
        <5> QED
          BY <3>4, <4>3, <5>1 DEF First
      <4> QED
        BY <3>3, <4>2, <4>3
    <3>10. Played'
      BY <2>0, <3>1 DEF Played, Reqs, LoadRead
    <3> QED
      BY <3>2, <3>7, <3>8, <3>9, <3>10 DEF LoadInv
  <2>7. CASE RecvReply
    <3>1. PICK q \in Holders(sockfd) :
            /\ IF socks[q].reply = NoReply THEN UNCHANGED res
               ELSE res' = Overwrite(Cut(socks[q].reply))
            /\ socks' = [socks EXCEPT ![q].reply = NoReply]
      BY <2>7 DEF RecvReply
    <3>2. /\ applied' = applied /\ hostname' = hostname /\ phase' = phase
          /\ pc = "recv" /\ msg' = msg /\ sockfd' = sockfd
          /\ pc' = IF phase = "load" THEN "close" ELSE IF phase = "pipe" THEN "pipe" ELSE "report"
      BY <2>7 DEF RecvReply, AfterRecv, Goto
    <3>3. ~Early' /\ (First' => First) /\ Stages'
      BY <2>0, <3>2 DEF Early, First, Stages
    <3>4. q \in Socks /\ socks[q].fd = sockfd /\ sockfd # Closed
      BY <2>0 DEF Holders
    <3>5. \A s \in Socks : /\ socks'[s].peer = socks[s].peer /\ socks'[s].body = socks[s].body
                           /\ socks'[s].fd = socks[s].fd
                           /\ socks'[s].reply \in {socks[s].reply, NoReply}
      BY <2>0, <3>1, <3>4 DEF SockType
    <3>6. OnlyLoads' /\ LoadClosed' /\ TrueReplies'
      <4>1. OnlyLoads'
        BY <2>0, <3>2, <3>3, <3>5 DEF OnlyLoads
      <4>2. LoadClosed'
        BY <2>0, <3>2, <3>5 DEF LoadClosed
      <4>3. TrueReplies'
        BY <2>0, <3>2, <3>5 DEF TrueReplies, Reqs
      <4> QED
        BY <4>1, <4>2, <4>3
    <3>7. LoadRead' => \/ LoadRead
                       \/ /\ socks[q].reply # NoReply /\ socks[q].reply.req = Load
                          /\ socks[q].reply.ok
      <4>1. CASE socks[q].reply = NoReply
        BY <3>1, <4>1 DEF LoadRead
      <4>2. CASE socks[q].reply # NoReply
        <5> DEFINE t == socks[q].reply
        <5>1. res' = Overwrite(Cut(t))
          BY <3>1, <4>2
        <5>2. t \in Replies
          BY <2>0, <3>4, <4>2 DEF SockType
        <5> HIDE DEF t
        <5>3. Cut(t).req = t.req /\ (Cut(t).ok => t.ok)
          BY <5>2 DEF Cut, Replies
        <5>4. res'.head = Cut(t) /\ res'.tail \in {res.head, NoReply}
          BY <5>1 DEF Overwrite
        <5>5. LoadRead' => LoadRead \/ (t.req = Load /\ t.ok)
          BY <1>0, <5>3, <5>4 DEF LoadRead
        <5> QED
          BY <4>2, <5>5 DEF t
      <4> QED
        BY <4>1, <4>2
    <3>8. Played'
      <4>1. CASE LoadRead' => LoadRead
        BY <2>0, <3>2, <4>1 DEF Played, Reqs
      <4>2. CASE /\ socks[q].reply # NoReply /\ socks[q].reply.req = Load
                 /\ socks[q].reply.ok
        <5>1. socks[q].peer # None /\ Load \in Reqs(socks[q].peer) /\ phase = "load"
          BY <2>0, <3>4, <4>2 DEF TrueReplies, LoadClosed
        <5>2. socks[q].peer = hostname
          BY <3>4, <5>1 DEF TargetInv, UnambiguousTarget
        <5>3. \A r \in Renderers : \A a \in applied[r] : a.req # Play
          BY <1>0, <2>0, <5>1 DEF OnlyLoads, First
        <5> QED
          BY <3>2, <5>1, <5>2, <5>3 DEF Played, Reqs
      <4> QED
        BY <3>7, <4>1, <4>2
    <3> QED
      BY <3>3, <3>6, <3>8 DEF LoadInv
  <2>8. ASSUME NEW q \in Socks, Handle(q)
        PROVE  LoadInv'
    <3>1. PICK obeys \in BOOLEAN, answer \in Replies \cup {NoReply} :
            /\ answer # NoReply => answer.req = socks[q].body /\ answer.ok = obeys
            /\ socks' = [socks EXCEPT ![q].done = TRUE, ![q].reply = answer]
            /\ applied' = IF obeys
                 THEN [applied EXCEPT ![socks[q].peer] =
                         @ \cup {[req |-> socks[q].body, answered |-> Fits(answer),
                                  after |-> {a.req : a \in @}]}]
                 ELSE applied
      BY <2>8 DEF Handle
    <3>2. /\ UNCHANGED <<pc, opts, hostname, sockfd, msg, phase, res>>
          /\ socks[q].peer # None /\ socks[q].body # None
      BY <2>8 DEF Handle, Complete, client
    <3>3. /\ \A s \in Socks : /\ socks'[s].peer = socks[s].peer
                              /\ socks'[s].body = socks[s].body
                              /\ socks'[s].fd = socks[s].fd
                              /\ s # q => socks'[s].reply = socks[s].reply
          /\ socks'[q].reply = answer
      BY <2>0, <3>1 DEF SockType
    <3>t. /\ socks[q].peer \in Renderers
          /\ applied \in [Renderers -> SUBSET [req : Msgs, answered : BOOLEAN, after : SUBSET Msgs]]
      BY <2>0, <3>2 DEF SockType, TypeOK
    <3>4. PICK p \in Renderers : p = socks[q].peer
      BY <3>t
    <3>5. p = hostname /\ hostname' = p
      BY <3>2, <3>4 DEF TargetInv, UnambiguousTarget
    <3> DEFINE e == [req |-> socks[q].body, answered |-> Fits(answer), after |-> Reqs(p)]
    <3>6. \/ applied' = applied /\ ~obeys
          \/ applied' = [applied EXCEPT ![p] = @ \cup {e}] /\ obeys
      BY <3>1, <3>4, <3>t DEF Reqs
    <3>e. e.req = socks[q].body /\ e.after = Reqs(p)
      OBVIOUS
    <3> HIDE DEF e
    <3>7. \A r \in Renderers : /\ applied[r] \subseteq applied'[r]
                               /\ applied'[r] \subseteq applied[r] \cup {e}
                               /\ r # p => applied'[r] = applied[r]
      BY <3>t, <3>6
    <3>8. obeys => e \in applied'[p]
      BY <3>t, <3>6
    <3>9. OnlyLoads'
      <4>1. Early => socks[q].body = None
        BY <2>0 DEF OnlyLoads
      <4>2. ~Early' /\ First' = First
        BY <3>2, <4>1 DEF Early, First
      <4>3. First => e.req = Load
        BY <2>0, <3>2, <3>e DEF OnlyLoads
      <4>4. First => \A r \in Renderers : \A a \in applied'[r] : a.req = Load
        BY <2>0, <3>7, <4>3 DEF OnlyLoads
      <4> QED
        BY <2>0, <3>3, <4>2, <4>4 DEF OnlyLoads
    <3>10. LoadClosed' /\ Stages'
      BY <2>0, <3>2, <3>3 DEF LoadClosed, Stages, First, Early
    <3>11. \A r \in Renderers : Reqs(r) \subseteq {a.req : a \in applied'[r]}
      BY <3>7 DEF Reqs
    <3>12. TrueReplies'
      <4> SUFFICES ASSUME NEW s \in Socks, socks'[s].reply # NoReply
                   PROVE  /\ socks'[s].reply.req = Load => socks'[s].body = Load
                          /\ socks'[s].reply.ok =>
                               /\ socks[s].peer # None
                               /\ socks'[s].reply.req \in {a.req : a \in applied'[socks[s].peer]}
        BY <3>3 DEF TrueReplies, Reqs
      <4>1. CASE s # q
        <5>1. socks[s].peer # None => socks[s].peer \in Renderers
          BY <2>0 DEF SockType
        <5> QED
          BY <2>0, <3>3, <3>11, <4>1, <5>1 DEF TrueReplies
      <4>2. CASE s = q
        <5>1. socks'[q].reply.req = socks[q].body /\ socks'[q].reply.ok = obeys
          BY <3>1, <3>3, <4>2
        <5>2. obeys => socks[q].body \in {a.req : a \in applied'[p]}
          BY <3>8, <3>e
        <5> QED
          BY <3>2, <3>3, <3>4, <4>2, <5>1, <5>2
      <4> QED
        BY <4>1, <4>2
    <3>13. Played'
      <4>1. LoadRead' = LoadRead
        BY <3>2 DEF LoadRead
      <4>2. LoadRead => Load \in {a.req : a \in applied'[p]}
        BY <2>0, <3>4, <3>5, <3>11 DEF Played
      <4>3. LoadRead => Load \in e.after
        BY <2>0, <3>5, <3>e DEF Played
      <4>4. ASSUME NEW r \in Renderers, NEW a \in applied'[r], a.req = Play, LoadRead
            PROVE  Load \in a.after
        <5>1. CASE a \in applied[r]
          BY <2>0, <4>4, <5>1 DEF Played
        <5>2. CASE a = e
          BY <4>3, <4>4, <5>2
        <5> QED
          BY <3>7, <5>1, <5>2
      <4> QED
        BY <3>5, <4>1, <4>2, <4>4 DEF Played, Reqs
    <3> QED
      BY <3>9, <3>10, <3>12, <3>13 DEF LoadInv
  <2>9. ASSUME NEW q \in Socks, Shut(q)
        PROVE  LoadInv'
    <3>1. SocksKept /\ \A s \in Socks : socks'[s].fd = socks[s].fd
      BY <2>0, <2>9 DEF Shut, SockType, SocksKept
    <3>2. UNCHANGED <<applied, client>>
      BY <2>9 DEF Shut
    <3>3. (Early' = Early) /\ (First' = First) /\ Stages'
      BY <2>0, <3>2 DEF Early, First, Stages, client
    <3>4. LoadClosed'
      BY <2>0, <3>1, <3>2 DEF LoadClosed, SocksKept, client
    <3> QED
      BY <2>1, <3>1, <3>2, <3>3, <3>4 DEF client
  <2>10. CASE UNCHANGED vars
    <3>1. SocksKept /\ UNCHANGED <<socks, applied, client>>
      BY <2>10 DEF vars, SocksKept
    <3>2. (Early' = Early) /\ (First' = First) /\ Stages' /\ LoadClosed'
      BY <2>0, <3>1 DEF Early, First, Stages, LoadClosed, client
    <3> QED
      BY <2>1, <3>1, <3>2 DEF client
  <2> QED
    BY <2>2, <2>3, <2>4, <2>5, <2>6, <2>7, <2>8, <2>9, <2>10 DEF Next, ClientNext, Stopped
<1>3. LoadInv => AnsweredLoadIsPlayed
  BY DEF LoadInv, Played, LoadRead, AnsweredLoadIsPlayed
<1>4. Spec => []TargetInv
  BY TargetAlways
<1> QED
  BY <1>1, <1>2, <1>3, <1>4, TypeCorrect, PTL DEF Spec
=============================================================================
