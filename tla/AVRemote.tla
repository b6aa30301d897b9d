------------------------------ MODULE AVRemote ------------------------------
(***************************************************************************)
(* One run of the avremote program against the renderers of a local        *)
(* network: cmdline() and main() of cmdline.c, the upnp_t operations of    *)
(* avremote.c and the reply parser of parsers.c.  The program is a single  *)
(* thread; what makes it hard is that each renderer works at its own pace. *)
(* Requests travel on TCP connections, replies may come late, in full, cut *)
(* or never, and the peer may close a connection at any time.              *)
(*                                                                         *)
(* A request is named by its AVTransport action, a reply by the request it *)
(* answers, by whether it is a positive answer, whether it is there to its *)
(* end, and its length.  Lengths are counted in units of which             *)
(* MAX_RES_SIZE holds ResSize.                                             *)
(***************************************************************************)
EXTENDS Integers, FiniteSets

CONSTANTS
  Renderers,   \* the devices of the network that answer a discovery
  None,        \* an empty host name, message or reply
  Dry,         \* the host name "dry run" of option -t
  Commands,    \* the command words this instance may be started with
  ResSize,     \* how much of a reply upnp->res holds
  MaxLen,      \* bound: length of the longest reply a renderer sends
  MaxChunks    \* bound: turns of the loop that reads stdin

Load == "SetAVTransportURI"
Play == "Play"
Get  == "GetTransportInfo"
Raw  == "raw"

\* The first letters main() tells apart, by the message it renders for them.
\* "url" is any word the switch does not know.
Simple  == {"Pause", "Stop", "SetPlayMode", "Seek", Load, Play, Get}
Silent  == {"discover", "none"}
AllCommands == Simple \cup Silent \cup {"url", "pipe"}
Msgs    == Simple \cup {Raw}

ASSUME RenderersAssumption ==
  /\ IsFiniteSet(Renderers)
  /\ None \notin Renderers /\ Dry \notin Renderers /\ None # Dry
  /\ None \notin Msgs /\ None # "url"
ASSUME CommandsAssumption == Commands \subseteq AllCommands
ASSUME BoundsAssumption ==
  ResSize \in Nat \ {0} /\ MaxLen \in Nat \ {0} /\ MaxChunks \in Nat \ {0}

VARIABLES
  pc,        \* where main() is
  opts,      \* the parsed command line: command, -s/-p, -t
  found,     \* what upnp_discover() returned
  hostname,  \* upnp->hostname
  sockfd,    \* upnp->sockfd
  msg,       \* upnp->hdr and upnp->msg, rendered together
  phase,     \* which exchange main() is in: "load", "cmd" or "pipe"
  res,       \* upnp->res: the last reply and the tail of an older one
  chunks,    \* turns of the stdin loop left
  socks,     \* the sockets the program has created, open or not
  stray,     \* what was written to a descriptor that is no connection
  printed,   \* messages print_upnp() has shown
  applied,   \* requests the renderers have carried out, with their order
  end        \* how the process ended

client == <<pc, opts, found, hostname, sockfd, msg, phase, res, chunks, stray,
            printed, end>>
vars == <<client, socks, applied>>

-----------------------------------------------------------------------------
Socks == 1 .. 2          \* main() calls connect_upnp() at most twice
Closed == -2             \* as socks[s].fd: not (or no longer) a descriptor
Fds == {3, 4}
Hosts == Renderers \cup {None, Dry}
Replies == [req : Msgs, ok : BOOLEAN, whole : BOOLEAN, len : 1 .. MaxLen]
Held == {t \in Replies : t.len <= ResSize}   \* what upnp->res can hold
NoReply == [req |-> None, ok |-> FALSE, whole |-> FALSE, len |-> 0]
NoRes == [head |-> NoReply, tail |-> NoReply]
Unused == [peer |-> None, fd |-> Closed, hdr |-> None, body |-> None,
           reply |-> NoReply, shut |-> FALSE, done |-> FALSE, old |-> FALSE]

PCs == {"discover", "connect", "command", "pipe", "sendHdr", "sendMsg",
        "recv", "close", "reconnect", "report", "free", "exit"}
Ends == {"running", "notfound", "aborted", "crash", "sigpipe", "success"}

\* The sockets that hold descriptor f; at most one does.
Holders(f) == {s \in Socks : socks[s].fd = f}

\* The number of the descriptor socket() returns: the lowest one free.
FreshFd == IF Holders(3) = {} THEN 3 ELSE 4

\* The next entry of socks to be created.
NewSock == IF socks[1].old THEN 2 ELSE 1

Goto(p) == pc' = p
Exit(how) == pc' = "exit" /\ end' = how

\* exit() closes every descriptor of the process.
CloseAll == socks' = [s \in Socks |-> [socks[s] EXCEPT !.fd = Closed]]

-----------------------------------------------------------------------------
\* The two messages of the default branch, in the order they are sent.
Url_PlayFirst == <<Play, Load>>
Url == <<Load, Play>>

\* upnp->sockfd as create_upnp() leaves it.
CreatedFd_Zero == 0
CreatedFd == -1

\* create_upnp() and cmdline(): the state main() starts working in.  An -s
\* without a -p, or the reverse, is treated like neither.  "pipe" is the
\* command word "-", which only counts as such without -t.
Init ==
  /\ opts \in [cmd : Commands, server : Renderers \cup {None}, dry : BOOLEAN]
  /\ opts.dry => opts.cmd # "pipe"
  /\ pc = "discover" /\ end = "running" /\ phase = "cmd"
  /\ found = 0 /\ hostname = None /\ sockfd = CreatedFd
  /\ msg = None /\ res = NoRes
  /\ chunks \in IF opts.cmd = "pipe" THEN 1 .. MaxChunks ELSE {0}
  /\ socks = [s \in Socks |-> Unused]
  /\ stray = {} /\ printed = {} /\ applied = [r \in Renderers |-> {}]

Discovering == (opts.cmd = "discover" \/ opts.server = None) /\ ~opts.dry

Decided_AnyFound(num) == opts.server # None \/ num > 0

\* Whether main() goes on after a discovery: with -s and -p always, without
\* them only if there is no choice to make.
Decided(num) == opts.server # None \/ num = 1

\* upnp_discover() as main() sees it: the number of devices and the first of
\* them, whose address an explicit one overwrites.  A router that answers as
\* an IGD hides every renderer: num stays 0.
Discover ==
  /\ pc = "discover" /\ Discovering
  /\ \E devs \in SUBSET Renderers :
       /\ found' = Cardinality(devs)
       /\ IF opts.server # None THEN hostname' = opts.server
          ELSE hostname' \in IF devs = {} THEN {None} ELSE devs
       /\ IF Decided(Cardinality(devs)) THEN Goto("connect") /\ UNCHANGED end
          ELSE Exit("notfound")
  /\ UNCHANGED <<opts, sockfd, msg, phase, res, chunks, stray, printed, socks,
                 applied>>

SkipDiscovery ==
  /\ pc = "discover" /\ ~Discovering
  /\ Goto("connect")
  /\ UNCHANGED <<opts, found, hostname, sockfd, msg, phase, res, chunks, stray,
                 printed, end, socks, applied>>

-----------------------------------------------------------------------------
\* connect_upnp() succeeds: a descriptor, a resolvable name, a listening peer.
ConnectOk ==
  /\ sockfd <= 0 /\ hostname \in Renderers
  /\ sockfd' = FreshFd
  /\ socks' = [socks EXCEPT ![NewSock] =
       [Unused EXCEPT !.peer = hostname, !.fd = FreshFd, !.old = TRUE]]

\* It fails: already open or no socket; or a socket is created, its peer is
\* not found or refuses, and the descriptor is left behind.
ConnectFails ==
  /\ UNCHANGED sockfd
  /\ \/ UNCHANGED socks
     \/ /\ sockfd <= 0
        /\ socks' = [socks EXCEPT ![NewSock] =
             [Unused EXCEPT !.fd = FreshFd, !.old = TRUE]]

Connect ==
  /\ pc = "connect" /\ ~opts.dry /\ ConnectOk
  /\ Goto(IF opts.cmd = "pipe" THEN "pipe" ELSE "command")
  /\ UNCHANGED <<opts, found, hostname, msg, phase, res, chunks, stray, printed, end,
                 applied>>

\* "operation aborted": exit(ERR), which also closes the leaked descriptor.
ConnectAborts ==
  /\ pc = "connect" /\ ~opts.dry
  /\ CloseAll
  /\ Exit("aborted")
  /\ UNCHANGED <<opts, found, hostname, sockfd, msg, phase, res, chunks, stray,
                 printed, applied>>

DryRun ==
  /\ pc = "connect" /\ opts.dry
  /\ hostname' = Dry
  /\ Goto("command")
  /\ UNCHANGED <<opts, found, sockfd, msg, phase, res, chunks, stray, printed, end,
                 socks, applied>>

-----------------------------------------------------------------------------
\* The switch on the command letter, for every command that renders at most
\* one message.  With -t the message is printed instead of sent.
Command ==
  /\ pc = "command" /\ opts.cmd # "url"
  /\ msg' = IF opts.cmd \in Simple THEN opts.cmd ELSE msg
  /\ IF opts.dry THEN Goto("report") ELSE Goto("sendHdr")
  /\ UNCHANGED <<opts, found, hostname, sockfd, phase, res, chunks, stray, printed,
                 end, socks, applied>>

\* The default branch, "loading and playing as url", first half.
CommandUrl ==
  /\ pc = "command" /\ opts.cmd = "url"
  /\ msg' = Url[1] /\ phase' = "load"
  /\ Goto("sendHdr")
  /\ UNCHANGED <<opts, found, hostname, sockfd, res, chunks, stray, printed, end,
                 socks, applied>>

\* One turn of the stdin loop: fread().  The last turn, which meets the end of
\* the file, may read nothing; it sends that and waits for an answer as well.
PipeRead ==
  /\ pc = "pipe" /\ chunks > 0
  /\ chunks' = chunks - 1
  /\ msg' \in IF chunks = 1 THEN {Raw, None} ELSE {Raw}
  /\ phase' = "pipe"
  /\ Goto("sendMsg")
  /\ UNCHANGED <<opts, found, hostname, sockfd, res, stray, printed, end, socks,
                 applied>>

PipeEof ==
  /\ pc = "pipe" /\ chunks = 0
  /\ Goto("free")
  /\ UNCHANGED <<opts, found, hostname, sockfd, msg, phase, res, chunks, stray,
                 printed, end, socks, applied>>

-----------------------------------------------------------------------------
\* What write(sockfd, part) reaches.  Nothing was rendered: nothing is
\* written.  A negative descriptor is refused; descriptor 0 is stdin.
Written(field, part) ==
  /\ part # None
  /\ \E s \in Holders(sockfd) :
       /\ ~socks[s].shut
       /\ socks' = [socks EXCEPT ![s][field] = part]
  /\ UNCHANGED stray

NotWritten(part) ==
  /\ UNCHANGED socks
  /\ IF sockfd = 0 /\ part # None THEN stray' = stray \cup {part}
     ELSE /\ UNCHANGED stray
          /\ \/ part = None
             \/ sockfd < 0
             \/ \E s \in Holders(sockfd) : socks[s].shut

\* The two writes of send_upnp(), whose results are only reported.
SendHdr ==
  /\ pc = "sendHdr"
  /\ Written("hdr", msg) \/ NotWritten(msg)
  /\ Goto("sendMsg")
  /\ UNCHANGED <<opts, found, hostname, sockfd, msg, phase, res, chunks, printed, end,
                 applied>>

SendMsg ==
  /\ pc = "sendMsg"
  /\ Written("body", msg) \/ NotWritten(msg)
  /\ Goto("recv")
  /\ UNCHANGED <<opts, found, hostname, sockfd, msg, phase, res, chunks, printed, end,
                 applied>>

\* A write to a connection the peer has reset raises SIGPIPE, not handled.
SigPipe ==
  /\ pc \in {"sendHdr", "sendMsg"} /\ msg # None
  /\ \E s \in Holders(sockfd) : socks[s].shut
  /\ CloseAll
  /\ Exit("sigpipe")
  /\ UNCHANGED <<opts, found, hostname, sockfd, msg, phase, res, chunks, stray,
                 printed, applied>>

-----------------------------------------------------------------------------
AfterRecv == CASE phase = "load" -> Goto("close")
               [] phase = "pipe" -> Goto("pipe")
               [] OTHER -> Goto("report")

\* What recv() leaves in upnp->res: the first ResSize units of the reply,
\* over the beginning of what was there and with the rest of it behind.
Overwrite(reply) ==
  [head |-> reply,
   tail |-> IF reply.len < res.head.len THEN res.head ELSE NoReply]

Cut_OffByOne(reply) == IF reply.len < ResSize THEN reply
                       ELSE [reply EXCEPT !.len = ResSize - 1, !.whole = FALSE]

Cut_Whole(reply) == reply

Cut(reply) == IF reply.len <= ResSize THEN reply
              ELSE [reply EXCEPT !.len = ResSize, !.whole = FALSE]

\* poll() for POLLRDHUP reports that the peer has closed; what it sent
\* before that is read with one recv().
RecvReply ==
  /\ pc = "recv"
  /\ \E s \in Holders(sockfd) :
       /\ socks[s].shut
       /\ IF socks[s].reply = NoReply THEN UNCHANGED res
          ELSE res' = Overwrite(Cut(socks[s].reply))
       /\ socks' = [socks EXCEPT ![s].reply = NoReply]
  /\ AfterRecv
  /\ UNCHANGED <<opts, found, hostname, sockfd, msg, phase, chunks, stray, printed,
                 end, applied>>

RecvTimeout_Never == FALSE /\ UNCHANGED vars

\* poll() times out: upnp->res keeps what it held.
RecvTimeout ==
  /\ pc = "recv"
  /\ \A s \in Holders(sockfd) : ~socks[s].shut
  /\ AfterRecv
  /\ UNCHANGED <<opts, found, hostname, sockfd, msg, phase, res, chunks, stray,
                 printed, end, socks, applied>>

-----------------------------------------------------------------------------
\* close(upnp->sockfd): what it makes of the sockets.
CloseFd_Kept == socks
CloseFd == [s \in Socks |-> IF s \in Holders(sockfd) /\ sockfd >= 0
                            THEN [socks[s] EXCEPT !.fd = Closed] ELSE socks[s]]

CloseLoad_Forgotten ==
  pc = "close" /\ Goto("reconnect")
  /\ UNCHANGED <<opts, found, hostname, sockfd, msg, phase, res, chunks, stray,
                 printed, end, socks, applied>>

\* close(upnp->sockfd); upnp->sockfd = 0.
CloseLoad ==
  /\ pc = "close"
  /\ socks' = CloseFd
  /\ sockfd' = 0
  /\ Goto("reconnect")
  /\ UNCHANGED <<opts, found, hostname, msg, phase, res, chunks, stray, printed, end,
                 applied>>

\* connect_upnp(), whose result is ignored, and the rendering of Play.
Reconnect ==
  /\ pc = "reconnect"
  /\ ConnectOk \/ ConnectFails
  /\ msg' = Url[2] /\ phase' = "cmd"
  /\ IF opts.dry THEN Goto("report") ELSE Goto("sendHdr")
  /\ UNCHANGED <<opts, found, hostname, res, chunks, stray, printed, end, applied>>

\* GetTransportInfo() looks for three fields in turn, each from where the one
\* before it ended.  A first or a second field that is missing ends the process;
\* of the third what is shown then is whatever memory held, and the end of a
\* field that has begun is looked for beyond the reply.  A positive answer that
\* is cut short may thus do or not.
Parsed == opts.cmd = Get /\ ~opts.dry
ParserWorks == ~Parsed \/ res.head.ok
ParserCrashes == Parsed /\ ~(res.head.ok /\ res.head.whole)

\* print_upnp() of a dry run, or the parser or fprintf() on upnp->res.
Report ==
  /\ pc = "report" /\ ParserWorks
  /\ printed' = IF opts.dry THEN printed \cup {msg} ELSE printed
  /\ Goto("free")
  /\ UNCHANGED <<opts, found, hostname, sockfd, msg, phase, res, chunks, stray, end,
                 socks, applied>>

ReportCrash ==
  /\ pc = "report" /\ ParserCrashes
  /\ CloseAll
  /\ Exit("crash")
  /\ UNCHANGED <<opts, found, hostname, sockfd, msg, phase, res, chunks, stray,
                 printed, applied>>

\* free_upnp() closes the connection; exit(0) would close what it left.
FreeUpnp ==
  /\ pc = "free"
  /\ socks' = IF sockfd > 0 THEN CloseFd ELSE socks
  /\ Exit("success")
  /\ UNCHANGED <<opts, found, hostname, sockfd, msg, phase, res, chunks, stray,
                 printed, applied>>

-----------------------------------------------------------------------------
\* The renderers (external).  A request is complete when header and body are
\* there; stdin is sent as it comes.  A renderer obeys or refuses, answers so at
\* most once per connection (the header asks for "Connection: close"), to the
\* end or in part or not at all, and works on what it has received even when
\* the client is gone.
Complete(s) == socks[s].body # None /\ socks[s].hdr \in {socks[s].body, None}

\* An answer that is sent to its end and is no longer than upnp->res.
Fits(answer) == answer.whole /\ answer.len <= ResSize

Handle(s) ==
  /\ socks[s].peer # None /\ ~socks[s].done /\ ~socks[s].shut /\ Complete(s)
  /\ \E obeys \in BOOLEAN, answer \in Replies \cup {NoReply} :
       /\ answer # NoReply => answer.req = socks[s].body /\ answer.ok = obeys
       /\ socks' = [socks EXCEPT ![s].done = TRUE, ![s].reply = answer]
       /\ applied' = IF obeys
            THEN [applied EXCEPT ![socks[s].peer] =
                    @ \cup {[req |-> socks[s].body, answered |-> Fits(answer),
                             after |-> {a.req : a \in @}]}]
            ELSE applied
  /\ UNCHANGED client

\* The renderer closes its end, after an answer or without one.
Shut(s) ==
  /\ socks[s].peer # None /\ ~socks[s].shut
  /\ socks' = [socks EXCEPT ![s].shut = TRUE]
  /\ UNCHANGED <<client, applied>>

Stopped == pc = "exit" /\ UNCHANGED vars

-----------------------------------------------------------------------------
ClientNext ==
  \/ Discover \/ SkipDiscovery \/ Connect \/ ConnectAborts \/ DryRun
  \/ Command \/ CommandUrl \/ PipeRead \/ PipeEof
  \/ SendHdr \/ SendMsg \/ SigPipe \/ RecvReply \/ RecvTimeout
  \/ CloseLoad \/ Reconnect \/ Report \/ ReportCrash \/ FreeUpnp

Next == ClientNext \/ (\E s \in Socks : Handle(s) \/ Shut(s)) \/ Stopped

\* The program is one thread that the operating system keeps running; the
\* renderers owe nothing.
Spec == Init /\ [][Next]_vars /\ WF_vars(ClientNext)
-----------------------------------------------------------------------------
\* The types, and that a reply never overruns upnp->res (avremote.c:212).
TypeOK ==
  /\ pc \in PCs /\ end \in Ends /\ phase \in {"load", "cmd", "pipe"}
  /\ opts \in [cmd : AllCommands, server : Renderers \cup {None}, dry : BOOLEAN]
  /\ found \in Nat /\ hostname \in Hosts /\ sockfd \in {-1, 0} \cup Fds
  /\ msg \in Msgs \cup {None} /\ chunks \in 0 .. MaxChunks
  /\ res \in [head : Held \cup {NoReply}, tail : Held \cup {NoReply}]
  /\ socks \in [Socks -> [peer : Renderers \cup {None}, fd : {Closed} \cup Fds,
                         hdr : Msgs \cup {None}, body : Msgs \cup {None},
                         reply : Replies \cup {NoReply}, shut : BOOLEAN,
                         done : BOOLEAN, old : BOOLEAN]]
  /\ stray \subseteq Msgs /\ printed \subseteq Msgs \cup {None}
  /\ applied \in [Renderers -> SUBSET [req : Msgs, answered : BOOLEAN, after : SUBSET Msgs]]

InFlight(m) == \E s \in Socks : m \in {socks[s].hdr, socks[s].body}

\* A request is written to a descriptor that is no connection of the program
\* in one case only: Play, after the reconnection that main() does not check
\* (cmdline.c:299-306).  It then goes to descriptor 0, the terminal.
StrayOnlyAfterFailedReconnect ==
  stray # {} => /\ opts.cmd = "url" /\ ~opts.dry /\ stray = {Url[2]}
                /\ sockfd = 0 /\ socks[2].peer = None

\* A request reaches a renderer only if the user named it or the discovery
\* left no choice (cmdline.c:167-173), and every request of a run goes to the
\* same renderer, also after the reconnection.
UnambiguousTarget ==
  \A s \in Socks : socks[s].peer # None =>
    /\ opts.server # None \/ found = 1
    /\ socks[s].peer = hostname

\* If the program has read a positive answer to SetAVTransportURI, the Play
\* that follows plays the new address: waiting for the answer (cmdline.c:296)
\* orders the two requests, which travel on separate connections.
AnsweredLoadIsPlayed ==
  \A r \in Renderers : \A a \in applied[r] :
    /\ opts.cmd = "url" /\ a.req = Play
    /\ \E t \in {res.head, res.tail} : t.req = Load /\ t.ok
    => Load \in a.after

\* A renderer that obeys "get" and answers to the end, no longer than upnp->res
\* holds, sees it break down (parsers.c:29-83) only if its answer came too late
\* to be read.
CrashMeansNoAnswer ==
  end = "crash" /\ (\E a \in applied[hostname] : a.req = Get /\ a.answered) =>
    \E s \in Socks : socks[s].reply # NoReply

\* Every connection is closed by the code itself on the ordinary way out,
\* also the first one of "load and play" (cmdline.c:299, avremote.c:76).
ConnectionsClosed ==
  end = "success" =>
    \A s \in Socks : socks[s].peer # None => socks[s].fd = Closed

\* A descriptor number is used again after close(): nothing is ever added to
\* a connection the program has closed, or has used for another message.
NoWriteAfterClose ==
  [][\A s \in Socks : socks[s].old =>
       /\ socks[s].fd = Closed =>
            socks'[s].hdr = socks[s].hdr /\ socks'[s].body = socks[s].body
       /\ opts.cmd # "pipe" /\ socks[s].hdr # None => socks'[s].hdr = socks[s].hdr
    ]_vars

\* Whatever the renderers do, the program ends: every wait for them has a
\* limit (avremote.c:195).
Termination == <>(pc = "exit")

-----------------------------------------------------------------------------
\* "-s network address or hostname of the media server" (cmdline.c:90).
ExplicitAddressUsed ==
  pc = "connect" /\ ~opts.dry /\ opts.server # None => hostname = opts.server
=============================================================================
