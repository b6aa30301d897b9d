# AVRemote in TLA+

AVRemote controls UPnP media renderers from the command line.  It is a short
program that talks to devices it does not control, over a network that loses,
repeats and cuts what it carries; most of what can go wrong in it is a matter of
who answers when.  This directory models that behaviour in TLA+, model-checks it
with TLC on small instances and proves the main results for all instances with
TLAPS.

    tlc -workers 2 -config MCAVRemote.cfg MCAVRemote      # any of the runs below
    tlapm AVRemoteProofs.tla                              # and the other *Proofs modules

All line numbers are those of the files under `src/`.

## 1. The system

    medianav.sh --+                                        +-- upnp.sh, upnp-cmd.php
                  | SOAP by wget                    SOAP   |   (stateless)
                  v                                        v
               [ renderer ] <---- SOAP over TCP ---- cmdline.c: main()
                    ^                                  |           |
                    |                      upnp_t: avremote.c   discover.c
                    |                      parsers.c               |
                    +---- SSDP, HTTP ------------------ upnp/: miniupnpc.c, minissdpc.c
                                                        miniwget.c, minisoap.c,
                                                        upnpcommands.c, minixml.c, ...

| Component | State it keeps | Operations | What is hard |
|---|---|---|---|
| `cmdline.c` main program | options, the command letter, exit status | discover, dry run, stdin pipe, one command, load and play | two requests on two connections; results of calls that are not looked at |
| `avremote.c` `upnp_t` | `hostname`, `sockfd`, `hdr`/`msg`, `res` | create, connect, render, send, recv, free | a reply that is late, cut or missing; `res` is never cleared; descriptor numbers are used again |
| `parsers.c` | none (moves through `res`) | GetTransportInfo, extract_xml | a field that is not there ends the process |
| `discover.c` | the target it fills in | upnp_discover | takes the head of a list the library has judged by another entry |
| `miniupnpc.c`, `minissdpc.c` | device list, socket, loop indices, URLs | upnpDiscover, UPNP_GetValidIGD, question to minissdpd | lost and repeated datagrams, three passes of fetches that may fail, manual release |
| `miniwget.c`, `receivedata.c` | header/content buffers, chunk size, unfinished digits | getHTTPResponse, miniwget, parseURL | segments end anywhere, a body may stop anywhere |
| `connecthostport.c`, `minisoap.c`, `upnpcommands.c` | socket, argument array, buffer, name/value list | one function per gateway action | a number is all the caller learns; every path frees by hand |
| `minixml.c` and `igd_desc_parse.c`, `upnpreplyparse.c`, `portlistingparse.c` | read position, current element, what was collected | parsexml with call-backs | cut documents, elements without content, prefixes, fields left over from another service |
| URLs: `parseURL()`, `parseMSEARCHReply()`, `GetUPNPUrls()`, the walk of `discover.c` | none | take apart, put together | two ways to read one URL, ports of 16 bits, bases without a slash |
| `minissdpc.c`, `codelength.h` | buffer on the stack, read position | getDevicesFromMiniSSDPD, CODELENGTH, DECODELENGTH | borders at powers of 128, lengths read from bytes that never arrived |
| `contrib/medianav.sh` | lock file, key sequence file, chapter file | one process per key press | processes that kill one another between any two steps |
| `contrib/upnp.sh`, `upnp-cmd.php` | none | send one request | none |

Interactions: main() calls the connection object and `upnp_discover()` in
sequence, in one thread; the library is called by `upnp_discover()` and returns
through lists, buffers and small numbers; the XML parser calls its consumers
back; the renderers, the gateway, minissdpd and the player are separate
processes reached by messages; the `medianav.sh` processes share two files and
the player.

What correctness means for each part:

* main program and connection: a request reaches the renderer the user means or
  none, Play never overtakes a Load whose answer was read, nothing is written to a
  connection that was closed, every connection is closed, the program ends;
* discovery: no device is counted twice, the target is a device that was looked
  at, a gateway is told from other devices as far as its description comes, URLs are
  released, the search ends;
* HTTP: what is returned is the body or a first part of it, however it was cut
  into segments, and a complete body is recognised without waiting;
* gateway commands: success means done, a refusal is reported, sockets and memory
  are released on every path;
* documents and URLs: what is collected is a first part of what the document says,
  each field with the service or the mapping it belongs to, and a command goes to
  the address the description names;
* minissdpd: the list is what the daemon has sent, and nothing outside the buffer is
  copied;
* key handler: of overlapping presses the last one acts, skips land inside the
  media, no press is lost or counted twice without a reason, all processes end.

## 2. The modules

| Module | Models | Source |
|---|---|---|
| `AVRemote` | one run of the program and the renderers | `cmdline.c`, `avremote.c`, `parsers.c` |
| `Discovery` | the search and the choice of a target | `discover.c`, `upnp/miniupnpc.c`, `upnp/minissdpc.c` |
| `MiniSsdpd` | the answer of minissdpd, byte by byte | `upnp/minissdpc.c`, `upnp/codelength.h` |
| `Transfer` | abstract: what a reader of HTTP is promised | |
| `HttpResponse` | `getHTTPResponse()`, shown to implement `Transfer` | `upnp/miniwget.c`, `upnp/receivedata.c` |
| `SoapCommand` | one library call: connect, send, receive, read | `upnp/connecthostport.c`, `upnp/minisoap.c`, `upnp/upnpcommands.c`, parts of `miniupnpc.c`, `miniwget.c`, `upnpreplyparse.c` |
| `MiniXml` | the parser, step by step | `upnp/minixml.c` |
| `Urls` | finding, taking apart and making URLs | `upnp/miniwget.c`, `upnp/miniupnpc.c`, `discover.c` |
| `Documents` | composes `MiniXml`, `Urls` and the parser's three consumers: from an answer to a search to the address of a command, and from a reply to the list of mappings | `upnp/igd_desc_parse.c`, `upnp/upnpreplyparse.c`, `upnp/portlistingparse.c`, `upnp/miniupnpc.c`, `upnp/upnpcommands.c`, `discover.c` |
| `MediaNav` | the key handler's processes and the player | `contrib/medianav.sh` |
| `AVRemoteProofs`, `DiscoveryProofs`, `HttpResponseProofs`, `MiniSsdpdProofs`, `SoapCommandProofs`, `DocumentsProofs`, `MediaNavProofs` | theorems about the module each is named after | |
| `Induction` | lemmas the proofs about recursive functions share | |
| `MC*` | small constants for TLC | |

Which build is modelled: POSIX, `getaddrinfo()` in `connecthostport()`, socket
time-outs set, no `DEBUG`; a `connect()` that a signal interrupts is waited for
(`connecthostport.c:193-215`), a `recv()` that one interrupts is no more than a wait.

### AVRemote

`pc` follows main(); `opts`, `found`, `hostname`, `sockfd`, `msg`, `res` are the
variables of the same names (`opts` stands for the parsed command line, `found`
for what `upnp_discover()` returned, `msg` for `hdr` and `msg`, which are rendered
together).  `socks` are the sockets the program has created, with the renderer at
the other end and the descriptor number (3 or 4, the lowest one free, as `socket()`
assigns it), so that a `close()` that is missed or a number that is used again
shows up as a request on the wrong connection.  `res` is a pair, the reply in
front and the rest of an older, longer one behind it, because the buffer is never
cleared.  `stray` collects what is written to something that is no connection.

Each call of main() that the peer can observe is an action: `Discover`,
`Connect`/`ConnectAborts`, `Command`, `CommandUrl`, `PipeRead`, `SendHdr` and
`SendMsg` (the two writes of `send_upnp()`), `RecvReply`/`RecvTimeout`,
`CloseLoad`, `Reconnect` (with its unchecked result), `Report`/`ReportCrash`,
`FreeUpnp`, and `SigPipe` for a write to a connection the peer has reset.  A
renderer may handle a complete request, obeying or refusing, at any time
(`Handle`), also when the client is gone; it answers in full, in part or not at all,
whatever it has done, and may close at any time (`Shut`).  `GetTransportInfo()` goes
by what has arrived: without a positive answer it breaks down (`ParserWorks`), with one
that is cut short it may break down or print garbage, which depends on the field that is
missing (`ParserCrashes`: a third field that is not there only prints an uninitialised
value, `parsers.c:80`).

Left out: the text and the arguments of requests, and the options `-h` and `-v`,
which print and exit.  A descriptor 0 that is closed when the program starts is not
modelled.

### Discovery

`AskDaemon` .. `WaitFails` are `upnpDiscover()`, `GetValidNothing` .. `Swap` are
`UPNP_GetValidIGD()`, `Pick` is `upnp_discover()`.  `devlist` is the linked list,
head first, `sudp` says whether the socket is open, `state` and `at` are the two
loops, `urls` says for which device the URLs are allocated.  A device stands for
its description URL.  Devices answer searches they were sent, several times if
they like; answers are lost or late.  Every fetch may fail, which `missed` records for
each pass and device.  What a description
says and how a URL is taken apart is in `Documents`, how the list of the daemon is
read in `MiniSsdpd`.

### MiniSsdpd

`getDevicesFromMiniSSDPD()` from the answer on.  The daemon's answer is made with
`Code`, that is `CODELENGTH`; `Read` is the one `read()`, which gets any first part of
it; `Decode` is one turn of `DECODELENGTH`, and `HaveUrl`, `HaveSt`, `HaveUsn` and
`TooLong` are the tests and steps over the three strings.  A byte that is read
behind what has arrived is any of `Leftover`, for the buffer is on the stack and held
the request before.  `Word` is the number of values of an `unsigned int`.  `devlist`
holds places in the buffer, not texts.  `WellFormed` is what the protocol says of an
answer; the answers of the run fulfil it (`AnswersAssumption`).

### Transfer and HttpResponse

`HttpResponse` reads character by character; `sent` is what the segments have brought,
`read` what the reader has gone through, `phase` is the place in the loop body.  The
code keeps only the chunk size, its unfinished digits and the content from one segment
to the next; `StartOf` is how it finds its place again, which is where the difficulty
lies.  A message says which of its characters are header, size lines and data (`head`,
`chunks`), and `WellFormed` is what an answer has to fulfil for this to be so; the
reader sees the characters only.  `Transfer` is the promise to the caller: the body
grows piece by piece, unchanged and in order, and there is an end. `Promise` is the
refinement, with `got <- content` and `over <- state = "done"`. `SoapCommand` uses the
promise: what it receives is any first part of the answer.

### SoapCommand

One call of one function of `upnpcommands.c`, or of `miniwget()`.  `addrs`, `s` and
`socks` are the loop of `connecthostport()`; `request` says how much of the request
was sent (one `send()` that may send a part); `gateway` and `reply` are the other
side; `buffer` is what arrived, element by element with a torn one at the cut.
`Interrupt` is a signal in `connect()`; then `WaitConnects`, `WaitFails` and
`WaitAbandons` are the ways the loop of `connecthostport.c:193-215` ends, the last one
with addresses left that are not tried;
`held` are the allocations; `ret` is all the caller is told.  The functions fall
into kinds (`Orders`, `Entries`, `Totals`, `Infos`, `Pinholes`) by the elements
they want and by what they free; `Wanted`, `Content` and `Verdict` say how the
result is made.  Values that are copied out, and the text of requests, are left
out.

### MiniXml, Urls and Documents

`MiniXml` is `parsexml()` as one walk: `phase` is the loop of `parseelt()` or
`parseatt()` the parser is in, `at` is `p->xml`, `end` is where the buffer ends, and
each action is one turn of a loop, with the test for the end that this loop makes
(`MoveTo`, `MoveBefore`, `MoveWithin`), or with none (`MoveOn`).
`calls` records the call-backs.  The text is a sequence of symbols: a delimiter is a
symbol, a run of other characters is one.  What is behind the end is arbitrary, and
the parser does look there: after the three moves that have no test, behind a colon
(line 130), an equal sign (60) and the beginning of a CDATA section (154), it reads on in
the next loop (119, 65, 157) until that one's test ends it (`PastEnd`); and the
comparisons of lines 151, 157 and 180 read beyond the present character (`Followed`,
which may be true or false there).

`Urls` has the functions on URLs, which are sequences of symbols too, with each digit
a symbol of its own, because a port is read digit by digit modulo 2^16.

`Documents` puts them together along two ways the program goes.  `Hear` is an answer
to a search, cut anywhere; `Fetch` and `ReadDescription` read a description, cut
anywhere, into `igd`; `TakeDevice`, `TakeSecond` (after the swap of the two connection
services) and `PassOver` are what `UPNP_GetValidIGD()` makes of it, with `urls` the
addresses of commands and `target` what `upnp_discover()` finds in the URL by itself.
A location that is given and empty (`Given`) is listed, one that is missing (`NotGiven`)
is not.  A name that is too long for `cureltname` is written over `urlbase`, which lies
behind it (`Spilled`, `igd_desc_parse.c:18`).
`Call`, `ReadReply`, `Replied` and `ReadListing` are
`UPNP_GetListOfPortMappings()`: the reply is parsed, one of its values is a document
again and is parsed by another consumer.  `reply` and `listing` are lists with the
head first, as the code builds them.

### MediaNav

One process per key press, each with its `pc` and shell variables; `lock` and `presses`
are the two files.  A kill ends the process found in the lock wherever it is; a Seek
request it had sent is still on its way (`seeks`).  `Throw` is the loop over the skip
table as it runs, `RunsOff` says when it runs behind the end of the table, where
`SKIPTIME` is empty and the arithmetic of line 270 ends the script; `ChapterTarget` is
the choice of a chapter with its laxity.  `LeftPresses` are presses an earlier process
has left in the key sequence file.  A status answer that is lost counts as that of a
player that does not play (`Status`, `BackStatus`).  Times are counted so that the
shortest skip is 1; the conversion of times to text and back is left out.

## 3. What TLC checks

| Run | Question | States | Result |
|---|---|---|---|
| `avremote` | who gets which request in which order, and does the program end | 17 456 | holds |
| `avremote_address` | is the address of `-s`/`-p` used | | violated |
| `medianav` | where do skips and chapter keys lead, does every press end | 888 112 | holds |
| `medianav_keys` | overlapping skip presses: lock, kills, key sequence | 2 054 962 (with symmetry) | holds |
| `http` | is every answer decoded exactly under every segmentation | 1 147 | holds |
| `http_extension` | the same with a chunk extension that looks like digits | | violated |
| `discovery` | what the search finds, chooses and releases | 1 022 979 | holds |
| `soap` | sockets, memory and result of a library call | 1 835 | holds |
| `soap_success` | does success of an order mean it was done | | violated |
| `documents` | what is learnt from documents that are cut anywhere, and where commands go | 122 558 | holds |
| `documents_prefix` | are the services of a description with prefixes kept | | violated |
| `minissdpd` | what is made of the daemon's answer, whole or cut | 198 288 | holds |

### The properties

`AVRemote`.  `StrayOnlyAfterFailedReconnect`: the only request that misses every
connection is Play after the reconnection main() does not check.
`UnambiguousTarget`: every connection goes to the renderer the user named or the
discovery left.  `AnsweredLoadIsPlayed`: the order of the two requests at the
renderer, once the answer to the first was read (it is not guaranteed without that
answer, the two travel on different connections).  `CrashMeansNoAnswer`: if a renderer
has obeyed `get` and has sent an answer to its end that fits `res`, the parser breaks down
only if that answer came too late.  `ConnectionsClosed`, `NoWriteAfterClose`:
descriptors are not lost and not used after they were closed.  `Termination`.

`MediaNav`.  `PredecessorEnded`, `LeftPressesExplained`, `SomeoneSurvives`: the
lock protocol.  `LargestThrow`: a skip is the largest throw asked for that stays within
the media, and the script breaks off without a seek exactly if more presses are counted
than the table has entries and all its throws stay within the media.
`ChapterProgress`: where a chapter key leads.  `AllEnd`.

`HttpResponse`.  `CompleteIsExact`, `NoIdleWait`, and `Promise`, the refinement of
`Transfer` with its liveness.

`Discovery`.  `ListedOnce`, `TargetWasFetched`; `Verdict`: what the result of
`UPNP_GetValidIGD()` has to do with the fetches that failed, over all three passes (what
counts as a gateway is one, a gateway is left to be played to only if the second pass got
no description of any, nothing is found only if the last pass got none at all);
`UrlsFreedBeforeReuse`, `Terminates`.

`SoapCommand`.  `OnlyConnectedUsed`, `SocketsClosed`, `MemoryFreed`; `ResultIsTrue`: a
query succeeds only if the whole request was obeyed, and an error code that has
arrived is reported; `Ends`.

`Documents`.  `CallsInOrder`: the parser's call-backs are those of a first part of the
document, each with a whole name or text, but for one blank text at a cut.
`ServicesExact`: what is kept are the services of a first part of the description, no
field from another service, the first connection service in the first place.
`CommandReaches`: a command goes to the host, port and path the description names,
also after the swap.  `LocationReached`: a location is taken whole or not at all, and
the two ways to read it agree where the port is written.  `ReplyExact`: the values of
a reply are a first part of those it has, the last one first, but for a blank one at
the cut.  `ListingWhole`: a list of mappings is never returned in part.

`MiniSsdpd`.  `ListIsAnswer`: all devices that have arrived are listed, with their
own strings and in their order; behind a cut there may be one made of old bytes.

Each module has one type invariant, `TypeOK`.  That of `AVRemote` contains that no
reply overruns `upnp->res`; that of `Documents` that the parser is inside the
document in every loop, and at most two symbols behind it after one of the three moves
that have no test; that of `MiniSsdpd` that every string that is copied lies
inside the buffer.

### Bounds and why they are enough

* `AVRemote`: two renderers make a choice ambiguous; one command of each kind that
  main() treats alike; two sockets are all the code ever creates; replies of
  length up to 3 in a buffer of 2 are shorter than, equal to and longer than
  `MAX_RES_SIZE`, and a shorter one may follow a longer one; each may be whole or
  cut short by the renderer, and an obeyed request may get none; two turns of the
  stdin loop are a full and a last one.
* `Discovery`: a gateway with two connection services and two renderers, three
  datagrams: each type answers, one answer is repeated, and the list reaches two
  and three entries; a daemon may know any of the devices in any order.
* `HttpResponse`: bodies of up to three characters with both kinds of header end,
  one and two chunks, sizes with a leading zero, data that look like size lines,
  extensions, and segments of every size from one character to the whole answer.
* `SoapCommand`: one function of each kind, two addresses (a first that fails and
  a last), every cut of every answer.
* `Documents`: three descriptions (a gateway with two connection services over a base
  without a slash and behind a name that is too long for its place; one with an
  overwritten second service, an absolute and an overlong URL; a renderer), four replies
  (two mappings, none, a refusal, repeated and overlong values) and five locations (with
  a port, without, in brackets, without a path behind an empty type, with `https`), each
  cut at every symbol.  `MINIUPNPC_URL_MAXSIZE` is 7 symbols and the longest value of a
  reply 3, so that a field is shorter than, as long as and longer than its place.
* `MiniSsdpd`: eight answers with lengths at 127, 128 and beyond, in a buffer of 300
  bytes that some fill to the last byte that counts and some overrun, read up to any
  byte.  At most two bytes behind the cut ask for one more byte of a length
  (`MaxRun`); a word has 2^24 values, because TLC's own integers have 32 bits.  The
  proof has neither bound.
* `MediaNav`: two presses of any keys in every order with all the arithmetic, and three
  skip presses without it, since a third process is what a kill can leave waiting; two
  presses may have been left by an earlier process, so that up to four are counted over
  a table of two entries; skips of 1 and 3 in a film of 4 land before, at and beyond
  both ends; chapter marks at 1 and 3 with a laxity of 1 give each case of
  `ChapterTarget`.

### Fairness

* `AVRemote`: `WF_vars(ClientNext)`.  One thread, and every wait for a renderer has
  a limit (`poll()`, `avremote.c:195`).  Nothing is assumed of the renderers.
* `Discovery`: `WF_vars(Program)`.  Waits are limited (`receivedata.c`), a fetch
  ends.  Nothing is assumed of devices and network.  That answers cannot keep the
  loop going for ever rests on `MaxAnswers`: a device that repeats its answer
  without end is outside the model.
* `HttpResponse`: weak fairness of reading and of `receivedata()`, which returns
  data or gives up after five seconds.
* `Documents`, `MiniSsdpd`: none; they state safety only.
* `SoapCommand`: `WF_vars(Client)`, for the same reason; the gateway owes nothing.  The
  `select()` of line 200 has no limit of its own: that it returns rests on the kernel's
  limit for a connection attempt, and on signals that cease.
* `MediaNav`: weak fairness of each process, which the system schedules
  independently, and that a request is obeyed or given up by `wget`.

### Disagreements between code and texts

* `avremote_address`: the address of `-s` and `-p` is copied only in the branch
  that the presence of both skips (`cmdline.c:160-178`); the help promises it.
* `http_extension`: a chunk extension that is cut by the end of a segment is read
  on as digits (`miniwget.c:177-192`).
* `soap_success`: an order succeeds on any answer without an `errorCode`
  (`upnpcommands.c:384`).
* `documents_prefix`: the start of an element is reported without its prefix and its
  end with it (`minixml.c:187-197`), so that `igd_desc_parse.c:37` keeps no service of
  a description with prefixes; the change log says that prefixes are ignored.

More things that are not as one may expect are part of the models, as no text
speaks of them: a forward skip close to the end of the film goes to its start
(`medianav.sh:264`, in `LargestThrow`); a press more than the skip table has entries ends
the script at line 270, without a seek and without CleanUp (in `LargestThrow`); a gateway
whose fetch failed in the first pass is reported as one that is not connected, though it
was not asked, and one whose fetches failed twice as any device (`miniupnpc.c:817`, in
`Verdict`); `miniwget3()` leaves its socket open (`miniwget.c:366`, in `SocketsClosed`); a
long element name is written over the base (`igd_desc_parse.c:18`, in `CommandReaches`);
and the base made from a location with `https` is none, for `GetUPNPUrls()` goes by
`http://` (in `CommandReaches`).

## 4. What is proved

All theorems hold for every value of the constants that satisfies the named
assumptions of the modules.  Most follow the same argument: `Init => Inv`,
`TypeOK /\ Inv /\ [Next]_vars => Inv'` with one step per action, and the temporal
step by PTL, with the type theorem for `TypeOK`.

`AVRemoteProofs` (from `RenderersAssumption`, `CommandsAssumption`,
`BoundsAssumption`; any number of renderers, any buffer size): all the safety
properties of the module.

* `TypeCorrect`: `TypeOK` always holds.  Lemmas: `FreshSockets`, `HeldReplies` (a
  reply that was cut fits `res`), `ClosingSockets`.
* `StraySafe`: `StrayOnlyAfterFailedReconnect`.  Its invariant, `StrayInv`, says
  when `sockfd` is 0: only between the close after Load and the end, with Play as
  the message and no second connection.  The property alone is not inductive: it
  does not say that a write to descriptor 0 can only be that of Play.
* `TargetSafe`: `UnambiguousTarget`.  `TargetInv` adds that nothing is connected
  before the decision and that a renderer stands in `hostname` only when it was
  decided for.  The lemma `PeersKept` says that no action but a connection attempt
  changes a peer.
* `ClosedSafe`: `ConnectionsClosed`.  `ClosedInv` adds that a connection that is open
  is the one in `sockfd`: of two, the first was closed before.
* `WritesSafe`: `NoWriteAfterClose`, an action property.  `WriteInv` says that the
  second socket is made by the reconnection only, and that nothing was written yet to
  the holder of `sockfd` when the header is sent.
* `CrashSafe`: `CrashMeansNoAnswer`.  `CrashInv`: `get` is one exchange on one
  connection, so that once it was obeyed and answered to the end the answer is on its way
  or in `res`, where the parser finds all it needs.
* `PlaysTheLoaded`: `AnsweredLoadIsPlayed`.  `LoadInv` has five parts: before the
  first exchange is over there is nothing but loads (`Stages`, `OnlyLoads`); then the
  connection of the load is closed, so that a late answer to it cannot be read
  (`LoadClosed`); an answer that tells of success is to a request that was obeyed
  (`TrueReplies`); and with the answer read, each Play obeyed comes behind the load
  (`Played`).

`SoapCommandProofs` (from `CallsAssumption`; any set of functions, any number of
addresses): all the safety properties of the module.

* `CallTypes`: `TypeOK` always holds, with `WaitInv` (there is an address behind every
  interrupted connection attempt); the lemmas `Joined`, `ArrivedParts` and
  `ObeyedReply` say of which elements an answer and any part of it are made.
* `SocketsSafe`, `ConnectedSafe`: `SocketsClosed` and `OnlyConnectedUsed`.
  `SocketInv` says that at most the socket in `s` is open, and at which places.
* `MemorySafe`: `MemoryFreed`.  `MemoryInv` gives what is held at each place.
* `AnswersSafe`: `ResultIsTrue`.  `AnswerInv` relates the buffer to the reply: all it
  holds is of the reply or torn, and a wanted element is in the reply only if the
  gateway has obeyed the whole request.

`DiscoveryProofs` (from `DevicesAssumption`; any devices, any number of answers): all
the safety properties of the module, `DiscoveryTypes`, `OnceSafe`,
`VerdictIsEarned`, `TargetSafe`, `UrlsSafe`.  One invariant, `IInv`, serves them:
`Inside` bounds the loops (without it `TypeOK` is not inductive), `UrlsInUse` says where no
URLs are held, and `Outcome` that one entry counted means that the loop stood at it.
`SearchStep` and `SortStep` prove it for the two halves of the program.
`VerdictIsEarned` needs `Passes` as well: in each pass, the devices in front of the loop
have been missed if the loop went by them (`Tried`), in the second pass the gateways, in
the last all; a whole pass has tried the whole list (`AllTried`).

`DiscoverIsDone` is a refinement: `upnp_discover()`, all of `Discovery`, implements the
one step `Discover` that stands for it in `AVRemote`.  Its initial states map to initial
states and each of its steps to a stutter or to `Discover`.  Until the search has ended
main() stands before that step; the map then sets the host to the device found, or to
the one the user named, or ends the program.  Several devices count as none: main()
exits on both alike.  The hypothesis `Discovers` names the command lines with which
main() searches at all.  The proof needs `IInv`: by `Outcome` nothing is counted before
the end, so that a single step decides, and by `TypeOK` the target is a device.

`DocumentsProofs` (from `DocumentsAssumption`; any documents, cut anywhere): all the
properties of the module.

* `ParserInside`: `TypeOK`.  Each loop of the parser is before the end, but for the
  three that follow a move without a test, which are at most two symbols behind it and
  go no further; each call-back gets a part of what has arrived.  `Shapes` says of every
  action that it is one of a few kinds of steps, `Moved` and `Found` treat these.  No
  hypothesis.
* `LocationIsReached`: `LocationReached`.
* `CallsAreInOrder`: `CallsInOrder`.
* `ServicesAreExact`: `ServicesExact`.
* `CommandsAreReached`: `CommandReaches`.
* `ReplyIsTheDocument`: `ReplyExact`.
* `MappingsAreWhole`: `ListingWhole`.

What a document means is not in the code: a property that compares what was collected
with what a document says needs a hypothesis on the documents.  They are stated in
`Documents` and TLC evaluates each of them for the documents of the runs:

| Hypothesis | What it says | In `MCDocuments` |
|---|---|---|
| `AllSent` | an answer to a search has one line for the location, a URL with a host, a name or an address in brackets, and perhaps a port and a path (`GivesLocation`, `NamesHost`); what else is in it is arbitrary | `DatagramsAssumption` |
| `AllLaid` | a document is a sequence of items (`LaidOut`): start tags with or without prefix, attributes and content, texts and CDATA sections, end tags, prologues and what is between them; each makes the calls it stands for | `LayoutAssumption` |
| `AllServed` | the services of a description are between their tags, each field at most once or with the same value, the base before them; no name is so long that it reaches the services (`3 * UrlMax`), and one that is written over the base comes before the base is given (`Serving`, `GivesBase`) | `ServicesAssumption` |
| `AllAddressed` | the base is a URL, a control URL is one or a path (`Addressed`) | `AddressesAssumption` |
| `AllPaired` | a value of a reply follows the start of its element, whose name fits its place (`Pairing`) | `PairsAssumption` |
| `AllMapped` | the listing of a reply is the value of its element and a document of its own, with the mappings between their tags and the columns inside them (`Mapping`) | `MappingsAssumption`, `LayoutAssumption` |

None of them says how long a document is, how many services, values or mappings it has,
or where it is cut.  Prefixes of start tags are allowed, those of end tags too, but then
the end that is told has the prefix (see `documents_prefix`), so that services with
prefixes do not fulfil `AllServed`.

The invariant of `LocationIsReached` is `SearchIsAt`: no host is known before the answer,
and then the one that it names.  The steps rest on what the functions on texts compute.
`SearchOK` says where `parseMSEARCHReply()` is after each symbol, in which line and
whether its first colon has come, so that it has found nothing or the location
(`LocationWhole`, by induction over the symbols).  `HostEndIs`, `PortIs` and `ResolvedIs`
say what `parseURL()` and the resolver make of it, and `WalkIs` that the second reading
in `upnp_discover()` finds the same, or nothing.

The invariant of `CallsAreInOrder` is `InOrder`: each loop of the parser is at a place of an
item (`Place`, one case per loop: in a name from here to there, between two attributes, in
a value with this quote, ...) and the calls so far are those of the items before it;
where it has stopped, at the cut or at the end, `Stopped` holds.  The property alone says
nothing of where the parser is and is not inductive.  One lemma per loop says which places
follow which (`Names`, `Tags`, `Skips`, ...), `ReadingGoesOn` puts them together for the
steps of `Parse`.  It is stated of any text and any calls, so that it serves a document
inside a document as well.

From it follows `NextComes`: a step of the parser makes no call, or the next call of the
document, or the one too many at the cut.  The consumers are then loops over the calls of
a document, and each has an invariant that says what it keeps after the first p calls:
`IgdHas` (the field that is read, the fields of the service that has begun, the services
that have ended), `ReplyHas` (the pairs whose values have come and the name in `curelt`),
`ListHas` (the row that is filled, behind it the mappings that have ended).
`DescriptionIs`, `ReplyIs` and `ListingIs` tie them to the state.  `KeptGrows` is the heart
of the first, for a service may take each of four places or none, and which one depends on
those before it.

`CommandsAreReached` takes the services from there and rests on what the functions on URLs
compute: `Taken` and `Rooted` say that cutting a URL at its path and putting another path
behind it changes nothing but the path, `Means` that a control URL of each kind, joined to
the base, reads as the description means it, and `KeptStored` that every service that is
kept is one of the description, also after the swap.

`MappingsAreWhole` needs two documents.  Of the reply it takes from `ReplyIs` that the text
in `portListing` is the listing or nothing, or a blank text from the cut (`FitsOn`); such a
text makes no call (`NothingInHand`).  The listing has arrived whole inside the reply, so
that the call too many is impossible and at the end all calls have been made (`ListEnds`).

`MiniSsdpdProofs` (from `BufferAssumption`; any bytes, any buffer, any word)

* `InsideBuffer`: `TypeOK`, so that no string reaches beyond the buffer.
* `LengthDecoded`: decoding what `CODELENGTH` writes gives the length back and ends
  behind it, for every length below 2^35 that the word can hold.  One lemma per
  number of bytes (`One` .. `Five`).
* `ListExact`: `ListIsAnswer`, with the hypothesis `AllWellFormed`: the daemon keeps to
  the protocol, that is, the bytes are those of at most 255 devices whose lengths
  `CODELENGTH` can code and an `unsigned int` holds.  `TypeOK` needs no such hypothesis.

The invariant of `ListExact` is `Reading`.  While all that is in the list are devices of
the answer (`Clean`), the reader is where the layout of the answer has its next code or
string, and a code that is half read has given the value that decoding would have there
(`In`, `Decoding`).  It stays so as long as the bytes read have arrived (`CodeStep`).  Once
the reader is beyond them, or stops because the buffer ends, the next device has not
arrived, and as devices end in the order they are laid out (`EndsInOrder`) no later one has:
the first entries are `Settled`, whatever is put in front of them from old bytes.  The layout
itself, that is, where `Bytes` puts each code and each string, is `BytesLaid`; it is proved
from a recursive function for `FlattenSeq` (`Flattened`, `Placed`).

`HttpResponseProofs` (from `MessagesAssumption`; any well-formed answers, any
segments): all the safety of the module.

* `TypesHold`: `TypeOK`, with a natural number for every string of digits.
* `AnswersAreExact`, `ReaderStops`: `CompleteIsExact` and `NoIdleWait`.
* `TransferIsSafe`: the reader implements `Transfer!Safety`: its steps are steps of
  `Transfer` (`Plain` and `Data` let the body grow, the last step finishes) or change
  nothing the caller sees.

The last three have the hypothesis `AllPlain`: no chunk extension contains a
hexadecimal digit.  They are false without it, which is what the run
`http_extension` shows; the run `http` checks them for messages that fulfil it.  Their
invariant is `Decoded`: where in the layout of the message the reader is, at every
place of the loop body, what `digits`, `size` and `content` hold there, and that each
new segment finds the place again.  It needs to know what two recursive functions
compute: `ValueTyped` for the digits, `HeaderEnds` for the search of the end of the
header, which finds it as soon as it has arrived, neither earlier nor later.

`MediaNavProofs` (from the assumptions of `MediaNav`; any number of presses): all the
safety of the module.

* `TypesHold`: `TypeOK`; all times are within the media.
* `ThrowSafe`: `LargestThrow`.  The loop stops at the first skip that leaves the media
  (`ThrowStops`), and as the skips grow every longer one leaves it too
  (`LongerIsOutside`), so that the last one before is the largest that fits.  `Counted`
  says that a process has broken off behind its count exactly if the loop ran behind the
  end of the table.
* `ChapterSafe`: `ChapterProgress`, with the hypothesis `SpacedChapters`: two marks, one
  after the other, are at least the laxity apart.  The script does not check it of a
  chapter file, and if two marks are closer PREV may lead to less than the laxity
  before the present position; it never leads to something that is no mark, and NEXT
  needs no hypothesis.
* `PredecessorSafe`, `PressesSafe`, `SurvivorSafe`: the lock protocol.

The first three follow from `SeekInv`, which holds on to what a process has read and
computed until it seeks: a position within the media it was read with, a target that is
the largest throw from there, or a mark.  The others follow from `LockInv`, which says
that the process found in the lock has ended once its successor is past the kill, that a
process never finds itself in the lock, and that someone runs or has ended by itself.
It is kept by every step of the skip and chapter code because those steps touch neither
the lock nor another process (`OrdinarySteps`).

`Induction`.  The induction theorems of the library take a predicate as a parameter,
which the provers cannot instantiate.  `Smallest`, `Upward` and `Downward` take a set
instead, and follow from the library's `WFMin`, which does so too; `RecursionExists`
and `SearchExists` give the function that a recursive definition, or a search that
goes on from place to place, stands for.  With them the provers reach what `ValueOf`,
`EndOfHeader`, `Throw`, `NextIndex` and `SearchReply` compute for every input.

Only model-checked: all liveness (`Termination`, `AllEnd`, `Terminates`, `Ends`, and
the fairness part of `Promise`), which is out of the prover's reach, as is `ENABLED`.
Every invariant and every action property of the runs that hold is also a theorem.

## 5. What is not modelled

* Comments and attributes without a value in documents: `parseatt()` then looks for
  the next equal sign, beyond the tag.  `MiniXml` does the same (`AttSign`), but the
  documents of the runs have none, as there is no property to hold them against.
* Texts that begin with `http` and are neither `http://` nor `https://` URLs, but have
  `://` somewhere, which `parseURL()` takes; host names of `MAXHOSTNAMELEN` characters and
  more, the scope of IPv6 addresses.
* Element names of three times `MINIUPNPC_URL_MAXSIZE` and more, which would be written
  over the services of a description.  The model lets them be; `AllServed` excludes them.
* A device that repeats its answer without end, each time before the two seconds are over:
  it keeps the wait loop of `upnpDiscover()` going (`miniupnpc.c:598`), and the model bounds
  the answers by `MaxAnswers`.
* The text of requests, wording, logging, and the values that are copied out to the
  caller of a gateway function; pointers the caller passes as null.
* `UPNP_GetIGDFromUrl()`, and of `parsers.c` `GetCurrentTransportActions` and
  `GetDeviceCapabilities`: nothing calls them.
* `upnp.sh`, `upnp-cmd.php`: each call renders and sends one request and keeps
  nothing.
* `upnperrors.c`: a table.  Build files: they settle which branches are modelled.

## 6. Plan

Done, the most important behaviour first: `AVRemote`, `MediaNav`, `Transfer` and
`HttpResponse`, `Discovery`, `SoapCommand`, `MiniXml` with `Urls` and `Documents`,
`MiniSsdpd`, and the theorems of section 4.  What is left:

1. A run of the composition, in which the steps of `Discovery` take the place of the
   `Discover` action of `AVRemote`.  That they implement it is proved
   (`DiscoverIsDone`); no run checks it.
