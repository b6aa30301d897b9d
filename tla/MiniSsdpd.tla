------------------------------ MODULE MiniSsdpd ------------------------------
(***************************************************************************)
(* getDevicesFromMiniSSDPD() of minissdpc.c: the answer of the daemon, a   *)
(* number of devices with three strings each, is read from a stream by one *)
(* read() into a buffer on the stack and taken apart there.  A string      *)
(* comes behind its length, which is coded in seven bits a byte            *)
(* (codelength.h).                                                         *)
(*                                                                         *)
(* The buffer is a sequence of bytes, and p an index into it, one more     *)
(* than the offset in C.  What follows the bytes that were read is what    *)
(* the stack and the request have left there.                              *)
(***************************************************************************)
EXTENDS Integers, SequencesExt

CONSTANTS
  Answers,  \* what the daemon may send: its devices, in bytes
  BufSize,  \* sizeof(buffer)
  Leftover, \* bytes that were there before the answer
  Word,     \* how many values an unsigned int has
  MaxRun    \* bound: of them, how many lengths go on for

ASSUME BufferAssumption ==
  /\ BufSize \in Nat /\ BufSize >= 4 /\ Word \in Nat \ {0} /\ MaxRun \in Nat
  /\ Leftover \subseteq 0 .. 255
  /\ \A a \in Answers : a.bytes \in Seq(0 .. 255)

VARIABLES
  pc,
  answer,
  buffer,   \* the bytes that were read
  i, p,
  value,    \* the length being decoded: urlsize, stsize, usnsize
  url,      \* where the url is
  devlist   \* the list, its head first

vars == <<pc, answer, buffer, i, p, value, url, devlist>>

-----------------------------------------------------------------------------
\* CODELENGTH(n, p) and one turn of DECODELENGTH(n, p).
Top(n, k) == 128 + ((n \div k) % 128)

Code_Border(n) ==
  (IF n > 268435456 THEN <<Top(n, 268435456)>> ELSE <<>>)
  \o (IF n > 2097152 THEN <<Top(n, 2097152)>> ELSE <<>>)
  \o (IF n > 16384 THEN <<Top(n, 16384)>> ELSE <<>>)
  \o (IF n > 128 THEN <<Top(n, 128)>> ELSE <<>>)
  \o <<n % 128>>

Code(n) ==
  (IF n >= 268435456 THEN <<Top(n, 268435456)>> ELSE <<>>)
  \o (IF n >= 2097152 THEN <<Top(n, 2097152)>> ELSE <<>>)
  \o (IF n >= 16384 THEN <<Top(n, 16384)>> ELSE <<>>)
  \o (IF n >= 128 THEN <<Top(n, 128)>> ELSE <<>>)
  \o <<n % 128>>

Shifted(v, b) == (v * 128 + (b % 128)) % Word
GoesOn(b) == b >= 128

-----------------------------------------------------------------------------
\* The daemon's side of the protocol, for devices d with strings of some
\* length.
Filled(n) == Code(n) \o [k \in 1 .. n |-> 65]
Strings(d) == Filled(d.url) \o Filled(d.st) \o Filled(d.usn)
Bytes(a) == <<Len(a)>> \o FlattenSeq([k \in DOMAIN a |-> Strings(a[k])])

\* An answer by the protocol: a byte for the number of devices, and lengths that
\* CODELENGTH can code and the program can hold.
Codable(n) == n \in 0 .. Word - 1 /\ n \div 268435456 < 128
WellFormed(a) ==
  /\ a.devices \in Seq([url : Nat, st : Nat, usn : Nat])
  /\ \A k \in DOMAIN a.devices :
       LET d == a.devices[k] IN Codable(d.url) /\ Codable(d.st) /\ Codable(d.usn)
  /\ Len(a.devices) <= 255 /\ a.bytes = Bytes(a.devices)

Init ==
  /\ pc = "read" /\ answer \in Answers /\ buffer = <<>>
  /\ i = 0 /\ p = 2 /\ value = 0 /\ url = [at |-> 1, size |-> 0]
  /\ devlist = <<>>

\* One read() of a stream gets a first part, of at most the buffer.
Read ==
  /\ pc = "read"
  /\ \E n \in 1 .. Len(answer.bytes) :
       n <= BufSize /\ buffer' = SubSeq(answer.bytes, 1, n)
  /\ pc' = "entry" /\ UNCHANGED <<answer, i, p, value, url, devlist>>

ReadFails ==
  /\ pc = "read" /\ pc' = "done"
  /\ UNCHANGED <<answer, buffer, i, p, value, url, devlist>>

\* Does a string of s bytes at p leave two bytes of the buffer free (lines 102,
\* 105 and 110).
Fits_Exactly(s) == p + s - 1 <= BufSize
Fits(s) == p + s + 1 < BufSize

Entry ==
  /\ pc = "entry"
  /\ pc' = IF i < buffer[1] /\ Fits(0) THEN "url" ELSE "done"
  /\ value' = 0 /\ UNCHANGED <<answer, buffer, i, p, url, devlist>>

ByteAt(k) == IF k <= Len(buffer) THEN {buffer[k]} ELSE Leftover

Decode ==
  /\ pc \in {"url", "st", "usn"}
  /\ \E b \in ByteAt(p) :
       /\ p > Len(buffer) + MaxRun => ~GoesOn(b)
       /\ value' = Shifted(value, b)
       /\ pc' = IF GoesOn(b) THEN pc
                ELSE CASE pc = "url" -> "haveurl" [] pc = "st" -> "havest"
                       [] pc = "usn" -> "haveusn"
  /\ p' = p + 1 /\ UNCHANGED <<answer, buffer, i, url, devlist>>

HaveUrl ==
  /\ pc = "haveurl" /\ Fits(value)
  /\ url' = [at |-> p, size |-> value] /\ p' = p + value
  /\ pc' = "st" /\ value' = 0
  /\ UNCHANGED <<answer, buffer, i, devlist>>

HaveSt ==
  /\ pc = "havest" /\ Fits(value)
  /\ devlist' = <<[url |-> url, st |-> [at |-> p, size |-> value]]>> \o devlist
  /\ p' = p + value /\ pc' = "usn" /\ value' = 0
  /\ UNCHANGED <<answer, buffer, i, url>>

TooLong ==
  /\ pc \in {"haveurl", "havest"} /\ ~Fits(value)
  /\ pc' = "done"
  /\ UNCHANGED <<answer, buffer, i, p, value, url, devlist>>

HaveUsn ==
  /\ pc = "haveusn"
  /\ p' = p + value /\ i' = i + 1
  /\ pc' = IF p' > BufSize + 1 THEN "done" ELSE "entry"
  /\ UNCHANGED <<answer, buffer, value, url, devlist>>

Done == pc = "done" /\ UNCHANGED vars

Next ==
  \/ Read \/ ReadFails \/ Entry \/ Decode \/ HaveUrl \/ HaveSt \/ TooLong
  \/ HaveUsn \/ Done

Spec == Init /\ [][Next]_vars

-----------------------------------------------------------------------------
(***************************************************************************)
(* Correctness.                                                            *)
(***************************************************************************)

\* A string of a device, inside the buffer with a byte to spare.
Place == {s \in [at : 1 .. BufSize, size : 0 .. BufSize] : s.at + s.size < BufSize}

\* Whatever the bytes, the strings that are copied for a device lie inside the
\* buffer, and so does each place where the next device is looked for
\* (minissdpc.c, lines 100-127).
TypeOK ==
  /\ pc \in {"read", "entry", "url", "haveurl", "st", "havest", "usn", "haveusn", "done"}
  /\ answer \in Answers /\ buffer \in Seq(0 .. 255)
  /\ i \in Nat /\ p \in Nat \ {0} /\ value \in 0 .. Word - 1
  /\ url \in Place /\ devlist \in Seq([url : Place, st : Place])
  /\ pc \in {"read", "entry"} => p <= BufSize + 1

\* Where the strings of the k-th device of an answer are.
Before(a, k) == 1 + Len(FlattenSeq([j \in 1 .. k - 1 |-> Strings(a[j])]))
PlaceOf(a, k) ==
  LET u == Before(a, k) + Len(Code(a[k].url)) + 1
      s == u + a[k].url + Len(Code(a[k].st))
  IN  [url |-> [at |-> u, size |-> a[k].url], st |-> [at |-> s, size |-> a[k].st]]
EndOf(d) == d.st.at + d.st.size - 1

\* Both strings of the k-th device are among the first n bytes and leave two
\* bytes of the buffer.
HasArrived(k, n) ==
  LET e == EndOf(PlaceOf(answer.devices, k)) IN e <= n /\ e + 2 < BufSize

\* The k-th entry that was put in front of the list.
Nth(k) == devlist[Len(devlist) + 1 - k]

\* Every device that has arrived is in the list, with the strings it has in the
\* answer and in its order, and if the answer has arrived nothing else is;
\* lengths of more than one byte included.  Behind a cut there may be a device
\* made of what was in the buffer before (minissdpc.c, lines 92-128).
ListIsAnswer ==
  pc = "done" /\ buffer # <<>> =>
    /\ \A k \in DOMAIN answer.devices :
         HasArrived(k, Len(buffer)) =>
           k <= Len(devlist) /\ Nth(k) = PlaceOf(answer.devices, k)
    /\ Len(devlist) <= Len(answer.devices)
    /\ buffer = answer.bytes => \A k \in DOMAIN devlist : HasArrived(k, Len(buffer))
=============================================================================
