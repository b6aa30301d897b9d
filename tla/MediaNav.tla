------------------------------ MODULE MediaNav ------------------------------
(***************************************************************************)
(* contrib/medianav.sh: the script a remote control starts once per key    *)
(* press.  The processes know of each other through two files only, the    *)
(* lock file (LOCKFILE, the id of the last process) and the key sequence   *)
(* (KEYSEQUENCE, one line per FWD or REW press), and act on one media      *)
(* player by SOAP requests sent with wget.  A process that finds a lock    *)
(* kills its owner; a request the dead process had sent is still obeyed.   *)
(*                                                                         *)
(* Times are in units that make the shortest skip 1.                       *)
(***************************************************************************)
EXTENDS Integers, Sequences, FiniteSets

CONSTANTS
  Procs,         \* the processes, one per key press
  Keys,          \* the keys this instance may press
  Nobody,        \* no lock file; a variable never assigned
  SkipTimes,     \* SKIPTIMES, as many as SKIPTIMESRANGE
  Laxity,        \* SKIPCHAPTERLAXITY
  Duration,      \* how long the media is
  StartAt,       \* bound: where the playback may be at the beginning
  ChapterFiles,  \* the contents CHAPTERFILE may have, Nobody for no file
  LeftPresses    \* those KEYSEQUENCE may have been left with, likewise

ASSUME SkipAssumption ==
  /\ SkipTimes \in Seq(Nat \ {0}) /\ Laxity \in Nat /\ Duration \in Nat
  /\ \A i, j \in DOMAIN SkipTimes : i < j => SkipTimes[i] < SkipTimes[j]
ASSUME StartAssumption == StartAt \subseteq 0 .. Duration
ASSUME KeysAssumption ==
  Keys \subseteq {"FWD", "REW", "BACK", "NEXT", "PREV", "LISTTOCHAPTER"}
ASSUME ProcsAssumption == Procs # {}
ASSUME ChaptersAssumption ==
  ChapterFiles \subseteq Seq(0 .. Duration) \cup {Nobody}
ASSUME PressesAssumption ==
  LeftPresses \subseteq Seq({"FWD", "REW"}) \cup {Nobody}
ASSUME NobodyAssumption == Nobody \notin Procs /\ Nobody \notin Int

VARIABLES
  pc, key,      \* where a process is; the key it was started for
  seen,         \* runningpid, as read from the lock file
  cur, dur,     \* CURRENTTIME and MEDIADURATION
  steps,        \* the net number of presses: SKIPDIRECTION * SKIPSTEPS
  target,       \* NEWTIME
  how,          \* how a process ended
  lock,         \* LOCKFILE
  presses,      \* KEYSEQUENCE, Nobody if there is no such file
  chapters,     \* CHAPTERFILE
  playing, pos, \* the player: is something playing, and where
  seeks         \* Seek requests on their way to the player: <<process, time>>

locals == <<pc, key, seen, cur, dur, steps, target, how>>
files == <<lock, presses>>
player == <<playing, pos, seeks>>
vars == <<locals, files, chapters, player>>

-----------------------------------------------------------------------------
Starting == {"start", "kill", "writeLock"}
Active == {"append", "sleep", "status", "position", "act", "seek", "seeking",
           "cleanLock", "cleanKeys"}
Ended == {"dead", "done"}
Skipping == {"FWD", "REW"}

Goto(p, s) == pc' = [pc EXCEPT ![p] = s]
End(p, h) == Goto(p, "done") /\ how' = [how EXCEPT ![p] = h]

Init ==
  /\ pc = [p \in Procs |-> "start"] /\ key \in [Procs -> Keys]
  /\ seen = [p \in Procs |-> Nobody] /\ how = [p \in Procs |-> "running"]
  /\ cur = [p \in Procs |-> 0] /\ dur = [p \in Procs |-> 0]
  /\ steps = [p \in Procs |-> 0] /\ target = [p \in Procs |-> 0]
  /\ lock = Nobody /\ presses \in LeftPresses /\ chapters \in ChapterFiles
  /\ playing \in BOOLEAN /\ pos \in StartAt /\ seeks = {}

-----------------------------------------------------------------------------
ReadLock_Waits(p) ==
  /\ pc[p] = "start" /\ lock = Nobody
  /\ Goto(p, "writeLock")
  /\ UNCHANGED <<key, seen, cur, dur, steps, target, how, files, chapters, player>>

\* Lines 90-92: the lock file is read, if there is one.
ReadLock(p) ==
  /\ pc[p] = "start"
  /\ seen' = [seen EXCEPT ![p] = lock]
  /\ Goto(p, IF lock = Nobody THEN "writeLock" ELSE "kill")
  /\ UNCHANGED <<key, cur, dur, steps, target, how, files, chapters, player>>

\* The processes that end by p's kill: the one p read of, if it still runs.
Victims_None(p) == {}
Victims_All(p) == {q \in Procs : pc[q] \notin Ended}
Victims(p) == {q \in Procs : q = seen[p] /\ pc[q] \notin Ended}

\* Line 93.
Kill(p) ==
  /\ pc[p] = "kill"
  /\ pc' = [q \in Procs |-> IF q \in Victims(p) THEN "dead"
                            ELSE IF q = p THEN "writeLock" ELSE pc[q]]
  /\ how' = [q \in Procs |-> IF q \in Victims(p) THEN "killed" ELSE how[q]]
  /\ UNCHANGED <<key, seen, cur, dur, steps, target, files, chapters, player>>

\* Line 96.
WriteLock(p) ==
  /\ pc[p] = "writeLock"
  /\ lock' = p
  /\ Goto(p, IF key[p] \in Skipping THEN "append" ELSE "status")
  /\ UNCHANGED <<key, seen, cur, dur, steps, target, how, presses, chapters,
                 player>>

\* Lines 117-128: the press is recorded before the process sleeps.
AppendPress(p) ==
  /\ pc[p] = "append"
  /\ presses' = Append(IF presses = Nobody THEN <<>> ELSE presses, key[p])
  /\ Goto(p, "sleep")
  /\ UNCHANGED <<key, seen, cur, dur, steps, target, how, lock, chapters, player>>

Sleep(p) ==
  /\ pc[p] = "sleep"
  /\ Goto(p, "status")
  /\ UNCHANGED <<key, seen, cur, dur, steps, target, how, files, chapters, player>>

-----------------------------------------------------------------------------
\* GetPBStatus for BACK (lines 101-113); a lost answer counts as not playing.
\* CleanUP is no function of the script, so nothing is removed.
BackStatus(p) ==
  /\ pc[p] = "status" /\ key[p] = "BACK"
  /\ \/ playing /\ Goto(p, "position") /\ UNCHANGED how
     \/ End(p, "uncleaned")
  /\ UNCHANGED <<key, seen, cur, dur, steps, target, files, chapters, player>>

\* GetPBStatus and GetPosition for the other keys, of which only the second
\* can break the script; PBSTATUS is looked at after both (lines 131-139).
Status(p) ==
  /\ pc[p] = "status" /\ key[p] # "BACK"
  /\ \/ playing /\ Goto(p, "position")
     \/ Goto(p, "idle")
  /\ UNCHANGED <<key, seen, cur, dur, steps, target, how, files, chapters, player>>

\* GetPosition (lines 58-68).  A TrackDuration of "0" leaves RETVALUE, and so
\* MEDIADURATION, at the RelTime converted before it.
GetPosition(p) ==
  /\ pc[p] \in {"position", "idle"}
  /\ cur' = [cur EXCEPT ![p] = pos]
  /\ \E d \in {Duration, pos} : dur' = [dur EXCEPT ![p] = d]
  /\ IF pc[p] = "idle" THEN End(p, "uncleaned")
     ELSE Goto(p, "act") /\ UNCHANGED how
  /\ UNCHANGED <<key, seen, steps, target, files, chapters, player>>

\* No answer from the player: the arithmetic of TimeToMS is a syntax error,
\* which ends the shell.
GetPositionFails(p) ==
  /\ pc[p] \in {"position", "idle"}
  /\ End(p, "broken")
  /\ UNCHANGED <<key, seen, cur, dur, steps, target, files, chapters, player>>

-----------------------------------------------------------------------------
\* Lines 104-110: BACK seeks to where it found the playback.
ActBack(p) ==
  /\ pc[p] = "act" /\ key[p] = "BACK"
  /\ target' = [target EXCEPT ![p] = cur[p]]
  /\ Goto(p, "seek")
  /\ UNCHANGED <<key, seen, cur, dur, steps, how, files, chapters, player>>

\* Lines 141-168: menu keys are injected, nothing else.
ActList(p) ==
  /\ pc[p] = "act" /\ key[p] = "LISTTOCHAPTER"
  /\ Goto(p, "cleanLock")
  /\ UNCHANGED <<key, seen, cur, dur, steps, target, how, files, chapters, player>>

\* Lines 191-203: the loop stops at the first chapter that is still to come;
\* 0 stands for no such chapter, Nobody for a variable never assigned.
NextIndex(c) ==
  CHOOSE k \in 1 .. Len(chapters) + 1 :
    /\ k <= Len(chapters) => chapters[k] > c
    /\ \A j \in 1 .. k - 1 : chapters[j] <= c
ChNext(c) == LET k == NextIndex(c) IN
             IF k <= Len(chapters) THEN chapters[k] ELSE 0
ChPrev(c) == LET k == NextIndex(c) IN IF k > 1 THEN chapters[k - 1] ELSE 0
ChPrevPrev(c) == LET k == NextIndex(c) IN
                 IF k > 2 THEN chapters[k - 2] ELSE IF k = 2 THEN 0 ELSE Nobody

\* Lines 207-228.
ChapterTarget_NoLaxity(k, c) == IF k = "NEXT" THEN ChNext(c) ELSE ChPrev(c)
ChapterTarget(k, c) ==
  IF k = "NEXT" THEN ChNext(c)
  ELSE IF ChPrev(c) + Laxity > c THEN ChPrevPrev(c) ELSE ChPrev(c)

\* Lines 171-238: without chapters, or at the first or last one, the next or
\* previous file is asked for, and in the latter case nothing is cleaned up.
ActChapter(p) ==
  /\ pc[p] = "act" /\ key[p] \in {"NEXT", "PREV"}
  /\ IF chapters = Nobody
     THEN Goto(p, "cleanLock") /\ UNCHANGED <<target, how>>
     ELSE LET t == ChapterTarget(key[p], cur[p]) IN
          \/ t = Nobody /\ End(p, "broken") /\ UNCHANGED target
          \/ t # Nobody /\ t = 0 /\ End(p, "uncleaned") /\ UNCHANGED target
          \/ /\ t # Nobody /\ t # 0 /\ target' = [target EXCEPT ![p] = t]
             /\ Goto(p, "seek") /\ UNCHANGED how
  /\ UNCHANGED <<key, seen, cur, dur, steps, files, chapters, player>>

-----------------------------------------------------------------------------
\* Lines 243-249: F counts up, R counts down; no file counts as no press.
Net(s) == IF s = Nobody THEN 0
          ELSE Cardinality({i \in DOMAIN s : s[i] = "FWD"})
                 - Cardinality({i \in DOMAIN s : s[i] = "REW"})

Sign(n) == IF n > 0 THEN 1 ELSE IF n < 0 THEN -1 ELSE 0
Size(n) == IF n < 0 THEN -n ELSE n
Smaller(a, b) == IF a < b THEN a ELSE b

\* The time k skips away in the direction of n, and the loop's break (line 272).
At(c, n, k) == c + Sign(n) * SkipTimes[k]
Outside_End(t, d) == t <= 0
Outside(t, d) == t <= 0 \/ t > d

\* Lines 262-276 as the loop runs: NEWTIME after curskip = k, with 0 before the
\* first turn; once a turn has broken off, NEWTIME stays.
Throw_Continue(c, d, n) ==
  LET new[k \in 0 .. Smaller(Size(n), Len(SkipTimes))] ==
        IF k = 0 THEN 0
        ELSE IF Outside(At(c, n, k), d) THEN 0 ELSE At(c, n, k)
  IN  new[Smaller(Size(n), Len(SkipTimes))]
Throw(c, d, n) ==
  LET run[k \in 0 .. Smaller(Size(n), Len(SkipTimes))] ==
        IF k = 0 THEN [new |-> 0, broken |-> FALSE]
        ELSE IF run[k - 1].broken \/ Outside(At(c, n, k), d)
             THEN [run[k - 1] EXCEPT !.broken = TRUE]
             ELSE [new |-> At(c, n, k), broken |-> FALSE]
  IN  run[Smaller(Size(n), Len(SkipTimes))].new

\* Behind the end of the table "cut" gives an empty SKIPTIME, and the arithmetic
\* of line 270 ends the shell before line 272 compares with SKIPTIMESRANGE.
RunsOff(c, d, n) ==
  /\ Size(n) > Len(SkipTimes)
  /\ \A k \in DOMAIN SkipTimes : ~Outside(At(c, n, k), d)

\* Lines 241-281.
ActSkip(p) ==
  /\ pc[p] = "act" /\ key[p] \in Skipping
  /\ steps' = [steps EXCEPT ![p] = Net(presses)]
  /\ IF RunsOff(cur[p], dur[p], Net(presses))
     THEN End(p, "broken") /\ UNCHANGED target
     ELSE /\ target' = [target EXCEPT ![p] = Throw(cur[p], dur[p], Net(presses))]
          /\ Goto(p, "seek") /\ UNCHANGED how
  /\ UNCHANGED <<key, seen, cur, dur, files, chapters, player>>

\* SeekTo: wget has the request; the script waits for it.
SeekTo(p) ==
  /\ pc[p] = "seek"
  /\ seeks' = seeks \cup {<<p, target[p]>>}
  /\ Goto(p, "seeking")
  /\ UNCHANGED <<key, seen, cur, dur, steps, target, how, files, chapters,
                 playing, pos>>

\* wget has returned, with or without an answer.
SeekReturns(p) ==
  /\ pc[p] = "seeking" /\ <<p, target[p]>> \notin seeks
  /\ IF key[p] = "BACK" THEN End(p, "uncleaned")
     ELSE Goto(p, "cleanLock") /\ UNCHANGED how
  /\ UNCHANGED <<key, seen, cur, dur, steps, target, files, chapters, player>>

-----------------------------------------------------------------------------
\* CleanUp (lines 29-34): two removals, one after the other.
CleanLock(p) ==
  /\ pc[p] = "cleanLock"
  /\ lock' = Nobody
  /\ Goto(p, "cleanKeys")
  /\ UNCHANGED <<key, seen, cur, dur, steps, target, how, presses, chapters,
                 player>>

CleanKeys_Forgotten(p) ==
  /\ pc[p] = "cleanKeys" /\ End(p, "cleaned")
  /\ UNCHANGED <<key, seen, cur, dur, steps, target, files, chapters, player>>

CleanKeys(p) ==
  /\ pc[p] = "cleanKeys"
  /\ presses' = Nobody
  /\ End(p, "cleaned")
  /\ UNCHANGED <<key, seen, cur, dur, steps, target, lock, chapters, player>>

-----------------------------------------------------------------------------
\* The player (external) obeys a Seek while it plays, or the request is lost.
PlayerSeeks ==
  \E s \in seeks :
    /\ seeks' = seeks \ {s}
    /\ pos' = IF playing THEN s[2] ELSE pos
  /\ UNCHANGED <<locals, files, chapters, playing>>

SeekLost ==
  \E s \in seeks : seeks' = seeks \ {s}
  /\ UNCHANGED <<locals, files, chapters, playing, pos>>

PlayerStops ==
  /\ playing /\ playing' = FALSE
  /\ UNCHANGED <<locals, files, chapters, pos, seeks>>

Script(p) ==
  \/ ReadLock(p) \/ Kill(p) \/ WriteLock(p) \/ AppendPress(p) \/ Sleep(p)
  \/ BackStatus(p) \/ Status(p) \/ GetPosition(p) \/ GetPositionFails(p)
  \/ ActBack(p) \/ ActList(p) \/ ActChapter(p) \/ ActSkip(p)
  \/ SeekTo(p) \/ SeekReturns(p) \/ CleanLock(p) \/ CleanKeys(p)

Finished == (\A p \in Procs : pc[p] \in Ended) /\ seeks = {} /\ UNCHANGED vars

Next == (\E p \in Procs : Script(p)) \/ PlayerSeeks \/ SeekLost \/ PlayerStops
        \/ Finished

\* Every process keeps running once started, and wget gives up in the end.
Spec == /\ Init /\ [][Next]_vars
        /\ \A p \in Procs : WF_vars(Script(p))
        /\ WF_vars(PlayerSeeks \/ SeekLost)

-----------------------------------------------------------------------------
Times == 0 .. Duration

TypeOK ==
  /\ pc \in [Procs -> Starting \cup Active \cup Ended \cup {"idle"}]
  /\ key \in [Procs -> Keys] /\ seen \in [Procs -> Procs \cup {Nobody}]
  /\ cur \in [Procs -> Times] /\ dur \in [Procs -> Times]
  /\ steps \in [Procs -> Int] /\ target \in [Procs -> Times]
  /\ how \in [Procs -> {"running", "killed", "broken", "uncleaned", "cleaned"}]
  /\ lock \in Procs \cup {Nobody}
  /\ presses \in Seq(Skipping) \cup {Nobody}
  /\ playing \in BOOLEAN /\ pos \in Times /\ seeks \subseteq Procs \X Times

\* A process acts on the player only when the process it found in the lock
\* file has ended (lines 90-96): of two presses one of which saw the other, the
\* later alone is left.
PredecessorEnded ==
  \A p \in Procs : seen[p] # Nobody /\ pc[p] \in Active =>
                     pc[seen[p]] \in Ended

\* "we will try to find largest possible throw" (line 266): a process that has
\* counted its presses goes to the largest skip they ask for that stays within
\* the media, or to the start of the media if already the first does not; but it
\* breaks off, and goes nowhere, exactly if they ask for more skips than there
\* are in the table and all of these stay within the media.
Fitting(p) ==
  {k \in DOMAIN SkipTimes :
     k <= Size(steps[p]) /\ ~Outside(At(cur[p], steps[p], k), dur[p])}
AsksForMore(p) == Size(steps[p]) > Len(SkipTimes) /\ Fitting(p) = DOMAIN SkipTimes

LargestThrow ==
  \A p \in Procs :
    /\ pc[p] = "seek" /\ key[p] \in Skipping =>
         /\ ~AsksForMore(p)
         /\ IF Fitting(p) = {} THEN target[p] = 0
            ELSE \E k \in Fitting(p) : /\ \A j \in Fitting(p) : j <= k
                                       /\ target[p] = At(cur[p], steps[p], k)
    /\ how[p] = "broken" /\ steps[p] # 0 => AsksForMore(p)

\* PREV and NEXT go to a chapter mark, NEXT to one that is still to come and
\* PREV, beyond the laxity, never to the same mark again (lines 195, 217).
ChapterProgress ==
  \A p \in Procs : pc[p] = "seek" /\ key[p] \in {"NEXT", "PREV"} =>
    /\ \E i \in DOMAIN chapters : chapters[i] = target[p]
    /\ IF key[p] = "NEXT" THEN target[p] > cur[p]
       ELSE target[p] + Laxity <= cur[p]

\* Presses are left to be counted again by a later process only if a process
\* ended without CleanUp: killed, broken by a lost answer, or along a path that
\* calls CleanUP or nothing (lines 112, 137, 213, 225).
LeftPressesExplained ==
  (\A p \in Procs : pc[p] \in Ended) /\ presses # Nobody =>
    \E p \in Procs : how[p] \in {"killed", "broken", "uncleaned"}

\* The processes never kill each other to the last one: when all have ended,
\* one of them has ended by itself.
SomeoneSurvives ==
  (\A p \in Procs : pc[p] \in Ended) => \E p \in Procs : how[p] # "killed"

\* Every press comes to its end: no process waits for another.
AllEnd == \A p \in Procs : <>(pc[p] \in Ended)
=============================================================================
