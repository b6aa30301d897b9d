--------------------------- MODULE MediaNavProofs ---------------------------
(***************************************************************************)
(* Theorems about the lock protocol of MediaNav, for any number of         *)
(* overlapping key presses of any kind.                                    *)
(***************************************************************************)
EXTENDS MediaNav, Induction, FiniteSetTheorems

States == Starting \cup Active \cup Ended \cup {"idle"}
Ends == {"running", "killed", "broken", "uncleaned", "cleaned"}

\* The part of the types that the protocol needs.
LockTypes ==
  /\ pc \in [Procs -> States] /\ key \in [Procs -> Keys]
  /\ seen \in [Procs -> Procs \cup {Nobody}] /\ how \in [Procs -> Ends]
  /\ lock \in Procs \cup {Nobody}

\* Who is past the kill has no predecessor that runs.
Replaced ==
  \A p \in Procs : seen[p] # Nobody /\ pc[p] \in Active \cup {"idle", "writeLock"} =>
                     pc[seen[p]] \in Ended

\* Someone still runs or has ended by itself.
Alive == \E p \in Procs : pc[p] \notin Ended \/ how[p] # "killed"

\* Recorded presses have a process that may yet remove them, or an excuse.
Explained ==
  presses # Nobody =>
    \E p \in Procs : pc[p] \notin Ended \/ how[p] \in {"killed", "broken", "uncleaned"}

\* A process is never its own predecessor: the lock names only those that are
\* past the reading of it.
NotOwn ==
  \A p \in Procs :
    /\ lock = p => pc[p] \notin {"start", "kill"}
    /\ seen[p] # p

LockInv == LockTypes /\ Replaced /\ Alive /\ Explained /\ NotOwn

\* What a step of p does that is neither the reading of the lock, nor the kill,
\* nor the writing of the lock: it goes on, or ends with a reason.
Ordinary(p) ==
  /\ pc[p] \in Active \cup {"idle", "writeLock"}
  /\ UNCHANGED <<key, seen>> /\ lock' \in {lock, Nobody, p}
  /\ pc' \in [Procs -> States] /\ how' \in [Procs -> Ends]
  /\ \A q \in Procs : q # p => pc'[q] = pc[q] /\ how'[q] = how[q]
  /\ pc'[p] \in Active \cup Ended \cup {"idle"}
  /\ \/ pc'[p] \notin Ended /\ UNCHANGED presses
     \/ pc'[p] \notin Ended /\ pc[p] = "append"
     \/ how'[p] \in {"broken", "uncleaned"} /\ UNCHANGED presses
     \/ how'[p] = "cleaned" /\ presses' = Nobody

LEMMA OrdinarySteps ==
  ASSUME LockTypes, NEW p \in Procs, Script(p), ~ReadLock(p), ~Kill(p)
  PROVE  Ordinary(p)
<1> USE DEF LockTypes, States, Starting, Active, Ended, Skipping, Ends, Goto, End,
        files, Ordinary
<1>1. CASE WriteLock(p)
  BY <1>1 DEF WriteLock
<1>2. CASE AppendPress(p)
  BY <1>2 DEF AppendPress
<1>3. CASE Sleep(p)
  BY <1>3 DEF Sleep
<1>4. CASE BackStatus(p)
  BY <1>4 DEF BackStatus
<1>5. CASE Status(p)
  BY <1>5 DEF Status
<1>6. CASE GetPosition(p)
  BY <1>6 DEF GetPosition
<1>7. CASE GetPositionFails(p)
  BY <1>7 DEF GetPositionFails
<1>8. CASE ActBack(p)
  BY <1>8 DEF ActBack
<1>9. CASE ActList(p)
  BY <1>9 DEF ActList
<1>10. CASE ActChapter(p)
  BY <1>10 DEF ActChapter
<1>11. CASE ActSkip(p)
  BY <1>11 DEF ActSkip
<1>12. CASE SeekTo(p)
  BY <1>12 DEF SeekTo
<1>13. CASE SeekReturns(p)
  BY <1>13 DEF SeekReturns
<1>14. CASE CleanLock(p)
  BY <1>14 DEF CleanLock
<1>15. CASE CleanKeys(p)
  BY <1>15 DEF CleanKeys
<1> QED
  BY <1>1, <1>2, <1>3, <1>4, <1>5, <1>6, <1>7, <1>8, <1>9, <1>10, <1>11, <1>12,
     <1>13, <1>14, <1>15 DEF Script

-----------------------------------------------------------------------------
LEMMA LockProtocol == Spec => []LockInv
<1> USE DEF LockInv, LockTypes, Replaced, Alive, Explained, NotOwn, States, Starting,
        Active, Ended, Ends
<1>1. Init => LockInv
  <2>1. PICK p \in Procs : TRUE
    BY ProcsAssumption
  <2> QED
    BY <2>1, NobodyAssumption DEF Init
<1>2. ASSUME LockInv, NEW p \in Procs, ReadLock(p)
      PROVE  LockInv'
  BY <1>2, NobodyAssumption DEF ReadLock, Goto, files
<1>3. ASSUME LockInv, NEW p \in Procs, Kill(p)
      PROVE  LockInv'
  <2>1. pc[p] = "kill" /\ seen[p] # p /\ pc'[p] = "writeLock"
    BY <1>3 DEF Kill, Victims
  <2>2. LockTypes'
    BY <1>3 DEF Kill, files
  <2>3. Replaced'
    <3>1. \A q \in Procs : pc[q] \in Ended => pc'[q] \in Ended
      BY <1>3, <2>1 DEF Kill, Victims
    <3>2. seen[p] # Nobody => pc'[seen[p]] \in Ended
      BY <1>3 DEF Kill, Victims
    <3>3. \A q \in Procs : q # p => pc'[q] \in {pc[q], "dead"}
      BY <1>3 DEF Kill
    <3> QED
      BY <1>3, <3>1, <3>2, <3>3 DEF Kill
  <2>4. Alive' /\ Explained'
    BY <2>1
  <2>5. NotOwn'
    <3>1. \A q \in Procs : q # p => pc'[q] \in {pc[q], "dead"}
      BY <1>3 DEF Kill
    <3> QED
      BY <1>3, <2>1, <3>1 DEF Kill, files
  <2> QED
    BY <2>2, <2>3, <2>4, <2>5
<1>4. ASSUME LockInv, NEW p \in Procs, Script(p), ~ReadLock(p), ~Kill(p)
      PROVE  LockInv'
  <2>1. Ordinary(p)
    BY <1>4, OrdinarySteps
  <2>2. LockTypes'
    BY <1>4, <2>1 DEF Ordinary
  <2>3. Replaced'
    BY <1>4, <2>1 DEF Ordinary
  <2>4. Alive'
    BY <1>4, <2>1 DEF Ordinary
  <2>5. Explained'
    <3>1. CASE pc'[p] \notin Ended \/ how'[p] \in {"broken", "uncleaned"}
      BY <3>1
    <3>2. CASE presses' = Nobody
      BY <3>2
    <3> QED
      BY <2>1, <3>1, <3>2 DEF Ordinary
  <2>6. NotOwn'
    BY <1>4, <2>1, NobodyAssumption DEF Ordinary
  <2> QED
    BY <2>2, <2>3, <2>4, <2>5, <2>6
<1>5. ASSUME LockInv, PlayerSeeks \/ SeekLost \/ PlayerStops \/ UNCHANGED vars
      PROVE  LockInv'
  BY <1>5 DEF PlayerSeeks, SeekLost, PlayerStops, vars, locals, files
<1>6. LockInv /\ [Next]_vars => LockInv'
  BY <1>2, <1>3, <1>4, <1>5 DEF Next, Finished
<1> QED
  BY <1>1, <1>6, PTL DEF Spec

\* A process acts on the player only when the one it found in the lock has
\* ended, however many presses overlap (medianav.sh:90-96).
THEOREM PredecessorSafe == Spec => []PredecessorEnded
<1>1. LockInv => PredecessorEnded
  BY DEF LockInv, Replaced, PredecessorEnded
<1> QED
  BY <1>1, LockProtocol, PTL

\* Presses that stay behind have a process that was killed, broke or took a
\* path without CleanUp (medianav.sh:29-34, 112, 137, 213, 225).
THEOREM PressesSafe == Spec => []LeftPressesExplained
<1>1. LockInv => LeftPressesExplained
  BY DEF LockInv, Explained, LeftPressesExplained
<1> QED
  BY <1>1, LockProtocol, PTL

\* Not all processes end by the kill of another (medianav.sh:93).
THEOREM SurvivorSafe == Spec => []SomeoneSurvives
<1>1. LockInv => SomeoneSurvives
  BY DEF LockInv, Alive, SomeoneSurvives
<1> QED
  BY <1>1, LockProtocol, PTL

-----------------------------------------------------------------------------
(* The throw of the skip keys.                                              *)

LEMMA SkipTyped ==
  /\ Len(SkipTimes) \in Nat /\ DOMAIN SkipTimes = 1 .. Len(SkipTimes)
  /\ \A k \in 1 .. Len(SkipTimes) : SkipTimes[k] \in Nat \ {0}
  /\ \A i, j \in 1 .. Len(SkipTimes) : i < j => SkipTimes[i] < SkipTimes[j]
<1>1. SkipTimes \in Seq(Nat \ {0})
  BY SkipAssumption
<1>2. Len(SkipTimes) \in Nat /\ DOMAIN SkipTimes = 1 .. Len(SkipTimes)
  BY <1>1
<1>3. \A k \in 1 .. Len(SkipTimes) : SkipTimes[k] \in Nat \ {0}
  BY <1>1
<1>4. \A i, j \in DOMAIN SkipTimes : i < j => SkipTimes[i] < SkipTimes[j]
  BY SkipAssumption
<1> QED
  BY <1>2, <1>3, <1>4

\* The loop of ActSkip after m turns, j of which stayed within the media.
StayedIn(c, d, n, m, j) ==
  /\ \A i \in 1 .. j : ~Outside(At(c, n, i), d)
  /\ j < m => Outside(At(c, n, j + 1), d)
Turns(n) == Smaller(Size(n), Len(SkipTimes))
ThrowOf(c, n, j) == IF j = 0 THEN 0 ELSE At(c, n, j)

LEMMA ThrowStops ==
  ASSUME NEW c \in Int, NEW d \in Int, NEW n \in Int
  PROVE  /\ Turns(n) \in Nat
         /\ \E j \in 0 .. Turns(n) :
              StayedIn(c, d, n, Turns(n), j) /\ Throw(c, d, n) = ThrowOf(c, n, j)
<1>0. PICK m : m = Turns(n)
  OBVIOUS
<1> DEFINE
      Turn(r, k) == IF r.broken \/ Outside(At(c, n, k), d)
                    THEN [r EXCEPT !.broken = TRUE]
                    ELSE [new |-> At(c, n, k), broken |-> FALSE]
      zero == [new |-> 0, broken |-> FALSE]
      S == [new : Int, broken : BOOLEAN]
      F == [k \in 1 .. m |-> [r \in S |-> Turn(r, k)]]
      Is(g) == g = [k \in 0 .. Smaller(Size(n), Len(SkipTimes)) |->
                      IF k = 0 THEN [new |-> 0, broken |-> FALSE]
                      ELSE IF g[k - 1].broken \/ Outside(At(c, n, k), d)
                           THEN [g[k - 1] EXCEPT !.broken = TRUE]
                           ELSE [new |-> At(c, n, k), broken |-> FALSE]]
      w == CHOOSE f : Is(f)
      Good(r, k) == /\ r \in S
                    /\ \E j \in 0 .. k :
                         /\ StayedIn(c, d, n, k, j)
                         /\ r.new = ThrowOf(c, n, j) /\ (r.broken <=> j < k)
      T == {k \in 0 .. m : Good(w[k], k)}
<1>1. m \in Nat /\ m <= Len(SkipTimes)
  <2>1. Size(n) \in Nat /\ Len(SkipTimes) \in Nat
    BY SkipTyped DEF Size
  <2>2. m = IF Size(n) < Len(SkipTimes) THEN Size(n) ELSE Len(SkipTimes)
    BY <1>0 DEF Turns, Smaller
  <2> QED
    BY <2>1, <2>2
<1>2. \A k \in 1 .. m : At(c, n, k) \in Int
  BY <1>1, SkipTyped DEF At, Sign
<1>3. \A k \in 1 .. m, r \in S : Turn(r, k) \in S
  <2>1. TAKE k \in 1 .. m, r \in S
  <2>2. [r EXCEPT !.broken = TRUE] \in S
    OBVIOUS
  <2>3. [new |-> At(c, n, k), broken |-> FALSE] \in S
    BY <1>2
  <2> HIDE DEF S
  <2> QED BY <2>2, <2>3
<1>4. F \in [1 .. m -> [S -> S]] /\ zero \in S
  BY <1>3
<1>5. HasRecursion(S, zero, m, F)
  <2> HIDE DEF F, S, zero
  <2> QED BY <1>1, <1>4, RecursionExists
<1>6. PICK g \in [0 .. m -> S] :
        g[0] = zero /\ \A k \in 1 .. m : g[k] = F[k][g[k - 1]]
  BY <1>5 DEF HasRecursion
<1>7. ASSUME NEW k \in 1 .. m
      PROVE  g[k] = Turn(g[k - 1], k)
  <2>1. g[k - 1] \in S /\ g[k] = F[k][g[k - 1]]
    <3> HIDE DEF F, S
    <3> QED BY <1>1, <1>6
  <2>2. F[k] = [r \in S |-> Turn(r, k)]
    <3> HIDE DEF S, Turn
    <3> QED OBVIOUS
  <2> HIDE DEF F, S, Turn
  <2> QED BY <2>1, <2>2
<1>8. Is(g)
  <2>1. g = [k \in 0 .. m |-> IF k = 0 THEN zero ELSE Turn(g[k - 1], k)]
    <3> HIDE DEF Turn, zero, S, F
    <3> QED BY <1>1, <1>6, <1>7
  <2>2. 0 .. m = 0 .. Smaller(Size(n), Len(SkipTimes))
    BY <1>0 DEF Turns
  <2> QED
    BY <2>1, <2>2
<1>9. Is(w)
  <2> HIDE DEF Is
  <2> QED BY <1>8, Zenon
<1> HIDE DEF w
<1>10. w[0] = zero /\ \A k \in 0 .. m - 1 : w[k + 1] = Turn(w[k], k + 1)
  <2>1. w = [k \in 0 .. m |-> IF k = 0 THEN zero ELSE Turn(w[k - 1], k)]
    BY <1>0, <1>9 DEF Turns
  <2> HIDE DEF Turn, zero
  <2> QED BY <1>1, <2>1
<1>11. 0 \in T
  <2>1. StayedIn(c, d, n, 0, 0) /\ ThrowOf(c, n, 0) = 0
    BY DEF StayedIn, ThrowOf
  <2>2. w[0].new = 0 /\ ~w[0].broken /\ w[0] \in S
    BY <1>10
  <2>3. Good(w[0], 0)
    BY <2>1, <2>2
  <2> QED BY <1>1, <2>3
<1>12. ASSUME NEW k \in 0 .. m - 1, k \in T
       PROVE  k + 1 \in T
  <2>1. Good(w[k], k) /\ w[k + 1] = Turn(w[k], k + 1)
    BY <1>10, <1>12
  <2>7. w[k] \in S /\ w[k + 1] \in S
    <3>1. w[k] \in S /\ k + 1 \in 1 .. m
      BY <1>1, <2>1
    <3>2. Turn(w[k], k + 1) \in S
      <4> HIDE DEF Turn, S
      <4> QED BY <1>3, <3>1
    <3> QED BY <2>1, <3>1, <3>2
  <2>2. PICK j \in 0 .. k : /\ StayedIn(c, d, n, k, j)
                            /\ w[k].new = ThrowOf(c, n, j) /\ (w[k].broken <=> j < k)
    BY <2>1
  <2>3. k \in Nat /\ j \in Nat /\ k + 1 \in 0 .. m
    BY <1>1
  <2>4. CASE j < k
    <3>1. w[k].broken
      BY <2>2, <2>4
    <3>2. w[k + 1] = [w[k] EXCEPT !.broken = TRUE]
      BY <2>1, <3>1
    <3>3. w[k + 1].broken /\ w[k + 1].new = ThrowOf(c, n, j)
      BY <2>7, <2>2, <3>2
    <3>4. StayedIn(c, d, n, k + 1, j) /\ j \in 0 .. k + 1 /\ j < k + 1
      BY <2>2, <2>3, <2>4 DEF StayedIn
    <3> QED
      BY <2>3, <2>7, <3>3, <3>4
  <2>5. CASE j = k /\ Outside(At(c, n, k + 1), d)
    <3>1. w[k + 1] = [w[k] EXCEPT !.broken = TRUE]
      BY <2>1, <2>5
    <3>2. w[k + 1].broken /\ w[k + 1].new = ThrowOf(c, n, j)
      BY <2>7, <2>2, <3>1
    <3>3. StayedIn(c, d, n, k + 1, j) /\ j \in 0 .. k + 1 /\ j < k + 1
      BY <2>2, <2>3, <2>5 DEF StayedIn
    <3> QED
      BY <2>3, <2>7, <3>2, <3>3
  <2>6. CASE j = k /\ ~Outside(At(c, n, k + 1), d)
    <3>1. ~w[k].broken
      BY <2>2, <2>3, <2>6
    <3>2. w[k + 1] = [new |-> At(c, n, k + 1), broken |-> FALSE]
      BY <2>1, <2>6, <3>1
    <3>3. w[k + 1].new = ThrowOf(c, n, k + 1) /\ ~w[k + 1].broken
      BY <2>3, <3>2 DEF ThrowOf
    <3>4. StayedIn(c, d, n, k + 1, k + 1) /\ k + 1 \in 0 .. k + 1 /\ ~(k + 1 < k + 1)
      BY <2>2, <2>3, <2>6 DEF StayedIn
    <3> QED
      BY <2>3, <2>7, <3>3, <3>4
  <2> QED
    BY <2>3, <2>4, <2>5, <2>6
<1>13. Good(w[m], m)
  <2>1. \A k \in 0 .. m : k \in T
    <3> HIDE DEF T
    <3> QED BY <1>1, <1>11, <1>12, Upward
  <2> HIDE DEF Good
  <2> QED BY <1>1, <2>1
<1>14. Throw(c, d, n) = w[m].new
  BY <1>0, Zenon DEF Throw, w, Turns
<1>15. PICK j \in 0 .. m : StayedIn(c, d, n, m, j) /\ w[m].new = ThrowOf(c, n, j)
  BY <1>13
<1> QED
  BY <1>0, <1>1, <1>14, <1>15

\* The skips that stay within the media, of those the presses ask for.
FittingSkips(c, d, n) ==
  {k \in DOMAIN SkipTimes : k <= Size(n) /\ ~Outside(At(c, n, k), d)}
IsLargest(t, c, d, n) ==
  IF FittingSkips(c, d, n) = {} THEN t = 0
  ELSE \E k \in FittingSkips(c, d, n) : /\ \A j \in FittingSkips(c, d, n) : j <= k
                                   /\ t = At(c, n, k)

\* If a skip leaves the media, so does every longer one.
LEMMA LongerIsOutside ==
  ASSUME NEW c \in Nat, NEW d \in Nat, c <= d, NEW n \in Int, n # 0,
         NEW i \in 1 .. Len(SkipTimes), NEW k \in i .. Len(SkipTimes),
         Outside(At(c, n, i), d)
  PROVE  Outside(At(c, n, k), d)
<1>1. i \in Nat /\ k \in 1 .. Len(SkipTimes) /\ Len(SkipTimes) \in Nat
  BY SkipTyped
<1>2. SkipTimes[i] \in Nat \ {0} /\ SkipTimes[k] \in Nat \ {0}
  BY <1>1, SkipTyped
<1>3. SkipTimes[i] <= SkipTimes[k]
  <2>1. i < k => SkipTimes[i] < SkipTimes[k]
    BY <1>1, SkipTyped
  <2>2. i = k \/ i < k
    BY <1>1
  <2> QED
    BY <1>2, <2>1, <2>2
<1> DEFINE a == SkipTimes[i]
           b == SkipTimes[k]
<1>4. a \in Nat \ {0} /\ b \in Nat \ {0} /\ a <= b
  BY <1>2, <1>3
<1>5. At(c, n, i) = (IF n > 0 THEN c + a ELSE c - a) /\ At(c, n, k) = (IF n > 0 THEN c + b ELSE c - b)
  <2>1. Sign(n) = IF n > 0 THEN 1 ELSE -1
    BY DEF Sign
  <2>2. At(c, n, i) = c + Sign(n) * a /\ At(c, n, k) = c + Sign(n) * b
    BY DEF At
  <2> HIDE DEF a, b
  <2> QED
    BY <1>4, <2>1, <2>2
<1> HIDE DEF a, b
<1> QED
  BY <1>4, <1>5 DEF Outside

LEMMA ThrowIsLargest ==
  ASSUME NEW c \in Nat, NEW d \in Nat, c <= d, NEW n \in Int
  PROVE  Throw(c, d, n) \in 0 .. d /\ IsLargest(Throw(c, d, n), c, d, n)
<1>0. PICK m : m = Turns(n)
  OBVIOUS
<1>1. /\ m \in Nat
      /\ \E j \in 0 .. m : StayedIn(c, d, n, m, j) /\ Throw(c, d, n) = ThrowOf(c, n, j)
  <2>1. c \in Int /\ d \in Int
    OBVIOUS
  <2> QED BY <1>0, <2>1, ThrowStops, Zenon
<1>2. PICK j \in 0 .. m : StayedIn(c, d, n, m, j) /\ Throw(c, d, n) = ThrowOf(c, n, j)
  BY <1>1
<1>3. /\ Len(SkipTimes) \in Nat /\ Size(n) \in Nat
      /\ \A k \in Nat : k <= m <=> k <= Size(n) /\ k <= Len(SkipTimes)
  <2>1. Len(SkipTimes) \in Nat /\ Size(n) \in Nat
    BY SkipTyped DEF Size
  <2>2. m = IF Size(n) < Len(SkipTimes) THEN Size(n) ELSE Len(SkipTimes)
    BY <1>0 DEF Turns, Smaller
  <2> QED
    BY <2>1, <2>2
<1>4. j \in Nat /\ j <= m
  BY <1>1
<1>5. \A i \in 1 .. j : i \in FittingSkips(c, d, n)
  BY <1>2, <1>3, <1>4, SkipTyped DEF FittingSkips, StayedIn
<1>6. \A k \in FittingSkips(c, d, n) : k \in Nat /\ k >= 1 /\ k <= j
  <2>1. SUFFICES ASSUME NEW k \in FittingSkips(c, d, n), ~(k <= j) PROVE FALSE
    BY SkipTyped DEF FittingSkips
  <2>2. k \in 1 .. Len(SkipTimes) /\ k <= Size(n) /\ ~Outside(At(c, n, k), d)
    BY SkipTyped DEF FittingSkips
  <2>3. k \in Nat /\ k <= m /\ j < m /\ j + 1 <= k
    BY <1>1, <1>3, <1>4, <2>1, <2>2
  <2>4. Outside(At(c, n, j + 1), d)
    BY <1>2, <2>3 DEF StayedIn
  <2>5. n # 0
    BY <2>2, SkipTyped DEF Size
  <2>6. j + 1 \in 1 .. Len(SkipTimes) /\ k \in j + 1 .. Len(SkipTimes)
    BY <1>3, <1>4, <2>2, <2>3
  <2> QED
    BY <2>2, <2>4, <2>5, <2>6, LongerIsOutside
<1>7. CASE j = 0
  <2>1. Throw(c, d, n) = 0
    BY <1>2, <1>7 DEF ThrowOf
  <2>2. FittingSkips(c, d, n) = {}
    BY <1>6, <1>7
  <2> QED
    BY <2>1, <2>2 DEF IsLargest
<1>8. CASE j # 0
  <2>1. Throw(c, d, n) = At(c, n, j)
    BY <1>2, <1>8 DEF ThrowOf
  <2>2. j \in FittingSkips(c, d, n)
    BY <1>4, <1>5, <1>8
  <2>3. IsLargest(Throw(c, d, n), c, d, n)
    BY <1>6, <2>1, <2>2 DEF IsLargest
  <2>4. At(c, n, j) \in Int /\ ~Outside(At(c, n, j), d)
    BY <2>2, SkipTyped DEF FittingSkips, At, Sign
  <2>5. At(c, n, j) \in 0 .. d
    BY <2>4 DEF Outside
  <2> QED
    BY <2>1, <2>3, <2>5
<1> QED
  BY <1>7, <1>8

-----------------------------------------------------------------------------
(* The chapters.                                                            *)

Marks == Seq(0 .. Duration)

\* Two marks one after the other are at least the laxity apart: what PREV
\* takes for granted when it skips over one (lines 217-220), and what nothing
\* checks when the chapter file is read.
SpacedChapters ==
  \A file \in ChapterFiles \ {Nobody} :
    \A i \in 1 .. Len(file) - 1 : file[i] + Laxity <= file[i + 1]

\* Where the loop of lines 191-203 stops.
StopsAt(k, c) ==
  /\ k \in 1 .. Len(chapters) + 1
  /\ k <= Len(chapters) => chapters[k] > c
  /\ \A j \in 1 .. k - 1 : chapters[j] <= c

LEMMA MarksTyped ==
  ASSUME NEW file \in Marks
  PROVE  /\ Len(file) \in Nat /\ DOMAIN file = 1 .. Len(file)
         /\ \A i \in 1 .. Len(file) : file[i] \in 0 .. Duration
<1> DEFINE R == 0 .. Duration
<1>1. file \in Seq(R)
  BY DEF Marks
<1> HIDE DEF R
<1>2. Len(file) \in Nat /\ DOMAIN file = 1 .. Len(file)
  BY <1>1
<1>3. \A i \in 1 .. Len(file) : file[i] \in R
  BY <1>1, <1>2
<1> QED
  BY <1>2, <1>3 DEF R

LEMMA NextIndexStops ==
  ASSUME chapters \in Marks, NEW c \in Nat
  PROVE  StopsAt(NextIndex(c), c)
<1> DEFINE n == Len(chapters)
           T == {k \in 1 .. n + 1 : k <= n => chapters[k] > c}
<1>1. n \in Nat /\ \A k \in 1 .. n : chapters[k] \in 0 .. Duration
  BY MarksTyped
<1>2. T \in SUBSET Nat /\ n + 1 \in T
  BY <1>1
<1>3. PICK k \in T : \A j \in T : k <= j
  <2> HIDE DEF T
  <2> QED BY <1>2, Smallest
<1>4. ASSUME NEW j \in 1 .. k - 1
      PROVE  chapters[j] <= c
  <2>1. j \in 1 .. n /\ j < k
    BY <1>1
  <2>2. j \notin T
    BY <1>3, <2>1
  <2> QED
    BY <1>1, <2>1, <2>2, SkipAssumption
<1>5. StopsAt(k, c)
  BY <1>1, <1>4 DEF StopsAt
<1>6. NextIndex(c) = CHOOSE x : StopsAt(x, c)
  BY Zenon DEF NextIndex, StopsAt
<1> QED
  BY <1>5, <1>6, Zenon

LEMMA ChapterTargets ==
  ASSUME chapters \in Marks, chapters # Nobody, NEW c \in Nat, NEW key0 \in {"NEXT", "PREV"},
         NEW t, t = ChapterTarget(key0, c), t # Nobody, t # 0
  PROVE  /\ t \in 0 .. Duration
         /\ \E i \in DOMAIN chapters : chapters[i] = t
         /\ key0 = "NEXT" => t > c
         /\ key0 = "PREV" /\ SpacedChapters /\ chapters \in ChapterFiles => t + Laxity <= c
<1> DEFINE n == Len(chapters)
           k == NextIndex(c)
<1>1. n \in Nat /\ DOMAIN chapters = 1 .. n /\ \A i \in 1 .. n : chapters[i] \in 0 .. Duration
  BY MarksTyped
<1>2. /\ k \in 1 .. n + 1 /\ (k <= n => chapters[k] > c)
      /\ \A j \in 1 .. k - 1 : chapters[j] <= c
  BY NextIndexStops DEF StopsAt
<1>3. Laxity \in Nat /\ Duration \in Nat
  BY SkipAssumption
<1>4. /\ ChNext(c) = IF k <= n THEN chapters[k] ELSE 0
      /\ ChPrev(c) = IF k > 1 THEN chapters[k - 1] ELSE 0
      /\ ChPrevPrev(c) = IF k > 2 THEN chapters[k - 2] ELSE IF k = 2 THEN 0 ELSE Nobody
  BY DEF ChNext, ChPrev, ChPrevPrev
<1> HIDE DEF n, k
<1>5. CASE key0 = "NEXT"
  <2>1. k \in 1 .. n /\ t = chapters[k]
    BY <1>1, <1>2, <1>4, <1>5 DEF ChapterTarget
  <2> QED
    BY <1>1, <1>2, <1>5, <2>1
<1>6. CASE key0 = "PREV" /\ ~(ChPrev(c) + Laxity > c)
  <2>1. k - 1 \in 1 .. n /\ t = chapters[k - 1] /\ ~(t + Laxity > c)
    BY <1>1, <1>2, <1>4, <1>6 DEF ChapterTarget
  <2> QED
    BY <1>1, <1>3, <1>6, <2>1
<1>7. CASE key0 = "PREV" /\ ChPrev(c) + Laxity > c
  <2>1. k - 2 \in 1 .. n - 1 /\ k - 1 \in 1 .. n /\ t = chapters[k - 2]
    BY <1>1, <1>2, <1>4, <1>7 DEF ChapterTarget
  <2>2. chapters[k - 1] <= c /\ chapters[k - 1] \in Nat /\ t \in Nat /\ t \in 0 .. Duration
    BY <1>1, <1>2, <1>3, <2>1
  <2>3. ASSUME SpacedChapters, chapters \in ChapterFiles
        PROVE  t + Laxity <= c
    <3>1. \A i \in 1 .. n - 1 : chapters[i] + Laxity <= chapters[i + 1]
      BY <2>3 DEF SpacedChapters, n
    <3>2. (k - 2) + 1 = k - 1
      BY <1>2
    <3>3. t + Laxity <= chapters[k - 1]
      BY <2>1, <3>1, <3>2
    <3> QED
      BY <1>3, <2>2, <3>3
  <2> QED
    BY <1>1, <1>7, <2>1, <2>2, <2>3
<1> QED
  BY <1>5, <1>6, <1>7

-----------------------------------------------------------------------------
(* What a process seeks to is what it has computed from what it had read.   *)

SkipsFirst == \A p \in Procs : pc[p] = "append" => key[p] \in Skipping
PositionsFit == \A p \in Procs : cur[p] <= dur[p]
Thrown ==
  \A p \in Procs : pc[p] = "seek" /\ key[p] \in Skipping =>
                     IsLargest(target[p], cur[p], dur[p], steps[p])
Chosen ==
  \A p \in Procs : pc[p] = "seek" /\ key[p] \in {"NEXT", "PREV"} =>
    /\ \E i \in DOMAIN chapters : chapters[i] = target[p]
    /\ key[p] = "NEXT" => target[p] > cur[p]
    /\ key[p] = "PREV" /\ SpacedChapters => target[p] + Laxity <= cur[p]

\* Who has counted its presses is past the loop over the table, and either broke
\* off there or did not run off the table.
Late == {"seek", "seeking", "cleanLock", "cleanKeys"} \cup Ended
Counted ==
  \A p \in Procs :
    /\ pc[p] \notin Late => steps[p] = 0
    /\ how[p] = "broken" => pc[p] \in Ended
    /\ how[p] = "broken" /\ steps[p] # 0 => RunsOff(cur[p], dur[p], steps[p])
    /\ pc[p] = "seek" /\ key[p] \in Skipping => ~RunsOff(cur[p], dur[p], steps[p])
Moves == SkipsFirst /\ PositionsFit /\ Thrown /\ Chosen /\ Counted
SeekInv == TypeOK /\ chapters \in ChapterFiles /\ Moves

\* A step after which no process is nearer to a seek than it was.
Quiet ==
  /\ UNCHANGED <<key, cur, dur, steps, target, chapters>>
  /\ \A q \in Procs : pc'[q] \in {"seek", "append"} =>
                        pc'[q] = pc[q] \/ (pc'[q] = "append" /\ key[q] \in Skipping)
  /\ \A q \in Procs : /\ pc[q] \in Late => pc'[q] \in Late
                      /\ pc[q] \in Ended => pc'[q] \in Ended
                      /\ how'[q] = "broken" =>
                           how[q] = "broken" \/ (pc[q] \notin Late /\ pc'[q] \in Ended)

LEMMA QuietSteps ==
  ASSUME SeekInv, Quiet
  PROVE  Moves'
<1>1. SkipsFirst'
  BY DEF SeekInv, Moves, SkipsFirst, Quiet
<1>2. PositionsFit'
  BY DEF SeekInv, Moves, PositionsFit, Quiet
<1>3. Thrown'
  BY DEF SeekInv, Moves, Thrown, Quiet
<1>4. Chosen'
  BY DEF SeekInv, Moves, Chosen, Quiet
<1>5. Counted'
  BY DEF SeekInv, Moves, Counted, Quiet
<1> QED
  BY <1>1, <1>2, <1>3, <1>4, <1>5 DEF Moves

LEMMA NetTyped ==
  ASSUME NEW s \in Seq(Skipping) \cup {Nobody}
  PROVE  Net(s) \in Int
<1>1. CASE s = Nobody
  BY <1>1 DEF Net
<1>2. CASE s # Nobody
  <2>1. s \in Seq(Skipping)
    BY <1>2
  <2>2. Len(s) \in Nat /\ DOMAIN s = 1 .. Len(s)
    BY <2>1
  <2>3. IsFiniteSet(DOMAIN s)
    BY <2>2, FS_Interval
  <2> DEFINE fs == {i \in DOMAIN s : s[i] = "FWD"}
             rs == {i \in DOMAIN s : s[i] = "REW"}
  <2>4. fs \subseteq DOMAIN s /\ rs \subseteq DOMAIN s
    OBVIOUS
  <2>5. Net(s) = Cardinality(fs) - Cardinality(rs)
    BY <1>2 DEF Net
  <2> HIDE DEF fs, rs
  <2>6. Cardinality(fs) \in Nat /\ Cardinality(rs) \in Nat
    BY <2>3, <2>4, FS_Subset, FS_CardinalityType
  <2> QED
    BY <2>5, <2>6
<1> QED
  BY <1>1, <1>2

LEMMA SeekTargets == Spec => []SeekInv
<1> USE DEF SeekInv, TypeOK, Times, Starting, Active, Ended
<1>1. Init => SeekInv
  <2> SUFFICES ASSUME Init PROVE SeekInv
    OBVIOUS
  <2>1. TypeOK
    BY SkipAssumption, StartAssumption, PressesAssumption DEF Init, Skipping
  <2>2. Moves
    BY DEF Init, Moves, SkipsFirst, PositionsFit, Thrown, Chosen, Counted
  <2> QED
    BY <2>1, <2>2 DEF Init
<1>2. ASSUME SeekInv, NEW p \in Procs, ReadLock(p)
      PROVE  SeekInv'
  <2>1. Quiet
    BY <1>2 DEF ReadLock, Goto, Quiet, Late
  <2>2. TypeOK' /\ UNCHANGED chapters
    BY <1>2 DEF ReadLock, Goto, files, player
  <2> QED
    BY <1>2, <2>1, <2>2, QuietSteps
<1>3. ASSUME SeekInv, NEW p \in Procs, Kill(p)
      PROVE  SeekInv'
  <2>1. Quiet
    BY <1>3 DEF Kill, Quiet, Late
  <2>2. TypeOK' /\ UNCHANGED chapters
    BY <1>3 DEF Kill, files, player
  <2> QED
    BY <1>3, <2>1, <2>2, QuietSteps
<1>4. ASSUME SeekInv, NEW p \in Procs, WriteLock(p) \/ Sleep(p)
      PROVE  SeekInv'
  <2>1. Quiet
    BY <1>4 DEF WriteLock, Sleep, Goto, Quiet, Late
  <2>2. TypeOK' /\ UNCHANGED chapters
    BY <1>4 DEF WriteLock, Sleep, Goto, files, player
  <2> QED
    BY <1>4, <2>1, <2>2, QuietSteps
<1>5. ASSUME SeekInv, NEW p \in Procs, AppendPress(p)
      PROVE  SeekInv'
  <2>1. Quiet
    BY <1>5 DEF AppendPress, Goto, Quiet, Late
  <2>2. key[p] \in Skipping
    BY <1>5 DEF AppendPress, Moves, SkipsFirst
  <2>3. presses' \in Seq(Skipping)
    BY <1>5, <2>2 DEF AppendPress
  <2>4. TypeOK' /\ UNCHANGED chapters
    BY <1>5, <2>3 DEF AppendPress, Goto, player
  <2> QED
    BY <1>5, <2>1, <2>4, QuietSteps
<1>6. ASSUME SeekInv, NEW p \in Procs, BackStatus(p) \/ Status(p)
      PROVE  SeekInv'
  <2>1. Quiet
    BY <1>6 DEF BackStatus, Status, Goto, End, Quiet, Late
  <2>2. TypeOK' /\ UNCHANGED chapters
    BY <1>6 DEF BackStatus, Status, Goto, End, files, player
  <2> QED
    BY <1>6, <2>1, <2>2, QuietSteps
<1>7. ASSUME SeekInv, NEW p \in Procs, GetPosition(p)
      PROVE  SeekInv'
  <2>1. PICK d \in {Duration, pos} : dur' = [dur EXCEPT ![p] = d]
    BY <1>7 DEF GetPosition
  <2>2. d \in Times /\ pos \in Times /\ pos <= d
    <3>1. pos \in Times
      BY <1>7 DEF TypeOK
    <3>2. pos \in Nat /\ pos <= Duration /\ Duration \in Nat
      BY <3>1, SkipAssumption DEF Times
    <3>3. d = Duration \/ d = pos
      BY <2>1
    <3> QED
      BY <3>1, <3>2, <3>3 DEF Times
  <2>3. /\ UNCHANGED <<key, steps, target, chapters>> /\ cur' = [cur EXCEPT ![p] = pos]
        /\ \A q \in Procs : q # p => pc'[q] = pc[q] /\ cur'[q] = cur[q] /\ dur'[q] = dur[q]
        /\ pc'[p] \notin {"seek", "append"}
    BY <1>7, <2>1 DEF GetPosition, Goto, End
  <2>4. TypeOK'
    <3>1. cur' \in [Procs -> Times] /\ dur' \in [Procs -> Times]
      <4>1. cur \in [Procs -> Times] /\ dur \in [Procs -> Times]
        BY <1>7 DEF TypeOK
      <4>2. cur' = [cur EXCEPT ![p] = pos]
        BY <1>7 DEF GetPosition
      <4> QED
        BY <2>1, <2>2, <4>1, <4>2
    <3>2. /\ pc' \in [Procs -> Starting \cup Active \cup Ended \cup {"idle"}]
          /\ how' \in [Procs -> {"running", "killed", "broken", "uncleaned", "cleaned"}]
      <4>1. \E l \in {"act", "done"} : pc' = [pc EXCEPT ![p] = l]
        BY <1>7 DEF GetPosition, Goto, End
      <4>2. how' = how \/ how' = [how EXCEPT ![p] = "uncleaned"]
        BY <1>7 DEF GetPosition, End
      <4>3. pc' \in [Procs -> Starting \cup Active \cup Ended \cup {"idle"}]
        BY <1>7, <4>1 DEF Active, Ended
      <4>4. how' \in [Procs -> {"running", "killed", "broken", "uncleaned", "cleaned"}]
        BY <1>7, <4>2
      <4> QED
        BY <4>3, <4>4
    <3>3. UNCHANGED <<key, seen, steps, target, files, chapters, player>>
      BY <1>7 DEF GetPosition
    <3> QED
      BY <1>7, <3>1, <3>2, <3>3 DEF files, player
  <2>5. SkipsFirst'
    BY <1>7, <2>3 DEF Moves, SkipsFirst
  <2>6. PositionsFit'
    BY <1>7, <2>1, <2>2, <2>3 DEF Moves, PositionsFit
  <2>7. Thrown'
    BY <1>7, <2>3 DEF Moves, Thrown
  <2>8. Chosen'
    BY <1>7, <2>3 DEF Moves, Chosen
  <2>9. Counted'
    <3>1. /\ pc[p] \notin Late /\ \A q \in Procs : q # p => how'[q] = how[q]
          /\ how[p] # "broken" /\ how'[p] # "broken"
      BY <1>7 DEF GetPosition, End, Late, Moves, Counted
    <3>2. steps[p] = 0 /\ steps' = steps /\ key' = key
      BY <1>7, <2>3, <3>1 DEF Moves, Counted
    <3> QED
      BY <1>7, <2>3, <3>1, <3>2 DEF Moves, Counted
  <2> QED
    BY <1>7, <2>3, <2>4, <2>5, <2>6, <2>7, <2>8, <2>9 DEF Moves
<1>8. ASSUME SeekInv, NEW p \in Procs, GetPositionFails(p) \/ ActList(p)
      PROVE  SeekInv'
  <2>1. Quiet
    BY <1>8 DEF GetPositionFails, ActList, Goto, End, Quiet, Late
  <2>2. TypeOK' /\ UNCHANGED chapters
    BY <1>8 DEF GetPositionFails, ActList, Goto, End, files, player
  <2> QED
    BY <1>8, <2>1, <2>2, QuietSteps
<1>9. ASSUME SeekInv, NEW p \in Procs, ActBack(p)
      PROVE  SeekInv'
  <2>1. TypeOK' /\ UNCHANGED chapters
    BY <1>9 DEF ActBack, Goto, files, player
  <2>2. SkipsFirst' /\ PositionsFit'
    BY <1>9 DEF ActBack, Goto, Moves, SkipsFirst, PositionsFit
  <2>3. Thrown'
    BY <1>9 DEF ActBack, Goto, Moves, Thrown, Skipping
  <2>4. Chosen'
    BY <1>9 DEF ActBack, Goto, Moves, Chosen
  <2>5. Counted'
    BY <1>9 DEF ActBack, Goto, Moves, Counted, Late, Skipping
  <2> QED
    BY <1>9, <2>1, <2>2, <2>3, <2>4, <2>5 DEF Moves
<1>10. ASSUME SeekInv, NEW p \in Procs, ActChapter(p)
       PROVE  SeekInv'
  <2> DEFINE t == ChapterTarget(key[p], cur[p])
  <2>1. CASE UNCHANGED target /\ (Goto(p, "cleanLock") \/ Goto(p, "done"))
    <3>1. Quiet
      <4>1. UNCHANGED <<key, cur, dur, steps, chapters>> /\ UNCHANGED target
        BY <1>10, <2>1 DEF ActChapter
      <4>2. \E l \in {"cleanLock", "done"} : pc' = [pc EXCEPT ![p] = l]
        BY <2>1 DEF Goto
      <4>3. /\ pc[p] = "act"
            /\ \A q \in Procs : how'[q] = "broken" =>
                                  how[q] = "broken" \/ (q = p /\ pc'[p] = "done")
        BY <1>10, <2>1 DEF ActChapter, End, Goto
      <4> QED
        BY <4>1, <4>2, <4>3, <1>10 DEF Quiet, Late
    <3>2. TypeOK' /\ UNCHANGED chapters
      <4>1. /\ UNCHANGED <<key, seen, cur, dur, steps, files, chapters, player>>
            /\ UNCHANGED target
        BY <1>10, <2>1 DEF ActChapter
      <4>2. pc' \in [Procs -> Starting \cup Active \cup Ended \cup {"idle"}]
        BY <1>10, <2>1 DEF Goto, Active, Ended
      <4>3. how' \in [Procs -> {"running", "killed", "broken", "uncleaned", "cleaned"}]
        BY <1>10, <2>1 DEF ActChapter, Goto, End
      <4> QED
        BY <1>10, <4>1, <4>2, <4>3 DEF files, player
    <3> QED
      BY <1>10, <3>1, <3>2, QuietSteps
  <2>2. CASE /\ chapters # Nobody /\ t # Nobody /\ t # 0
             /\ target' = [target EXCEPT ![p] = t] /\ Goto(p, "seek") /\ UNCHANGED how
    <3>1. chapters \in Marks /\ cur[p] \in Nat /\ key[p] \in {"NEXT", "PREV"}
      BY <1>10, <2>2, ChaptersAssumption, SkipAssumption DEF ActChapter, Marks
    <3>2. /\ t \in Times
          /\ \E i \in DOMAIN chapters : chapters[i] = t
          /\ key[p] = "NEXT" => t > cur[p]
          /\ key[p] = "PREV" /\ SpacedChapters => t + Laxity <= cur[p]
      BY <1>10, <2>2, <3>1, ChapterTargets
    <3> HIDE DEF t
    <3>3. UNCHANGED <<key, seen, cur, dur, steps, files, chapters, player>>
      BY <1>10 DEF ActChapter
    <3>4. TypeOK'
      BY <1>10, <2>2, <3>2, <3>3 DEF Goto, files, player
    <3>5. SkipsFirst' /\ PositionsFit'
      BY <1>10, <2>2, <3>3 DEF Goto, Moves, SkipsFirst, PositionsFit
    <3>6. Thrown'
      BY <1>10, <2>2, <3>1, <3>3 DEF Goto, Moves, Thrown, Skipping
    <3>7. Chosen'
      BY <1>10, <2>2, <3>2, <3>3 DEF Goto, Moves, Chosen
    <3>8. Counted'
      <4>1. pc[p] = "act" /\ how[p] # "broken"
        BY <1>10 DEF ActChapter, Moves, Counted
      <4> QED
        BY <1>10, <2>2, <3>1, <3>3, <4>1 DEF Goto, Moves, Counted, Late, Skipping
    <3> QED
      BY <1>10, <3>3, <3>4, <3>5, <3>6, <3>7, <3>8 DEF Moves
  <2> QED
    BY <1>10, <2>1, <2>2 DEF ActChapter, End
<1>11. ASSUME SeekInv, NEW p \in Procs, ActSkip(p)
       PROVE  SeekInv'
  <2> DEFINE n == Net(presses)
             t == Throw(cur[p], dur[p], n)
  <2>1. n \in Int
    BY <1>11, NetTyped
  <2> HIDE DEF n
  <2>2. cur[p] \in Nat /\ dur[p] \in Nat /\ cur[p] <= dur[p] /\ dur[p] <= Duration
    BY <1>11, SkipAssumption DEF Moves, PositionsFit
  <2>3. t \in 0 .. dur[p] /\ IsLargest(t, cur[p], dur[p], n)
    BY <2>1, <2>2, ThrowIsLargest
  <2>4. /\ steps' = [steps EXCEPT ![p] = n] /\ key[p] \in Skipping /\ pc[p] = "act"
        /\ UNCHANGED <<key, seen, cur, dur, files, chapters, player>>
    BY <1>11 DEF ActSkip, n
  <2>5. CASE RunsOff(cur[p], dur[p], n)
    <3>1. /\ pc' = [pc EXCEPT ![p] = "done"] /\ how' = [how EXCEPT ![p] = "broken"]
          /\ UNCHANGED target
      BY <1>11, <2>5 DEF ActSkip, Goto, End, n
    <3>2. TypeOK'
      BY <1>11, <2>1, <2>4, <3>1 DEF files, player
    <3>3. SkipsFirst' /\ PositionsFit'
      BY <1>11, <2>4, <3>1 DEF Moves, SkipsFirst, PositionsFit
    <3>4. Thrown' /\ Chosen'
      BY <1>11, <2>4, <3>1 DEF Moves, Thrown, Chosen
    <3>5. Counted'
      BY <1>11, <2>4, <2>5, <3>1 DEF Moves, Counted, Late
    <3> QED
      BY <1>11, <2>4, <3>2, <3>3, <3>4, <3>5 DEF Moves
  <2>6. CASE ~RunsOff(cur[p], dur[p], n)
    <3>1. /\ target' = [target EXCEPT ![p] = t] /\ pc' = [pc EXCEPT ![p] = "seek"]
          /\ UNCHANGED how
      BY <1>11, <2>6 DEF ActSkip, Goto, n
    <3> HIDE DEF t
    <3>2. t \in Times
      BY <2>2, <2>3, SkipAssumption
    <3>3. TypeOK'
      BY <1>11, <2>1, <2>4, <3>1, <3>2 DEF files, player
    <3>4. SkipsFirst' /\ PositionsFit'
      BY <1>11, <2>4, <3>1 DEF Moves, SkipsFirst, PositionsFit
    <3>5. Thrown'
      BY <1>11, <2>3, <2>4, <3>1 DEF Moves, Thrown
    <3>6. Chosen'
      BY <1>11, <2>4, <3>1 DEF Moves, Chosen, Skipping
    <3>7. Counted'
      BY <1>11, <2>4, <2>6, <3>1 DEF Moves, Counted, Late
    <3> QED
      BY <1>11, <2>4, <3>3, <3>4, <3>5, <3>6, <3>7 DEF Moves
  <2> QED
    BY <2>5, <2>6
<1>12. ASSUME SeekInv, NEW p \in Procs, SeekTo(p) \/ SeekReturns(p)
       PROVE  SeekInv'
  <2>1. Quiet
    BY <1>12 DEF SeekTo, SeekReturns, Goto, End, Quiet, Late
  <2>2. TypeOK' /\ UNCHANGED chapters
    <3>1. CASE SeekTo(p)
      <4>1. target[p] \in Times
        BY <1>12
      <4>2. seeks' \subseteq Procs \X Times
        BY <1>12, <3>1, <4>1 DEF SeekTo
      <4> QED
        BY <1>12, <3>1, <4>2 DEF SeekTo, Goto, files
    <3>2. CASE SeekReturns(p)
      BY <1>12, <3>2 DEF SeekReturns, Goto, End, files, player
    <3> QED
      BY <1>12, <3>1, <3>2
  <2> QED
    BY <1>12, <2>1, <2>2, QuietSteps
<1>13. ASSUME SeekInv, NEW p \in Procs, CleanLock(p) \/ CleanKeys(p)
       PROVE  SeekInv'
  <2>1. Quiet
    BY <1>13 DEF CleanLock, CleanKeys, Goto, End, Quiet, Late
  <2>2. TypeOK' /\ UNCHANGED chapters
    BY <1>13 DEF CleanLock, CleanKeys, Goto, End, files, player
  <2> QED
    BY <1>13, <2>1, <2>2, QuietSteps
<1>14. ASSUME SeekInv, PlayerSeeks \/ SeekLost \/ PlayerStops \/ UNCHANGED vars
       PROVE  SeekInv'
  <2>1. Quiet
    BY <1>14 DEF PlayerSeeks, SeekLost, PlayerStops, vars, locals, Quiet, Late
  <2>2. TypeOK' /\ UNCHANGED chapters
    BY <1>14 DEF PlayerSeeks, SeekLost, PlayerStops, vars, locals, files, player
  <2> QED
    BY <1>14, <2>1, <2>2, QuietSteps
<1>15. SeekInv /\ [Next]_vars => SeekInv'
  BY <1>2, <1>3, <1>4, <1>5, <1>6, <1>7, <1>8, <1>9, <1>10, <1>11, <1>12, <1>13,
     <1>14, Zenon DEF Next, Script, Finished
<1> QED
  BY <1>1, <1>15, PTL DEF Spec

\* All times are within the media: what is read, what is computed and what the
\* player is told (medianav.sh:58-68, 243-276).
THEOREM TypesHold == Spec => []TypeOK
<1>1. SeekInv => TypeOK
  BY DEF SeekInv
<1> QED
  BY <1>1, SeekTargets, PTL

\* The loop finds the largest throw: the longest of the skips asked for before
\* the first that leaves the media is the longest that stays in it; and it breaks
\* off exactly if it runs behind the end of the table before it leaves the media,
\* for any table of growing skip times and any number of presses
\* (medianav.sh:262-276).
THEOREM ThrowSafe == Spec => []LargestThrow
<1>1. SeekInv => LargestThrow
  <2> SUFFICES ASSUME SeekInv PROVE LargestThrow
    OBVIOUS
  <2>1. ASSUME NEW p \in Procs
        PROVE  /\ Fitting(p) = FittingSkips(cur[p], dur[p], steps[p])
               /\ AsksForMore(p) <=> RunsOff(cur[p], dur[p], steps[p])
    <3>1. Fitting(p) = FittingSkips(cur[p], dur[p], steps[p])
      BY DEF Fitting, FittingSkips
    <3>2. Size(steps[p]) \in Nat
      BY DEF SeekInv, TypeOK, Size
    <3>3. Size(steps[p]) > Len(SkipTimes) => \A k \in DOMAIN SkipTimes : k <= Size(steps[p])
      BY <3>2, SkipTyped
    <3>4. CASE Size(steps[p]) > Len(SkipTimes)
      <4>1. Fitting(p) = {k \in DOMAIN SkipTimes : ~Outside(At(cur[p], steps[p], k), dur[p])}
        BY <3>3, <3>4 DEF Fitting
      <4>2. Fitting(p) = DOMAIN SkipTimes
              <=> \A k \in DOMAIN SkipTimes : ~Outside(At(cur[p], steps[p], k), dur[p])
        BY <4>1, Zenon
      <4> QED
        BY <3>1, <3>4, <4>2 DEF AsksForMore, RunsOff
    <3> QED
      BY <3>1, <3>4 DEF AsksForMore, RunsOff
  <2> QED
    BY <2>1 DEF SeekInv, Moves, Thrown, Counted, LargestThrow, IsLargest
<1> QED
  BY <1>1, SeekTargets, PTL

\* NEXT and PREV move on, for any chapter file whose marks are no closer than
\* the laxity (medianav.sh:191-228).
THEOREM ChapterSafe == SpacedChapters => (Spec => []ChapterProgress)
<1>1. SpacedChapters /\ SeekInv => ChapterProgress
  BY DEF SeekInv, Moves, Chosen, ChapterProgress
<1> SUFFICES ASSUME SpacedChapters PROVE Spec => []ChapterProgress
  OBVIOUS
<1>2. SeekInv => ChapterProgress
  BY <1>1
<1> QED
  BY <1>2, SeekTargets, PTL
=============================================================================
