----------------------------- MODULE MCMediaNav -----------------------------
(***************************************************************************)
(* MediaNav on a short film: two presses of any keys with and without      *)
(* chapter marks, also after two presses that an earlier process has left, *)
(* which with them ask for more skips than the table has; or three presses *)
(* of the skip keys.                                                       *)
(***************************************************************************)
EXTENDS MediaNav, TLC

CONSTANTS p1, p2, p3

TwoProcs == {p1, p2}
ThreeProcs == {p1, p2, p3}
AnyOrder == Permutations(ThreeProcs)
AllKeys == {"FWD", "REW", "BACK", "NEXT", "PREV", "LISTTOCHAPTER"}
MCSkipTimes == <<1, 3>>
MCChapterFiles == {Nobody, <<1, 3>>}
NoChapters == {Nobody}
StartOrLate == {0, 3}
AtStart == {0}
OneSkip == <<1>>
OrTwo == {Nobody, <<"FWD", "FWD">>}
NoPresses == {Nobody}
=============================================================================
