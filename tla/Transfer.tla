------------------------------ MODULE Transfer ------------------------------
(***************************************************************************)
(* What a caller of getHTTPResponse() is promised: the body of the answer  *)
(* piece by piece, in order and unchanged, up to where the connection      *)
(* lasts, and an end.                                                      *)
(***************************************************************************)
EXTENDS SequencesExt, Naturals

VARIABLES body, got, over

Init == got = <<>> /\ over = FALSE

Grow ==
  /\ ~over
  /\ IsStrictPrefix(got, got') /\ IsPrefix(got', body)
  /\ UNCHANGED <<body, over>>

Finish == ~over /\ over' = TRUE /\ UNCHANGED <<body, got>>

Safety == Init /\ [][Grow \/ Finish]_<<body, got, over>>
Spec == Safety /\ WF_<<body, got, over>>(Finish)
=============================================================================
