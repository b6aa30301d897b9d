----------------------------- MODULE MCAVRemote -----------------------------
(***************************************************************************)
(* AVRemote on a network of two renderers, started with one command of     *)
(* each kind main() distinguishes.                                         *)
(***************************************************************************)
EXTENDS AVRemote

CONSTANTS r1, r2

MCRenderers == {r1, r2}
MCCommands == {"discover", "url", "pipe", Get, "Pause"}
=============================================================================
