---------------------------- MODULE MCDiscovery ----------------------------
(***************************************************************************)
(* Discovery on a network of a gateway with two connection services and    *)
(* two renderers.                                                          *)
(***************************************************************************)
EXTENDS Discovery

CONSTANTS router, tv, radio

MCDevices == {router, tv, radio}
Router == {router}
=============================================================================
