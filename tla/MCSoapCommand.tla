--------------------------- MODULE MCSoapCommand ---------------------------
(***************************************************************************)
(* SoapCommand with one function of each kind, or with one alone, and a    *)
(* gateway whose name has up to two addresses.                             *)
(***************************************************************************)
EXTENDS SoapCommand

EachKind == {Fetch, "AddPortMapping", "AddPinhole", "GetStatusInfo",
             "GetGenericPortMappingEntry", "GetListOfPortMappings",
             "CheckPinholeWorking", "GetTotalBytesSent"}
AddOnly == {"AddPortMapping"}
=============================================================================
