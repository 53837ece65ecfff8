--------------------------- MODULE MCSaveTransfer ---------------------------
(***************************************************************************)
(* Instance of SaveTransfer: a game whose save takes more than one cache   *)
(* line, one whose save fits in one, and one without RAM.                  *)
(***************************************************************************)
EXTENDS SaveTransfer, TLC

CONSTANTS g1, g2, g3

Sizes == (g1 :> 3) @@ (g2 :> 1) @@ (g3 :> 0)
=============================================================================
