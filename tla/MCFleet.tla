------------------------------- MODULE MCFleet -------------------------------
(***************************************************************************)
(* Small instances of Fleet for TLC: two requests, on nodes of their own,  *)
(* or with a node that both plan.                                          *)
(***************************************************************************)
EXTENDS Fleet, TLC

CONSTANTS rack, patch   \* requests

OneShared == rack :> {1, 2} @@ patch :> {2}
Apart == rack :> {1} @@ patch :> {2}
=============================================================================
