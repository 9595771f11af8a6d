----------------------------- MODULE MCSessions -----------------------------
(* A root session and the child its scripts may spawn.                     *)
EXTENDS Sessions, TLC

CONSTANTS root, kid

RootAlone == root :> None
RootAndKid == root :> None @@ kid :> root

First == root :> 1
RootFirst == root :> 1 @@ kid :> 2
=============================================================================
