------------------------------- MODULE MCRemote -------------------------------
(* Values of the constants of Remote for TLC.                               *)
EXTENDS Remote, TLC

CONSTANTS b1, b2

(* A long code and a short one, the short one like the end of the long one.  *)
MCCode == (b1 :> <<0, 2, 1, 1>>) @@ (b2 :> <<0, 1>>)
=============================================================================
