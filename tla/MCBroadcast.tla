------------------------------ MODULE MCBroadcast ------------------------------
(* Broadcast is checked as it is. *)
EXTENDS Broadcast
=============================================================================
