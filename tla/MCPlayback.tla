------------------------------ MODULE MCPlayback ------------------------------
(* The instances of Playback that TLC checks. *)
EXTENDS Playback

AllRequests == RequestKinds

StatusRequests == {"run", "stop"}

DataRequests == {"run", "load"}
=============================================================================
