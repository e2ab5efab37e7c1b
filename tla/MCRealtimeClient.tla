---------------------------- MODULE MCRealtimeClient ----------------------------
(***************************************************************************)
(* RealtimeClient for TLC.                                                 *)
(***************************************************************************)
EXTENDS RealtimeClient
=============================================================================
