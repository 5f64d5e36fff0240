--------------------------- MODULE MCRemoteControl ---------------------------
(* A small instance of RemoteControl. *)
EXTENDS RemoteControl, TLC
=============================================================================
