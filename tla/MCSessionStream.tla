--------------------------- MODULE MCSessionStream ---------------------------
(* A small instance of SessionStream. *)
EXTENDS SessionStream, TLC
=============================================================================
