--------------------------- MODULE MCSignalStream ---------------------------
(* SignalStream for TLC. *)
EXTENDS SignalStream
=============================================================================
