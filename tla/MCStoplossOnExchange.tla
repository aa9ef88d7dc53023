------------------------ MODULE MCStoplossOnExchange ------------------------
(* StoplossOnExchange for TLC. *)
EXTENDS StoplossOnExchange

=============================================================================
