----------------------------- MODULE MCBacktest -----------------------------
(* Backtest for TLC. *)
EXTENDS Backtest

=============================================================================
