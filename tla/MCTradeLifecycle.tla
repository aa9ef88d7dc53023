-------------------------- MODULE MCTradeLifecycle --------------------------
(***************************************************************************)
(* TradeLifecycle for TLC.  The constants get their values in the .cfg     *)
(* files.                                                                  *)
(***************************************************************************)
EXTENDS TradeLifecycle

\* What the code does not keep: an open trade that update_trade processes again, when it is
\* reloaded, is closed only if nothing is left of it: "When recalculating a trade, only coming
\* out to 0 can force a close", says the comment in update_trade.
RecalculationClosesAtZero ==
    [][ bot.pc = "update_trade" /\ Recalculating /\ trade.st = "open" /\ trade'.st = "closed"
          => NetAmount(db) = 0 ]_vars

\* What the code does not keep: every outcome reaches the database, also of orders that were
\* placed for a trade that had closed.
EveryOutcomeRecorded ==
    \A o \in Orders :
      (db[o].status = "open" /\ ex[o].status # "open") ~> (db[o].status # "open")

=============================================================================
