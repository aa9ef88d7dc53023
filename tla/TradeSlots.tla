----------------------------- MODULE TradeSlots -----------------------------
(***************************************************************************)
(* What max_open_trades and the rule of one trade per pair promise, of     *)
(* whatever opens and closes trades: docs/configuration.md says "Number of *)
(* open trades your bot is allowed to have.  Only one open trade per pair  *)
(* is possible".                                                           *)
(***************************************************************************)
EXTENDS Naturals, FiniteSets

CONSTANTS
    Pairs,
    Ids,         \* identities of trades
    Limit,       \* max_open_trades; 0 for no limit
    Stacking     \* position_stacking: a pair may have several trades

VARIABLE held    \* the open trades: their identities and pairs

SlotsInit == held = {}

OpenTrade(i, p) ==
    /\ \A h \in held : h.id # i
    /\ Stacking \/ \A h \in held : h.pair # p
    /\ Limit = 0 \/ Cardinality(held) < Limit
    /\ held' = held \cup {[id |-> i, pair |-> p]}

CloseTrade(h) ==
    /\ h \in held
    /\ held' = held \ {h}

SlotsNext ==
    \/ \E i \in Ids, p \in Pairs : OpenTrade(i, p)
    \/ \E h \in held : CloseTrade(h)

SlotsSpec == SlotsInit /\ [][SlotsNext]_held

=============================================================================
