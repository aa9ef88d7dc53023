------------------------------ MODULE StopLoss ------------------------------
(***************************************************************************)
(* The stop loss of one trade: LocalTrade.adjust_stop_loss, every caller   *)
(* of it (the entry, recalc_trade_from_orders at each fill, the trailing   *)
(* and custom stop of IStrategy.ft_stoploss_adjust, the new value after a  *)
(* reload) and the decision to exit.                                       *)
(*                                                                         *)
(* Rates are integers (the tick is 1), ratios integers in units of         *)
(* 1/Whole.  The strategy's callbacks and all other reasons to exit are    *)
(* nondeterministic.  Fees do not count in the profit.                     *)
(***************************************************************************)
EXTENDS Integers

CONSTANTS
    Rates,      \* the market's rates
    Ratios,     \* the stop losses in use, as distance from a rate
    Whole,      \* a ratio of 1
    Leverage,
    Settings,   \* what the strategy may use, a subset of AllSettings
    MaxFills    \* bound: how many orders of the trade fill

None == -1

\* use_custom_stoploss; custom_stoploss takes after_fill; trailing_stop,
\* trailing_stop_positive (or None), its offset, trailing_only_offset_is_reached.
AllSettings ==
    [custom : BOOLEAN, afterFill : BOOLEAN, trailing : BOOLEAN,
     positive : Ratios \cup {None}, offset : Nat, onlyOffset : BOOLEAN]

ASSUME StopLossAssumption ==
    /\ Rates \subseteq Nat \ {0} /\ Rates # {}
    /\ Ratios \subseteq Nat \ {0} /\ Ratios # {}
    /\ Whole \in Nat \ {0} /\ Leverage \in Nat \ {0}
    /\ \A p \in Ratios : p <= Whole * Leverage
    /\ Settings \subseteq AllSettings
    /\ MaxFills \in Nat

VARIABLES
    short,     \* trade.is_short
    settings,  \* the strategy's settings
    stoploss,  \* the strategy's stoploss
    trade,     \* the trade: open_rate, stop_loss, initial_stop_loss, ...
    best       \* ghost: the best rate seen since stoploss was set, None before

vars == <<short, settings, stoploss, trade, best>>

-----------------------------------------------------------------------------
(* adjust_stop_loss *)

\* a is the stop that triggers first.
Tighter(a, b) == IF short THEN a < b ELSE a > b

\* The stop at a distance from a rate, rounded towards the rate.
NewStop(rate, ratio) ==
    LET unit == Whole * Leverage
    IN  IF short
        THEN (rate * (unit + ratio)) \div unit
        ELSE -((-(rate * (unit - ratio))) \div unit)

\* Mutant: the stop follows the rate in both directions.
MutFollow(t, rate, ratio, refresh) ==
    [t EXCEPT !.stop = NewStop(rate, ratio), !.ratio = ratio, !.trailing = ~refresh]

\* Mutant: a refreshed stop counts as trailing, a moved one does not.
MutRefreshTrails(t, rate, ratio, refresh) ==
    IF refresh \/ Tighter(NewStop(rate, ratio), t.stop)
    THEN [t EXCEPT !.stop = NewStop(rate, ratio), !.ratio = ratio,
                   !.trailing = @ \/ refresh]
    ELSE t

\* Stop losses only walk towards the rate, unless refresh allows both directions.
AdjustStop(t, rate, ratio, refresh) ==
    IF refresh \/ Tighter(NewStop(rate, ratio), t.stop)
    THEN [t EXCEPT !.stop = NewStop(rate, ratio), !.ratio = ratio,
                   !.trailing = @ \/ ~refresh]
    ELSE t

\* A trade without a stop gets its initial one.
InitialStop(t, rate, ratio) ==
    [t EXCEPT !.stop = NewStop(rate, ratio), !.ratio = ratio,
              !.initial = NewStop(rate, ratio), !.initialRatio = ratio]

-----------------------------------------------------------------------------
(* ft_stoploss_adjust *)

\* The rate has reached the stop.
Reached(stop, rate) == ~Tighter(rate, stop)

\* The profit at a rate, times a positive factor: (rate / open_rate - 1) * leverage.
Profit(t, rate) == (IF short THEN t.rate - rate ELSE rate - t.rate) * Whole * Leverage

\* The stop that custom_stoploss asks for; value None: it returns nothing.
CustomStop(t, rate, value, afterFill) ==
    IF settings.custom /\ value # None THEN AdjustStop(t, rate, value, afterFill) ELSE t

TrailingRatio(t, rate, value) ==
    IF settings.positive # None /\ Profit(t, rate) > settings.offset * t.rate
    THEN settings.positive
    ELSE IF settings.custom /\ value # None THEN value ELSE stoploss

\* The profit has not reached the offset that trailing waits for.
Waits(t, rate) == settings.onlyOffset /\ Profit(t, rate) < settings.offset * t.rate

\* Mutant: the stop trails the rate of the entry.
MutTrailOpenRate(t, rate, value) ==
    IF settings.trailing /\ ~Waits(t, rate)
    THEN AdjustStop(t, t.rate, TrailingRatio(t, rate, value), FALSE)
    ELSE t

TrailingStop(t, rate, value) ==
    IF settings.trailing /\ ~Waits(t, rate)
    THEN AdjustStop(t, rate, TrailingRatio(t, rate, value), FALSE)
    ELSE t

\* A stop that the rate has reached stays where it is.
StoplossAdjust(t, rate, value, afterFill) ==
    IF Reached(t.stop, rate)
    THEN t
    ELSE TrailingStop(CustomStop(t, rate, value, afterFill), rate, value)

-----------------------------------------------------------------------------

NewTrade(rate) ==
    InitialStop([open |-> TRUE, rate |-> rate, stop |-> 0, ratio |-> 0, initial |-> 0,
                 initialRatio |-> 0, trailing |-> FALSE, fills |-> 0],
                rate, stoploss)

\* execute_entry has placed the first order at a rate.
Init ==
    /\ short \in BOOLEAN
    /\ settings \in Settings
    /\ stoploss \in Ratios
    /\ \E rate \in Rates : trade = NewTrade(rate)
    /\ best = None

\* An order fills: recalc_trade_from_orders adjusts the stop to the (average) open rate
\* with the ratio used last, and update_trade_state calls ft_stoploss_adjust after the
\* fill if custom_stoploss asks for it.
Fill(openRate, rate, value) ==
    /\ trade.open /\ trade.fills < MaxFills
    /\ LET t == AdjustStop([trade EXCEPT !.rate = openRate, !.fills = @ + 1],
                           openRate, trade.ratio, FALSE)
       IN  trade' = IF settings.custom /\ settings.afterFill
                    THEN StoplossAdjust(t, rate, value, TRUE) ELSE t
    /\ UNCHANGED <<short, settings, stoploss, best>>

\* The first order may fill anywhere, a later one moves the average.
EntryFilled ==
    \E openRate, rate \in Rates, value \in Ratios \cup {None} : Fill(openRate, rate, value)

PartialExitFilled ==
    /\ trade.fills > 0
    /\ \E rate \in Rates, value \in Ratios \cup {None} : Fill(trade.rate, rate, value)

Better(rate, old) == IF old = None \/ Tighter(rate, old) THEN rate ELSE old

\* should_exit moves the stop, then the trade leaves if the stop is reached and the exit
\* is executed, or for another reason.
Evaluate(rate, value, leaves) ==
    /\ trade.open /\ trade.fills > 0
    /\ trade' = [StoplossAdjust(trade, rate, value, FALSE) EXCEPT !.open = ~leaves]
    /\ best' = Better(rate, best)
    /\ UNCHANGED <<short, settings, stoploss>>

ShouldExit ==
    \E rate \in Rates, value \in Ratios \cup {None}, leaves \in BOOLEAN :
      Evaluate(rate, value, leaves)

\* stoploss_reinitialization: a new value reaches the trades whose stop has not moved.
Reinitialized(t, ratio) ==
    IF ~t.trailing /\ t.initialRatio # ratio THEN InitialStop(t, t.rate, ratio) ELSE t

\* The strategy is loaded with another stoploss, and startup() runs.
Reload(ratio) ==
    /\ trade.open /\ ratio # stoploss
    /\ stoploss' = ratio
    /\ trade' = Reinitialized(trade, ratio)
    /\ best' = None
    /\ UNCHANGED <<short, settings>>

Next ==
    \/ EntryFilled
    \/ PartialExitFilled
    \/ ShouldExit
    \/ \E ratio \in Ratios : Reload(ratio)

Spec == Init /\ [][Next]_vars

-----------------------------------------------------------------------------
(* Properties *)

TradeType ==
    [open : BOOLEAN, rate : Rates, stop : Int, ratio : Ratios, initial : Int,
     initialRatio : Ratios, trailing : BOOLEAN, fills : 0 .. MaxFills]

\* Types of the variables; the ratio of a stop is one that was asked for.
TypeOK ==
    /\ short \in BOOLEAN /\ settings \in Settings /\ stoploss \in Ratios
    /\ trade \in TradeType
    /\ best \in Rates \cup {None}

\* "stop losses only walk up, never down!" (adjust_stop_loss): neither evaluations nor
\* fills at worse rates loosen the stop; only custom_stoploss after a fill may, and a
\* new stoploss of the strategy.
StopOnlyTightens ==
    [][ \/ ~Tighter(trade.stop, trade'.stop)
        \/ stoploss' # stoploss
        \/ settings.custom /\ settings.afterFill /\ trade'.fills # trade.fills ]_vars

\* is_stop_loss_trailing says truly whether the stop has left its initial place, unless
\* custom_stoploss may move it after fills: ft_stoploss_reached takes the reason of an exit
\* from the flag, stoploss_reinitialization whether it may reset the stop.
TrailingMeansMoved ==
    \/ settings.custom /\ settings.afterFill
    \/ trade.trailing /\ Tighter(trade.stop, trade.initial)
    \/ ~trade.trailing /\ trade.stop = trade.initial

\* A trailing stop protects the best rate: whatever rates, fills and failed exits came
\* in between, it is at least as tight as stoploss would put it from the best rate that
\* was seen since stoploss was set (ft_stoploss_adjust).
Trails ==
    /\ settings.trailing /\ ~settings.onlyOffset /\ ~settings.custom
    /\ settings.positive <= stoploss

GainsProtected == Trails /\ best # None => ~Tighter(NewStop(best, stoploss), trade.stop)

\* What the code does not keep: a trade whose stop neither trails nor is custom gets the
\* new stoploss with the reload.
NewStopLossTaken ==
    [][ stoploss' # stoploss /\ ~settings.trailing /\ ~settings.custom
          => trade'.initialRatio = stoploss' ]_vars

\* What the code does not keep: the fill of a partial exit, which leaves the open rate
\* alone, does not move the stop past the market's rate.
FillKeepsDistance ==
    [][ \A rate \in Rates, value \in Ratios \cup {None} :
          /\ ~settings.afterFill /\ trade.fills > 0 /\ ~Reached(trade.stop, rate)
          /\ Fill(trade.rate, rate, value)
          => ~Reached(trade'.stop, rate) ]_vars

=============================================================================
