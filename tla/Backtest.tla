------------------------------ MODULE Backtest ------------------------------
(***************************************************************************)
(* The simulation of src/xplitrade/optimize/backtesting.py: the loop over  *)
(* candles, detail candles and pairs, backtest_loop with its five phases,  *)
(* the adjustment of positions, the timeout and replacement of orders, and *)
(* what is closed by force at the end.                                     *)
(*                                                                         *)
(* Prices decide nothing here but which orders fill, and a signal, a       *)
(* timeout or a callback may say anything, so all of these are chosen      *)
(* freely.  An order fills as a whole or not at all.  Amounts are small    *)
(* numbers.                                                                *)
(***************************************************************************)
EXTENDS Integers, Sequences, FiniteSets, SequencesExt

CONSTANTS
    Pairs,
    Candles,            \* bound: main candles of the backtest
    Details,            \* detail candles in a main candle; 1 without timeframe_detail
    Limit,              \* max_open_trades; 0 for no limit
    Stacking,           \* position_stacking
    CanShort,
    EntryAmount, AdjustAmount,   \* what an entry and an adjustment trade; AdjustAmount = 0 for none
    MinStake,           \* the least that the exchange lets one sell; 0 for no minimum
    MaxTrades           \* bound: trades opened in all

ASSUME BacktestAssumption ==
    /\ Candles \in Nat \ {0} /\ Details \in Nat \ {0}
    /\ Limit \in Nat /\ Stacking \in BOOLEAN /\ CanShort \in BOOLEAN
    /\ EntryAmount \in Nat \ {0} /\ AdjustAmount \in Nat
    /\ MinStake \in Nat /\ MaxTrades \in Nat

Ids == 1..MaxTrades
Directions == IF CanShort THEN {"long", "short"} ELSE {"long"}

VARIABLES
    time,     \* the main candle and the detail candle in it
    todo,     \* the pairs still to be visited at this time
    active,   \* pairs_with_open_trades
    signal,   \* pair_tradedir_cache: per pair, the direction of its signal in this candle
    cached,   \* pair_detail_cache: the pairs whose detail candles are visited
    visit,    \* the call of backtest_loop under way, or Idle
    trades,   \* all trades: bt_trades_open and bt_trades
    count     \* bt_open_open_trade_count

loopVars == <<time, todo, active, signal, cached>>
vars == <<time, todo, active, signal, cached, visit, trades, count>>

Idle == [pc |-> "idle", pair |-> "none", dir |-> "none", exiting |-> "none", again |-> FALSE,
         rest |-> {}]

NoTrade == [pair |-> "none", dir |-> "none", st |-> "none", amount |-> 0, entries |-> 0,
            bought |-> 0, orders |-> <<>>]
\* What is left of a trade that is closed or removed; what else it says decides nothing.
Ended(t, st) == [NoTrade EXCEPT !.st = st, !.bought = IF st = "closed" THEN t.bought ELSE 0]

OpenOf(p) == {i \in Ids : trades[i].st = "open" /\ trades[i].pair = p}
Open == {i \in Ids : trades[i].st = "open"}
OpenPairs == {trades[i].pair : i \in Open}

-----------------------------------------------------------------------------
(* Orders and trades.  Each operator gives the trade afterwards.            *)

IsOpen(t, side) == \E k \in DOMAIN t.orders : t.orders[k].side = side
Position(t, side) == CHOOSE k \in DOMAIN t.orders : t.orders[k].side = side
OrderOf(t, side) == t.orders[Position(t, side)]
Without(t, side) == [t EXCEPT !.orders = RemoveAt(@, Position(t, side))]

\* An order is appended; handle_similar_order has removed all others before.
Place(t, side, amount) ==
    [t EXCEPT !.orders = Append(@, [side |-> side, amount |-> amount, fresh |-> TRUE])]

\* Mutant: the other open orders stay.
MutOthersStay(t, side, amount) == Place(t, side, amount)

\* handle_similar_order: an open order of the same side and amount, and possibly of the same
\* price, is kept; any other open order is cancelled, which removes it.
Similar(t, side, amount) == IsOpen(t, side) /\ OrderOf(t, side).amount = amount
Replaced(t, side, amount) == Place([t EXCEPT !.orders = <<>>], side, amount)
Asked(t, side, amount) ==
    {Replaced(t, side, amount)} \cup (IF Similar(t, side, amount) THEN {t} ELSE {})

\* close_bt_order for an entry, and recalc_trade_from_orders.
EntryFilled(t) ==
    [Without(t, "entry") EXCEPT !.amount = @ + OrderOf(t, "entry").amount,
                                !.bought = @ + OrderOf(t, "entry").amount,
                                !.entries = @ + 1]

\* Mutant: the amount of a partial exit is not taken off the trade.
MutPartialExitForgotten(t) ==
    LET a == OrderOf(t, "exit").amount
        u == [Without(t, "exit") EXCEPT !.bought = @ - a]
    IN  IF a = t.amount THEN Ended(u, "closed") ELSE u

\* _process_exit_order of an order that fills: it closes the trade or, by
\* recalc_trade_from_orders, leaves what the orders say - unless they say that nothing is left.
ExitFilled(t) ==
    LET a == OrderOf(t, "exit").amount
        u == [Without(t, "exit") EXCEPT !.bought = @ - a]
    IN  IF a = t.amount THEN Ended(u, "closed")
        ELSE IF u.bought > 0 THEN [u EXCEPT !.amount = u.bought] ELSE u

\* _enter_trade with a trade: a new entry order, filled at once or not; or nothing, when no
\* stake is left or the strategy does not confirm.
Entered(t, amount) ==
    LET placed == Asked(t, "entry", amount) \ {t}
    IN  {t} \cup placed \cup {EntryFilled(u) : u \in placed}

\* Mutant: a removed trade keeps its slot.
MutRemovedStaysCounted(i, t) ==
    /\ trades' = [trades EXCEPT ![i] = t]
    /\ count' = IF trades[i].st = "open" /\ t.st = "closed" THEN count - 1 ELSE count

\* close_bt_trade and remove_bt_trade keep the counter.
Put(i, t) ==
    /\ trades' = [trades EXCEPT ![i] = t]
    /\ count' = IF trades[i].st = "open" /\ t.st # "open" THEN count - 1 ELSE count

-----------------------------------------------------------------------------
(* backtest_loop *)

\* The call begins with the direction of the pair's first trade.
Call(p, dir, again) ==
    [pc |-> "manage", pair |-> p, dir |-> dir, again |-> again,
     exiting |-> IF Stacking \/ OpenOf(p) = {} THEN "none" ELSE trades[Min(OpenOf(p))].dir,
     rest |-> OpenOf(p)]

Go(pc) == visit' = [visit EXCEPT !.pc = pc, !.rest = OpenOf(visit.pair)]

\* The trades of the pair are taken from the oldest to the newest.
Current == Min(visit.rest)
Others == visit.rest \ {Current}

\* Mutant: a trade stays although its only order is gone.
MutEmptyTradeStays(t) ==
    LET side == t.orders[1].side
        u == Without(t, side)
        again == IF side = "entry"
                 THEN Entered(u, t.orders[1].amount) \ {u}
                 ELSE {Place(u, side, t.orders[1].amount)}
    IN  {t, u} \cup (IF t.orders[1].fresh THEN {} ELSE again)

\* 1. manage_open_orders: a timeout, or an order that the strategy cancels or replaces;
\* replacing is for orders of earlier candles.  A trade without a filled entry is removed with
\* its order, also when the new order is refused.
ManageOrder(t) ==
    LET side == t.orders[1].side
        u == Without(t, side)
        gone == IF side = "entry" /\ t.entries = 0 THEN Ended(u, "removed") ELSE u
        again == IF side = "entry"
                 THEN Entered(u, t.orders[1].amount) \ {u}
                 ELSE {Place(u, side, t.orders[1].amount)}
    IN  {t, gone} \cup (IF t.orders[1].fresh THEN {} ELSE again)

Manage ==
    /\ visit.pc = "manage"
    /\ IF visit.rest = {}
       THEN /\ visit' = [visit EXCEPT !.pc = "enter"]
            /\ UNCHANGED <<trades, count>>
       ELSE LET i == Current IN
            /\ \E t \in IF trades[i].orders = <<>> THEN {trades[i]} ELSE ManageOrder(trades[i]) :
                  Put(i, t)
            /\ visit' = [visit EXCEPT !.rest = Others]
    /\ UNCHANGED loopVars

\* Mutant: one trade too many.
MutLimitReached == Limit = 0 \/ count <= Limit

\* 2. A new trade: the signal, a pair that is free, a slot, and not at the very end.
IsLastRow == time = <<Candles, 1>>
SlotAvailable == Limit = 0 \/ count < Limit
MayEnter ==
    /\ ~IsLastRow /\ visit.dir # "none"
    /\ Stacking \/ OpenOf(visit.pair) = {}
    /\ SlotAvailable

Unused == {i \in Ids : trades[i].st = "none"}

Enter ==
    /\ visit.pc = "enter"
    /\ MayEnter /\ Unused # {}
    /\ LET i == Min(Unused)
           t == Place([NoTrade EXCEPT !.pair = visit.pair, !.dir = visit.dir, !.st = "open"], "entry", EntryAmount)
       IN  \E u \in {t, EntryFilled(t)} : trades' = [trades EXCEPT ![i] = u]
    /\ count' = count + 1
    /\ visit' = [visit EXCEPT !.pc = "entered"]
    /\ UNCHANGED loopVars

\* No signal, a lock, no slot, no stake, or an entry that is not confirmed.
NoEntry ==
    /\ visit.pc = "enter"
    /\ visit' = [visit EXCEPT !.pc = "entered"]
    /\ UNCHANGED <<loopVars, trades, count>>

\* The list of the pair's trades is copied before phases 3 to 5.
StartWork ==
    /\ visit.pc = "entered"
    /\ Go("fill")
    /\ UNCHANGED <<loopVars, trades, count>>

\* 3. An open entry order may fill.
FillEntry ==
    /\ visit.pc = "fill" /\ visit.rest # {}
    /\ LET i == Current IN
       \E t \in {trades[i]} \cup (IF IsOpen(trades[i], "entry") THEN {EntryFilled(trades[i])} ELSE {}) :
          /\ Put(i, t)
          /\ visit' = [visit EXCEPT !.pc = IF t.amount > 0 THEN "adjust" ELSE "exit_order"]
    /\ UNCHANGED loopVars

\* 4. _check_adjust_trade_for_candle: an additional entry, or a partial exit that is tried at
\* once.  What remains must be nothing or more than the exchange's minimum.
PartialExit(t) ==
    {a \in 1..(t.amount + AdjustAmount) :
        MinStake > 0 => t.amount - a = 0 \/ t.amount - a >= MinStake}
Reduced(t) ==
    UNION {LET u == Asked(t, "exit", a) \ {t} IN u \cup {ExitFilled(w) : w \in u} : a \in PartialExit(t)}

Adjust ==
    /\ visit.pc = "adjust"
    /\ LET i == Current IN
       /\ \E t \in {trades[i]} \cup (IF AdjustAmount = 0 THEN {}
                                     ELSE Entered(trades[i], AdjustAmount) \cup Reduced(trades[i])) :
             Put(i, t)
       /\ visit' = [visit EXCEPT !.pc = "exit"]
    /\ UNCHANGED loopVars

\* _check_trade_exit, after the adjustment: an exit signal of any kind.
Exit ==
    /\ visit.pc = "exit"
    /\ LET i == Current IN
       /\ \E t \in {trades[i]} \cup (IF trades[i].st = "open"
                                     THEN Asked(trades[i], "exit", trades[i].amount) ELSE {}) :
             Put(i, t)
       /\ visit' = [visit EXCEPT !.pc = "exit_order"]
    /\ UNCHANGED loopVars

\* 5. An open exit order may fill.
FillExit ==
    /\ visit.pc = "exit_order"
    /\ LET i == Current IN
       /\ \E t \in {trades[i]} \cup (IF trades[i].st = "open" /\ IsOpen(trades[i], "exit")
                                     THEN {ExitFilled(trades[i])} ELSE {}) :
             Put(i, t)
       /\ visit' = [visit EXCEPT !.pc = "fill", !.rest = Others]
    /\ UNCHANGED loopVars

\* The end of backtest_loop, and of its caller: a position that was just closed may be
\* reversed by a second call, when the signal is for the other direction.
Reversing ==
    /\ CanShort /\ ~visit.again
    /\ visit.dir # "none" /\ visit.exiting # "none" /\ visit.exiting # visit.dir
    /\ OpenOf(visit.pair) = {}

EndVisit ==
    /\ visit.pc = "fill" /\ visit.rest = {}
    /\ visit' = IF Reversing
                THEN Call(visit.pair, visit.dir, TRUE)
                ELSE Idle
    /\ UNCHANGED <<loopVars, trades, count>>

-----------------------------------------------------------------------------
(* time_pair_generator *)

\* Pairs with open trades come first, the one of the oldest trade before all, then the others
\* in any order; the code takes that of the whitelist.
ComesNext(p) ==
    /\ p \in todo
    /\ \A q \in todo \ {p} :
          OpenOf(q) # {} => OpenOf(p) # {} /\ Min(OpenOf(p)) < Min(OpenOf(q))

\* Mutant: no pair is skipped.
MutNeverSkipped(p) == FALSE

\* Pairs that were found with a trade in this main candle and have none any more are skipped.
Skipped(p) == p \in active /\ OpenOf(p) = {}

NextPair(p) ==
    /\ visit = Idle /\ ComesNext(p)
    /\ \E hasRow, hasDetails \in BOOLEAN :
       LET first == time[2] = 1
           visited == hasRow /\ (first \/ p \in cached) /\ ~Skipped(p)
       IN  /\ signal' \in IF first /\ hasRow
                         THEN {[signal EXCEPT ![p] = d] : d \in Directions \cup {"none"}}
                         ELSE {signal}
           /\ cached' = IF visited /\ first /\ hasDetails /\ (signal'[p] # "none" \/ OpenOf(p) # {})
                        THEN cached \cup {p} ELSE cached
           /\ active' = IF visited /\ OpenOf(p) # {} THEN active \cup {p} ELSE active
           /\ \E dir \in {signal'[p]} \cup (IF first THEN {} ELSE {"none"}) :
                 visit' = IF visited THEN Call(p, dir, FALSE) ELSE Idle
    /\ todo' = todo \ {p}
    /\ UNCHANGED <<time, trades, count>>

\* Orders of an earlier candle may be replaced.
Aged(orders) == [k \in DOMAIN orders |-> [orders[k] EXCEPT !.fresh = FALSE]]

\* The next detail candle, or the next main candle.
NextTime ==
    /\ visit = Idle /\ todo = {}
    /\ IF time[2] < Details
       THEN time' = <<time[1], time[2] + 1>> /\ UNCHANGED <<active, signal, cached>>
       ELSE /\ time[1] < Candles
            /\ time' = <<time[1] + 1, 1>> /\ active' = OpenPairs /\ cached' = {}
            /\ signal' = [p \in Pairs |-> "none"]
    /\ todo' = Pairs
    /\ trades' = [i \in Ids |-> [trades[i] EXCEPT !.orders = Aged(@)]]
    /\ UNCHANGED <<visit, count>>

\* handle_left_open: a trade without a filled entry, or without a position, is removed; any
\* other one is closed at the last candle's opening price, which is within the candle.
LeftOpen ==
    /\ visit = Idle /\ todo = {} /\ time = <<Candles, Details>>
    /\ Open # {}
    /\ LET i == Min(Open)
           t == trades[i]
       IN  \E u \in IF (t.orders # <<>> /\ t.entries = 0) \/ t.amount <= 0
                    THEN {Ended(t, "removed")}
                    ELSE {ExitFilled(w) : w \in Asked(t, "exit", t.amount)} :
              Put(i, u)
    /\ UNCHANGED <<loopVars, visit>>

Finished ==
    /\ visit = Idle /\ todo = {} /\ time = <<Candles, Details>> /\ Open = {}
    /\ UNCHANGED vars

Init ==
    /\ time = <<1, 1>> /\ todo = Pairs
    /\ active = {} /\ signal = [p \in Pairs |-> "none"] /\ cached = {}
    /\ visit = Idle /\ trades = [i \in Ids |-> NoTrade] /\ count = 0

Next ==
    \/ \E p \in Pairs : NextPair(p)
    \/ NextTime
    \/ Manage \/ Enter \/ NoEntry \/ StartWork
    \/ FillEntry \/ Adjust \/ Exit \/ FillExit \/ EndVisit
    \/ LeftOpen \/ Finished

Spec == Init /\ [][Next]_vars

-----------------------------------------------------------------------------
(* Properties *)

Order == [side : {"entry", "exit"}, amount : Nat, fresh : BOOLEAN]

\* Every variable has its type.
TypeOK ==
    /\ time \in (1..Candles) \X (1..Details)
    /\ todo \subseteq Pairs /\ active \subseteq Pairs /\ cached \subseteq Pairs
    /\ signal \in [Pairs -> Directions \cup {"none"}]
    /\ \A i \in Ids : LET t == trades[i] IN
          /\ t.st \in {"none", "open", "closed", "removed"}
          /\ t.pair \in Pairs \cup {"none"} /\ t.dir \in Directions \cup {"none"}
          /\ t.amount \in Nat /\ t.entries \in Nat /\ t.bought \in Int
          /\ t.orders \in Seq(Order)
    /\ visit.pc \in {"idle", "manage", "enter", "entered", "fill", "adjust", "exit", "exit_order"}
    /\ count \in Nat

\* A trade has at most one open order, on which the code relies in select_order, in
\* check_order_replace ("there can't be multiple open entry orders") and where it takes the
\* last order for the one just placed: every new order removes the others.
OneOrder == \A i \in Open : Len(trades[i].orders) <= 1

\* The amount of an open trade is what its filled orders leave of it, and a closed trade has
\* sold exactly what it bought.
AmountsAgree ==
    \A i \in Ids : /\ trades[i].st = "open" => trades[i].amount = trades[i].bought
                  /\ trades[i].st = "closed" => trades[i].bought = 0

\* The counter that every entry is tested against is the number of open trades: one that stays
\* too high takes a slot away for the rest of the backtest.
CountIsExact == count = Cardinality(Open)

\* Between two calls of backtest_loop an open trade has a position or an order that may give
\* it one: a trade left behind without either would hold its slot to the end.
NoEmptyTrade ==
    visit = Idle => \A i \in Open : trades[i].amount > 0 \/ trades[i].orders # <<>>

\* "Pair has had open trades which closed in the current main candle. Skip this pair for this
\* timeframe" (backtesting.py:1724-1725): a pair that was found with a trade in this candle is
\* entered again only by the call that closed the trade.
ReentryWaits ==
    [][\A i \in Ids : trades[i].st = "none" /\ trades'[i].st = "open" =>
          \/ Stacking \/ visit.again
          \/ visit.pair \notin active \/ visit.exiting # "none"]_vars

\* The simulation keeps to max_open_trades and to one trade per pair as TradeSlots states
\* them, although it counts the open trades by hand.
Slots == INSTANCE TradeSlots
             WITH held <- {[id |-> i, pair |-> trades[i].pair] : i \in Open}
KeepsSlots == Slots!SlotsSpec

\* What the code does not keep: "don't open on the last row" and "We only open trades on the
\* main candle, not on detail candles" (backtesting.py:1547-1548): no trade begins in the last
\* main candle.
NoLateEntry ==
    [][\A i \in Ids : trades[i].st = "none" /\ trades'[i].st = "open" => time[1] < Candles]_vars

=============================================================================
