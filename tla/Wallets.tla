------------------------------ MODULE Wallets ------------------------------
(***************************************************************************)
(* The account of the dry run (spot, long, no fees): what Wallets knows of *)
(* the stake currency, the stakes that it allows, and the figures of the   *)
(* trades that it computes them from (recalc_trade_from_orders).           *)
(*                                                                         *)
(* Amounts are integers (lots, the precision of the exchange), money is in *)
(* units of 1/Unit, to which FtPrecise rounds the average price down.      *)
(* Each trade has one order at a time; a dry-run order fills as a whole at *)
(* its price or is cancelled without fill.                                 *)
(* EntrySlots has the pairs, TradeLifecycle the orders in full.            *)
(***************************************************************************)
EXTENDS Integers, Sequences, FiniteSetsExt, SequencesExt, Functions

CONSTANTS
    Prices,     \* the rates
    Unit,       \* the money unit is 1/Unit
    Capital,    \* dry_run_wallet
    Asks,       \* what custom_stake_amount and adjust_trade_position may ask for
    MinCost,    \* the exchange's minimum of an order's cost, with the reserve for a stop
                \* loss; its minimum amount is one lot.  Unset: it has neither limit.
    Reserve,    \* amount_reserve_percent, in percent
    MaxLots,    \* the exchange's maximum of an order's amount
    MaxOpen,    \* max_open_trades
    Config,     \* the configurations
    MaxTrades,  \* bound: trades
    MaxOrders   \* bound: orders of a trade

Unset == -1
Ids == 1 .. MaxTrades

ASSUME WalletsAssumption ==
    /\ Prices \subseteq Nat \ {0} /\ Unit \in Nat \ {0}
    /\ Capital \in Nat /\ Asks \subseteq Int
    /\ MinCost \in Nat \cup {Unset} /\ Reserve \in Nat /\ MaxLots \in Nat
    /\ MaxOpen \in Nat \ {0} /\ MaxTrades \in Nat /\ MaxOrders \in Nat
    /\ Config \subseteq [ratio : Nat, available : Nat \cup {Unset},
                         stake : Nat \cup {Unset}, market : BOOLEAN]

VARIABLES
    config,  \* ratio: tradable_balance_ratio in percent; available: available_capital
             \* or Unset; stake: stake_amount or Unset for "unlimited"; market: entries and
             \* exits are market orders
    trades,  \* the trades: their row and their orders
    wallet,  \* the free stake currency as Wallets._wallets has it
    forced   \* the stake of a force_entry that waits for the lock, or Unset

wvars == <<config, trades, wallet, forced>>

-----------------------------------------------------------------------------
(* recalc_trade_from_orders, update_trade *)

NoTrade == [st |-> "none", stake |-> 0, amount |-> 0, realized |-> 0, profit |-> 0,
            orders |-> <<>>]

\* What the filled orders amount to: amount held, its cost at the average price, that
\* price, and the profit of the exits.
NoPosition == [amount |-> 0, cost |-> 0, avg |-> 0, profit |-> 0]

AddOrder(p, o) ==
    IF o.entry
    THEN [p EXCEPT !.amount = @ + o.lots, !.cost = @ + o.price * Unit * o.lots,
                   !.avg = (p.cost + o.price * Unit * o.lots) \div (p.amount + o.lots)]
    ELSE [p EXCEPT !.amount = @ - o.lots, !.cost = @ - p.avg * o.lots,
                   !.profit = @ + (o.price * Unit - p.avg) * o.lots]

Filled(o) == o.st = "closed" /\ o.lots > 0

\* The positions after each of the orders.
Positions(orders) ==
    LET p[k \in 0 .. Len(orders)] ==
          IF k = 0 THEN NoPosition
          ELSE IF Filled(orders[k]) THEN AddOrder(p[k - 1], orders[k]) ELSE p[k - 1]
    IN  p

Position(orders) == Positions(orders)[Len(orders)]

\* A profit of exactly zero leaves the old one (`if close_profit`).
Recalc(t) ==
    LET p == Position(t.orders)
        r == IF p.profit # 0 THEN [t EXCEPT !.realized = p.profit] ELSE t
    IN  IF p.amount > 0 THEN [r EXCEPT !.amount = p.amount, !.stake = p.cost] ELSE r

\* Mutant: the branch for is_closing is missing.
MutNotClosing(t) == [Recalc(t) EXCEPT !.st = "closed", !.profit = Recalc(t).realized - t.realized]

Close(t) == [Recalc(t) EXCEPT !.st = "closed", !.profit = Position(t.orders).profit]

UpdateTrade(t, o) == IF ~o.entry /\ o.lots >= t.amount THEN Close(t) ELSE Recalc(t)

-----------------------------------------------------------------------------
(* Wallets *)

OpenIds(ts) == {i \in Ids : ts[i].st = "open"}
ClosedIds(ts) == {i \in Ids : ts[i].st = "closed"}

\* total_open_trades_stakes, get_total_closed_profit.
TiedUp(ts) == SumFunctionOnSet([i \in Ids |-> ts[i].stake], OpenIds(ts))
ClosedProfit(ts) == SumFunctionOnSet([i \in Ids |-> ts[i].profit], ClosedIds(ts))

\* Mutant: the profit of partial exits is left out.
MutClosedOnly(ts) == Capital + ClosedProfit(ts) - TiedUp(ts)

\* _update_dry.
UpdateDry(ts) ==
    Capital + ClosedProfit(ts)
      + SumFunctionOnSet([i \in Ids |-> ts[i].realized], OpenIds(ts)) - TiedUp(ts)

\* get_total_stake_amount, get_available_stake_amount.
TotalStake(ts, free) ==
    IF config.available # Unset
    THEN config.available + ClosedProfit(ts)
    ELSE ((TiedUp(ts) + free) * config.ratio) \div 100

\* Mutant: the stakes of open trades are not subtracted.
MutTotal(ts, free) == Min({TotalStake(ts, free), free})

Available(ts, free) == Min({TotalStake(ts, free) - TiedUp(ts), free})

Unlimited(ts, free) ==
    LET available == Available(ts, free)
    IN  Min({(available + TiedUp(ts)) \div MaxOpen, available})

\* get_trade_stake_amount; Unset: the balance is too low.
TradeStake(ts, free) ==
    LET stake == IF config.stake = Unset THEN Unlimited(ts, free) ELSE config.stake
    IN  IF Available(ts, free) < stake THEN Unset ELSE Max({stake, 0})

\* get_min_pair_stake_amount, get_max_pair_stake_amount.
MinStake(price) ==
    IF MinCost = Unset THEN Unset ELSE Max({MinCost, (price * Unit * (100 + Reserve)) \div 100})
MaxStake(price) == MaxLots * price * Unit

MaxAllowed(tied, price, free) == Min({MaxStake(price) - tied, Available(trades, free)})

\* Mutant: a minimum above what is available does not end the attempt.
MutMinimumFirst(stake, tied, price, free) ==
    LET min == MinStake(price)
    IN  IF stake <= 0 \/ (stake < min /\ 10 * min > 13 * stake) THEN 0
        ELSE Min({Max({stake, min}), MaxAllowed(tied, price, free)})

\* validate_stake_amount: 0 for no entry.  A stake below the minimum is raised to it, by at
\* most 30%; a stake above the maximum is lowered.
Validate(stake, tied, price, free) ==
    LET min == MinStake(price)
        max == MaxAllowed(tied, price, free)
    IN  IF \/ stake <= 0
           \/ min # Unset /\ (min > max \/ (stake < min /\ 10 * min > 13 * stake))
        THEN 0
        ELSE Min({Max({stake, min}), max})

\* The stakes that come of what is asked for, if any.
Stakes(asks, tied, price, free) == {Validate(ask, tied, price, free) : ask \in asks} \ {0}

-----------------------------------------------------------------------------
(* Orders *)

HasOpenOrder(t) == \E k \in DOMAIN t.orders : t.orders[k].st = "open"
HasFilled(t) == \E k \in DOMAIN t.orders : Filled(t.orders[k])

Order(isEntry, lots, price) ==
    [entry |-> isEntry, lots |-> lots, price |-> price,
     st |-> IF config.market THEN "closed" ELSE "open"]

\* The trade with its new order; a market order is filled at once.
Placed(t, o) ==
    LET placed == [t EXCEPT !.orders = Append(@, o)]
    IN  IF o.st = "closed" THEN UpdateTrade(placed, o) ELSE placed

\* The amount that a stake buys: create_order truncates it to lots.
Lots(stake, price) == stake \div (price * Unit)

\* execute_entry ends with Wallets.update.
Enter(id, t, stake, price) ==
    /\ Len(t.orders) < MaxOrders
    /\ trades' = [trades EXCEPT ![id] = Placed(t, Order(TRUE, Lots(stake, price), price))]
    /\ wallet' = UpdateDry(trades')

Opened(stake) == [NoTrade EXCEPT !.st = "open", !.stake = stake]
FreeId == Min({i \in Ids : trades[i].st = "none"})
CanOpen == \E i \in Ids : trades[i].st = "none"

WInit ==
    /\ config \in Config
    /\ trades = [i \in Ids |-> NoTrade]
    /\ wallet = Capital
    /\ forced = Unset

\* create_trade: Wallets.update, the stake, custom_stake_amount, validate_stake_amount.
CreateTrade ==
    /\ Cardinality(OpenIds(trades)) < MaxOpen /\ CanOpen
    /\ LET free == UpdateDry(trades)
           proposed == TradeStake(trades, free)
       IN  /\ proposed # Unset
           /\ \E price \in Prices :
                \E stake \in Stakes(Asks \cup {proposed}, 0, price, free) :
                  Enter(FreeId, Opened(stake), stake, price)
    /\ UNCHANGED <<config, forced>>

\* _rpc_force_entry before it takes the lock: the count and the stake.
ForceEntryStake ==
    /\ forced = Unset /\ CanOpen
    /\ Cardinality(OpenIds(trades)) < MaxOpen
    /\ wallet' = UpdateDry(trades)
    /\ forced' = TradeStake(trades, wallet')
    /\ forced' # Unset
    /\ UNCHANGED <<config, trades>>

\* execute_entry under the lock, after whatever the bot did meanwhile.
ForceEntry ==
    /\ forced # Unset
    /\ forced' = Unset
    /\ \/ /\ CanOpen
          /\ \E price \in Prices :
               \E stake \in Stakes(Asks \cup {forced}, 0, price, wallet) :
                 Enter(FreeId, Opened(stake), stake, price)
       \/ UNCHANGED <<trades, wallet>>
    /\ UNCHANGED config

\* check_and_call_adjust_trade_position with a positive stake.
AddToPosition(i) ==
    /\ trades[i].st = "open" /\ HasFilled(trades[i]) /\ ~HasOpenOrder(trades[i])
    /\ \E price \in Prices :
         \E stake \in Stakes(Asks, trades[i].stake, price, wallet) :
           Enter(i, trades[i], stake, price)
    /\ UNCHANGED <<config, forced>>

\* The same with a negative stake, or the exit of the trade: execute_trade_exit.  What a
\* partial exit leaves must be exitable.
PlaceExit(i) ==
    /\ trades[i].st = "open" /\ HasFilled(trades[i]) /\ ~HasOpenOrder(trades[i])
    /\ Len(trades[i].orders) < MaxOrders
    /\ \E price \in Prices, lots \in 1 .. trades[i].amount :
         /\ \/ lots = trades[i].amount
            \/ (trades[i].amount - lots) * price * Unit >= MinStake(price)
         /\ trades' = [trades EXCEPT ![i] = Placed(@, Order(FALSE, lots, price))]
    /\ wallet' = UpdateDry(trades')
    /\ UNCHANGED <<config, forced>>

WithLast(t, st) == [t EXCEPT !.orders[Len(t.orders)].st = st]

\* update_trade_state for an order that filled, with Wallets.update at its end.
FillOrder(i) ==
    /\ HasOpenOrder(trades[i])
    /\ trades' = [trades EXCEPT ![i] =
                    UpdateTrade(WithLast(@, "closed"), Last(@.orders))]
    /\ wallet' = UpdateDry(trades')
    /\ UNCHANGED <<config, forced>>

\* handle_cancel_enter, handle_cancel_exit: a trade without any fill is deleted.
Cancel(i) ==
    /\ HasOpenOrder(trades[i])
    /\ trades' = [trades EXCEPT ![i] =
                    IF HasFilled(@) THEN WithLast(@, "canceled") ELSE NoTrade]
    /\ wallet' = IF Last(trades[i].orders).entry THEN UpdateDry(trades') ELSE wallet
    /\ UNCHANGED <<config, forced>>

WNext ==
    \/ CreateTrade
    \/ ForceEntryStake
    \/ ForceEntry
    \/ \E i \in Ids : AddToPosition(i) \/ PlaceExit(i) \/ FillOrder(i) \/ Cancel(i)

WSpec == WInit /\ [][WNext]_wvars

-----------------------------------------------------------------------------
(* Properties *)

OrderType ==
    [entry : BOOLEAN, lots : Int, price : Prices, st : {"open", "closed", "canceled"}]

\* Types of the variables; a trade that has no row has no figures.
AccountTypeOK ==
    /\ config \in Config
    /\ wallet \in Int /\ forced \in Nat \cup {Unset}
    /\ \A i \in Ids :
         /\ trades[i].st \in {"none", "open", "closed"}
         /\ trades[i].amount \in Nat
         /\ {trades[i].stake, trades[i].realized, trades[i].profit} \subseteq Int
         /\ Len(trades[i].orders) <= MaxOrders
         /\ \A k \in DOMAIN trades[i].orders : trades[i].orders[k] \in OrderType
         /\ trades[i].st = "none" => trades[i] = NoTrade

\* The money that the fills of a trade have brought in, less what they cost.
CashFlow(t) ==
    SumFunctionOnSet([k \in DOMAIN t.orders |->
                        (IF t.orders[k].entry THEN -1 ELSE 1)
                          * (t.orders[k].price * Unit * t.orders[k].lots)],
                     {k \in DOMAIN t.orders : Filled(t.orders[k])})

Cash == Capital + SumFunctionOnSet([i \in Ids |-> CashFlow(trades[i])], Ids)

\* The lots that a trade has bought.
Bought(t) ==
    SumFunctionOnSet([k \in DOMAIN t.orders |-> t.orders[k].lots],
                     {k \in DOMAIN t.orders : Filled(t.orders[k]) /\ t.orders[k].entry})

\* Open trades whose realized profit came back to exactly zero: the row keeps the old one.
StaleIds == {i \in OpenIds(trades) : Position(trades[i].orders).profit # trades[i].realized}

\* The lots that closed trades have bought: a bound of what the rounding of averages makes.
BoughtByClosed(ts) == SumFunctionOnSet([i \in Ids |-> Bought(ts[i])], ClosedIds(ts))

\* The profit of a closed trade (recalc_trade_from_orders with averaged entries and partial
\* exits) is what its fills brought in less what they cost.  The rounding of averages does not
\* accumulate: it makes the profit higher by less than one unit of money for each lot.
ProfitIsCash ==
    \A i \in ClosedIds(trades) :
      LET rounding == trades[i].profit - CashFlow(trades[i])
      IN  0 <= rounding /\ rounding < Bought(trades[i])

\* Wallets' free stake currency, computed from figures of the trades, is the money that the
\* fills left, less the stakes of trades that wait for their first fill; apart from
\* profits that recalc_trade_from_orders failed to take back to zero, and from what the
\* averages of closed trades were rounded by.
WalletExplained ==
    LET waiting == {i \in OpenIds(trades) : ~HasFilled(trades[i])}
        explained == Cash - SumFunctionOnSet([i \in Ids |-> trades[i].stake], waiting)
          + SumFunctionOnSet([i \in Ids |-> trades[i].realized - Position(trades[i].orders).profit],
                             StaleIds)
    IN  0 <= wallet - explained /\ wallet - explained <= BoughtByClosed(trades)

\* validate_stake_amount lets no order through that buys nothing: whatever was lost, asked
\* for or decided before the lock.  It needs the minimum of the exchange.
OrdersBuy ==
    MinCost # Unset => \A i \in Ids : \A k \in DOMAIN trades[i].orders : trades[i].orders[k].lots > 0

\* An order of either thread leaves what is tied up within the tradable balance
\* (tradable_balance_ratio or available_capital) and pays for it from money that is there.
\* It needs the minimum of the exchange.
EntersWithinBudget ==
    \A i \in Ids :
      /\ MinCost # Unset
      /\ Len(trades'[i].orders) > Len(trades[i].orders) /\ Last(trades'[i].orders).entry
      => /\ TiedUp(trades') <= TotalStake(trades', UpdateDry(trades'))
         /\ StaleIds = {} => Cash' + BoughtByClosed(trades) >= 0

EntriesWithinBudget == [][EntersWithinBudget]_wvars

\* What the code does not keep: the account is never overdrawn.  Additions that wait for
\* their fill are counted nowhere, so their money is spent twice.
NeverOverdrawn == wallet >= 0

\* What the code does not keep: the figures of an open trade are those of its orders.
RealizedIsProfit == StaleIds = {}

\* What the code does not keep: get_starting_balance ("by using current balance
\* subtracting" profits) is the balance at the start.
StartingBalance ==
    config.available = Unset /\ config.ratio = 100
    => wallet - ClosedProfit(trades) + TiedUp(trades) = Capital

=============================================================================
