------------------------- MODULE StoplossOnExchange -------------------------
(***************************************************************************)
(* Stoploss orders on the exchange, of one trade of                        *)
(* src/xplitrade/xplitradebot.py: handle_stoploss_on_exchange with         *)
(* trailing, create_stoploss_order, cancel_stoploss_on_exchange and its    *)
(* callers: a fill of another order, and execute_trade_exit.               *)
(*                                                                         *)
(* One step of the bot is one request to the exchange, with the commit     *)
(* that follows it, so stops trigger, fill in part or disappear between    *)
(* any two.  A stoploss order is first only in the session; it is lost     *)
(* when the session is rolled back before the commit of process().  How    *)
(* other orders are timed out and replaced is in TradeLifecycle; here they *)
(* fill as a whole or are cancelled.                                       *)
(***************************************************************************)
EXTENDS Integers, Sequences, FiniteSets, FiniteSetsExt, SequencesExt

CONSTANTS
    Amount,          \* the position at the beginning
    AddAmount,       \* an additional entry; 0 for none
    PartAmount,      \* a partial exit; 0 for none
    ExtraCoins,      \* coins of the pair in the wallet that are not the trade's
    MaxStops,        \* bound: stoploss orders
    MaxOrders,       \* bound: other orders
    MaxFaults        \* bound: requests that fail for no reason of the order's

ASSUME StoplossAssumption ==
    /\ Amount \in Nat \ {0} /\ {AddAmount, PartAmount, ExtraCoins} \subseteq Nat
    /\ {MaxStops, MaxOrders, MaxFaults} \subseteq Nat

VARIABLES
    option,   \* blocking: stoploss_blocks_assets, a stop holds the coins it would sell;
              \* trailing: trailing_stop or use_custom_stoploss
    stops,    \* the stoploss orders on the exchange: amount, filled, status
    rec,      \* what is recorded of each: pending, open, closed or forgotten
    order,    \* the other order of the trade, on the exchange and in the table
    trade,    \* the trade's row: is_open and amount
    coins,    \* the coins of the pair in the wallet
    bot,      \* the bot's thread
    ordered,  \* ghost: other orders placed
    faults,   \* ghost: faults so far
    slipped   \* ghost: a stop has escaped the bot, through a failing request or a rollback

exchange == <<option, stops, order, coins>>
vars == <<option, stops, rec, order, trade, coins, bot, ordered, faults, slipped>>

NoOrder == [side |-> "none", amount |-> 0, st |-> "none"]
Idle == [pc |-> "idle", todo |-> {}, seen |-> {}, back |-> "idle", sell |-> 0]

Stops == DOMAIN stops
Live(s) == stops[s].st = "live"
\* open_sl_orders
OpenStops == {s \in Stops : rec[s] \in {"pending", "open"}}
HasOpenOrders == order.side # "none"

Go(pc) == bot' = [bot EXCEPT !.pc = pc]

Fault == faults < MaxFaults /\ faults' = faults + 1

-----------------------------------------------------------------------------
(* The exchange *)

\* Coins that no working order holds.
Free ==
    coins - (IF order.side = "exit" /\ order.st = "live" THEN order.amount ELSE 0)
          - (IF option.blocking THEN MapThenSumSet(LAMBDA s : stops[s].amount - stops[s].filled,
                                                          {s \in Stops : Live(s)})
             ELSE 0)

\* A stop is triggered and sells all or some of its coins.
StopFills(s) ==
    /\ Live(s)
    /\ \E a \in 1..(stops[s].amount - stops[s].filled) :
          /\ a <= coins
          /\ coins' = coins - a
          /\ stops' = [stops EXCEPT ![s].filled = @ + a,
                                    ![s].st = IF stops[s].filled + a = stops[s].amount
                                              THEN "filled" ELSE "live"]
    /\ UNCHANGED <<option, rec, order, trade, bot, ordered, faults, slipped>>

\* The exchange cancels a stop on its own.
StopDropped(s) ==
    /\ Live(s)
    /\ stops' = [stops EXCEPT ![s].st = "canceled"]
    /\ UNCHANGED <<option, rec, order, trade, coins, bot, ordered, faults, slipped>>

OrderFills ==
    /\ order.st = "live"
    /\ order.side = "exit" => coins >= order.amount
    /\ coins' = IF order.side = "exit" THEN coins - order.amount ELSE coins + order.amount
    /\ order' = [order EXCEPT !.st = "filled"]
    /\ UNCHANGED <<option, stops, rec, trade, bot, ordered, faults, slipped>>

-----------------------------------------------------------------------------
(* Recording what an order sold *)

\* update_trade: an exit or a stop that sold at least the trade's amount closes it.
Sold(t, amount) ==
    IF amount >= t.amount THEN [t EXCEPT !.open = FALSE] ELSE [t EXCEPT !.amount = @ - amount]

\* Mutant: a stop that sold anything closes the trade.
MutAnyStopCloses(t, filled) == IF filled = 0 THEN t ELSE [t EXCEPT !.open = FALSE]

\* update_trade_state for a stop that is final, with the given filled amount.  One that sold
\* nothing changes nothing of the trade.
StopSold(t, filled) == IF filled = 0 THEN t ELSE Sold(t, filled)

Committed(r) == [s \in DOMAIN r |-> IF r[s] = "pending" THEN "open" ELSE r[s]]

\* update_trade_state for a stop that is final: next is what the bot does then, unless the
\* trade is closed by it; then the other stops are cancelled before it goes on at after.
UpdateStop(s, filled, next, after) ==
    /\ rec' = Committed([rec EXCEPT ![s] = "closed"])
    /\ trade' = StopSold(trade, filled)
    /\ bot' = IF trade.open /\ ~trade'.open
              THEN [next EXCEPT !.pc = "cancel", !.back = after,
                                !.todo = OpenStops \ {s}]
              ELSE next

-----------------------------------------------------------------------------
(* cancel_stoploss_on_exchange: from bot.pc "cancel" on to bot.back *)

CancelAll(back) == [bot EXCEPT !.pc = "cancel", !.back = back, !.todo = OpenStops]

\* The stops are taken from the oldest to the newest.
Current == Min(bot.todo)
Rest == [bot EXCEPT !.todo = @ \ {Current}]

\* cancel_stoploss_order_with_result: the request succeeds, or is answered with the stop as it
\* is, final already.
CancelStop ==
    /\ bot.pc = "cancel" /\ bot.todo # {}
    /\ LET s == Current
       IN  /\ stops' = IF Live(s) THEN [stops EXCEPT ![s].st = "canceled"] ELSE stops
           /\ UpdateStop(s, stops[s].filled, Rest, bot.back)
    /\ UNCHANGED <<option, order, coins, ordered, faults, slipped>>

\* The result is made up, because the stop cannot be fetched after the request: it is as filled
\* as was recorded before.
CancelMadeUp ==
    /\ bot.pc = "cancel" /\ bot.todo # {}
    /\ Fault
    /\ LET s == Current
       IN  /\ stops' = IF Live(s) THEN [stops EXCEPT ![s].st = "canceled"] ELSE stops
           /\ \E filled \in 0..stops[s].filled :
                 /\ UpdateStop(s, filled, Rest, bot.back)
                 /\ slipped' = (slipped \/ filled < stops[s].filled)
    /\ UNCHANGED <<option, order, coins, ordered>>

\* Mutant: a refused request means that the stop is gone.
MutRefusedMeansGone ==
    /\ bot.pc = "cancel" /\ bot.todo # {}
    /\ IF Live(Current) THEN Fault /\ slipped' = TRUE ELSE UNCHANGED <<faults, slipped>>
    /\ bot' = Rest
    /\ rec' = [rec EXCEPT ![Current] = "closed"]
    /\ UNCHANGED <<exchange, trade, ordered>>

\* InvalidOrderException, usually because the stop is final: it is logged, and the loop goes on.
CancelRefused ==
    /\ bot.pc = "cancel" /\ bot.todo # {}
    /\ IF Live(Current) THEN Fault /\ slipped' = TRUE ELSE UNCHANGED <<faults, slipped>>
    /\ bot' = Rest
    /\ UNCHANGED <<exchange, rec, trade, ordered>>

\* TemporaryError: it ends the work on this trade.
CancelRaises ==
    /\ bot.pc = "cancel" /\ bot.todo # {}
    /\ Fault /\ slipped' = TRUE
    /\ Go("commit")
    /\ UNCHANGED <<exchange, rec, trade, ordered>>

CancelEnd ==
    /\ bot.pc = "cancel" /\ bot.todo = {}
    /\ Go(bot.back)
    /\ UNCHANGED <<exchange, rec, trade, ordered, faults, slipped>>

-----------------------------------------------------------------------------
(* manage_open_orders, as far as it concerns the stops *)

\* Mutant: an additional entry keeps the stop of the old amount.
MutKeepStop(side, stillOpen) == ~stillOpen

\* Mutant: a closed trade keeps its stop.
MutEntriesOnly(side, stillOpen) == side = "entry"

\* _update_trade_after_fill: after an entry, or when the trade is closed, stops are cancelled.
CancelAfterFill(side, stillOpen) == side = "entry" \/ ~stillOpen

BeginProcess ==
    /\ bot.pc = "idle" /\ trade.open
    /\ Go(IF HasOpenOrders THEN "manage" ELSE "stops")
    /\ UNCHANGED <<exchange, rec, trade, ordered, faults, slipped>>

ManageFilled ==
    /\ bot.pc = "manage" /\ order.st = "filled"
    /\ trade' = IF order.side = "entry" THEN [trade EXCEPT !.amount = @ + order.amount]
                ELSE Sold(trade, order.amount)
    /\ order' = NoOrder
    /\ bot' = IF CancelAfterFill(order.side, trade'.open) THEN CancelAll("stops")
              ELSE [bot EXCEPT !.pc = "stops"]
    /\ UNCHANGED <<option, stops, rec, coins, ordered, faults, slipped>>

\* The order works on, or times out and is cancelled.
ManageOpen ==
    /\ bot.pc = "manage" /\ order.st = "live"
    /\ order' \in {order, NoOrder}
    /\ Go("stops")
    /\ UNCHANGED <<option, stops, rec, trade, coins, ordered, faults, slipped>>

-----------------------------------------------------------------------------
(* handle_stoploss_on_exchange *)

BeginStops ==
    /\ bot.pc = "stops"
    /\ bot' = IF trade.open
              THEN [bot EXCEPT !.pc = "fetch", !.todo = OpenStops, !.seen = {}]
              ELSE [bot EXCEPT !.pc = "commit"]
    /\ UNCHANGED <<exchange, rec, trade, ordered, faults, slipped>>

FetchStop ==
    /\ bot.pc = "fetch" /\ bot.todo # {}
    /\ LET s == Current
           next == [Rest EXCEPT !.seen = @ \cup {[id |-> s, st |-> stops[s].st]}]
       IN  CASE stops[s].st = "live" ->
                  /\ rec' = Committed(rec)
                  /\ bot' = next /\ UNCHANGED trade
             [] stops[s].st = "canceled" -> UpdateStop(s, stops[s].filled, next, "commit")
             [] stops[s].st = "filled" ->
                  UpdateStop(s, stops[s].filled, [next EXCEPT !.pc = "commit"], "commit")
    /\ UNCHANGED <<exchange, ordered, faults, slipped>>

\* "Unable to fetch stoploss order": it is not counted below.
FetchFails ==
    /\ bot.pc = "fetch" /\ bot.todo # {}
    /\ Fault /\ slipped' = TRUE
    /\ bot' = Rest
    /\ UNCHANGED <<exchange, rec, trade, ordered>>

\* A TemporaryError ends the work on this trade.
FetchRaises ==
    /\ bot.pc = "fetch" /\ bot.todo # {}
    /\ Fault
    /\ Go("commit")
    /\ UNCHANGED <<exchange, rec, trade, ordered, slipped>>

\* Mutant: stops are placed again, but never for the first time.
MutOnlyAgain == bot.seen # {} /\ \A o \in bot.seen : o.st = "canceled"

\* No stop was found, or only cancelled ones.
StopMissing == \A o \in bot.seen : o.st = "canceled"

\* Mutant: the new stop is placed beside the old one.
MutPlaceBeside == [bot EXCEPT !.pc = "create"]

\* handle_trailing_stoploss_on_exchange: the stop is cancelled and placed again.
Trailing == CancelAll("trail")

DecideStop ==
    /\ bot.pc = "fetch" /\ bot.todo = {}
    /\ IF ~trade.open \/ trade.amount = 0 \/ (HasOpenOrders /\ option.blocking) THEN Go("decide")
       ELSE IF StopMissing THEN Go("create")
       ELSE \/ Go("decide")
            \/ option.trailing /\ bot' = Trailing
    /\ UNCHANGED <<exchange, rec, trade, ordered, faults, slipped>>

Trail ==
    /\ bot.pc = "trail"
    /\ Go(IF trade.open THEN "create" ELSE "decide")
    /\ UNCHANGED <<exchange, rec, trade, ordered, faults, slipped>>

\* create_stoploss_order
CreateStop ==
    /\ bot.pc = "create" /\ Len(stops) < MaxStops
    /\ Free >= trade.amount
    /\ stops' = Append(stops, [amount |-> trade.amount, filled |-> 0, st |-> "live"])
    /\ rec' = Append(rec, "pending")
    /\ Go("decide")
    /\ UNCHANGED <<option, order, trade, coins, ordered, faults, slipped>>

\* InsufficientFundsError: the orders that are recorded as open are looked up.
CreateRefused ==
    /\ bot.pc = "create"
    /\ Free < trade.amount
    /\ bot' = [bot EXCEPT !.pc = "refind", !.back = "decide",
                          !.todo = OpenStops]
    /\ UNCHANGED <<exchange, rec, trade, ordered, faults, slipped>>

\* InvalidOrderException: the trade is exited at once.  Any other error leaves it without stop.
CreateFails ==
    /\ bot.pc = "create"
    /\ \/ Fault
       \/ Len(stops) = MaxStops /\ UNCHANGED faults
    /\ \E emergency \in BOOLEAN :
          bot' = IF emergency THEN [bot EXCEPT !.pc = "exit", !.sell = -1]
                 ELSE [bot EXCEPT !.pc = "decide"]
    /\ UNCHANGED <<exchange, rec, trade, ordered, slipped>>

\* handle_insufficient_funds
Refind ==
    /\ bot.pc = "refind"
    /\ IF bot.todo = {} THEN Go(bot.back) /\ UNCHANGED <<rec, trade>>
       ELSE LET s == Current IN
            IF Live(s) THEN bot' = Rest /\ UNCHANGED <<rec, trade>>
            ELSE UpdateStop(s, stops[s].filled, Rest, bot.back)
    /\ UNCHANGED <<exchange, ordered, faults, slipped>>

-----------------------------------------------------------------------------
(* handle_trade, position adjustment and execute_trade_exit *)

\* Nothing, an exit of all (sell = 0) or of a part, or an additional entry.
Decide ==
    /\ bot.pc = "decide"
    /\ \/ Go("commit")
       \/ /\ trade.open /\ ordered < MaxOrders
          /\ \E amount \in {0, PartAmount} \ {IF PartAmount = 0 THEN -1 ELSE trade.amount} :
                bot' = [bot EXCEPT !.pc = "exit", !.sell = amount]
    /\ UNCHANGED <<exchange, rec, trade, ordered, faults, slipped>>

AddToPosition ==
    /\ bot.pc = "decide" /\ trade.open /\ ordered < MaxOrders
    /\ AddAmount > 0 /\ ~HasOpenOrders
    /\ order' = [side |-> "entry", amount |-> AddAmount, st |-> "live"]
    /\ ordered' = ordered + 1
    /\ Go("commit")
    /\ UNCHANGED <<option, stops, rec, trade, coins, faults, slipped>>

\* First the stops are cancelled, unless the exchange lets them be.
ExitBegins ==
    /\ bot.pc = "exit"
    /\ bot' = IF option.blocking THEN CancelAll("sell") ELSE [bot EXCEPT !.pc = "sell"]
    /\ UNCHANGED <<exchange, rec, trade, ordered, faults, slipped>>

\* emergency_exit (sell = -1) returns into handle_stoploss_on_exchange.
ExitEnd == IF bot.sell = -1 THEN "decide" ELSE "commit"

ExitAmount == IF bot.sell <= 0 THEN trade.amount ELSE bot.sell

\* _safe_exit_amount, confirm_trade_exit, and a similar order that is kept.
ExitNotPlaced ==
    /\ bot.pc = "sell"
    /\ Go(ExitEnd)
    /\ UNCHANGED <<exchange, rec, trade, ordered, faults, slipped>>

PlaceExit ==
    /\ bot.pc = "sell" /\ ~HasOpenOrders /\ ordered < MaxOrders
    /\ coins >= ExitAmount /\ Free >= ExitAmount
    /\ order' = [side |-> "exit", amount |-> ExitAmount, st |-> "live"]
    /\ ordered' = ordered + 1
    /\ rec' = Committed(rec)
    /\ Go(ExitEnd)
    /\ UNCHANGED <<option, stops, trade, coins, faults, slipped>>

ExitRefused ==
    /\ bot.pc = "sell" /\ ~HasOpenOrders
    /\ coins >= ExitAmount /\ Free < ExitAmount
    /\ bot' = [bot EXCEPT !.pc = "refind", !.back = ExitEnd,
                          !.todo = OpenStops]
    /\ UNCHANGED <<exchange, rec, trade, ordered, faults, slipped>>

\* The commit after exit_positions.
Commit ==
    /\ bot.pc = "commit"
    /\ rec' = Committed(rec)
    /\ bot' = Idle
    /\ UNCHANGED <<exchange, trade, ordered, faults, slipped>>

\* The recovery of another trade fails (handle_onexchange_order), or the process is killed,
\* before that commit.
Rollback ==
    /\ bot.pc = "commit"
    /\ "pending" \in Range(rec)
    /\ Fault /\ slipped' = TRUE
    /\ rec' = [s \in Stops |-> IF rec[s] = "pending" THEN "forgotten" ELSE rec[s]]
    /\ bot' = Idle
    /\ UNCHANGED <<exchange, trade, ordered>>

Closed ==
    /\ bot.pc = "idle" /\ ~trade.open
    /\ UNCHANGED vars

-----------------------------------------------------------------------------
Init ==
    /\ option \in [blocking : BOOLEAN, trailing : BOOLEAN]
    /\ stops = <<>> /\ rec = <<>> /\ order = NoOrder
    /\ trade = [open |-> TRUE, amount |-> Amount]
    /\ coins = Amount + ExtraCoins
    /\ bot = Idle /\ ordered = 0 /\ faults = 0 /\ slipped = FALSE

BotStep ==
    \/ BeginProcess \/ ManageFilled \/ ManageOpen
    \/ BeginStops \/ FetchStop \/ FetchFails \/ FetchRaises \/ DecideStop \/ Trail
    \/ CancelStop \/ CancelMadeUp \/ CancelRefused \/ CancelRaises \/ CancelEnd
    \/ CreateStop \/ CreateRefused \/ CreateFails \/ Refind
    \/ Decide \/ AddToPosition \/ ExitBegins \/ ExitNotPlaced \/ PlaceExit \/ ExitRefused
    \/ Commit \/ Rollback

Next ==
    \/ BotStep \/ Closed \/ OrderFills
    \/ \E s \in Stops : StopFills(s) \/ StopDropped(s)

Spec == Init /\ [][Next]_vars

\* The worker's thread goes on; nothing is assumed of the exchange.
FairSpec == Spec /\ WF_vars(BotStep)

-----------------------------------------------------------------------------
(* Properties *)

Status == {"live", "filled", "canceled"}
Records == {"pending", "open", "closed", "forgotten"}
StopType == [amount : Nat, filled : Nat, st : Status]
OrderType == [side : {"none", "entry", "exit"}, amount : Nat, st : {"none", "live", "filled"}]
Places == {"idle", "manage", "stops", "fetch", "trail", "create", "refind", "decide", "exit",
           "sell", "cancel", "commit"}
Backs == {"idle", "stops", "trail", "sell", "decide", "commit"}
Seen == [id : Nat, st : Status]
BotType == [pc : Places, todo : SUBSET Nat, seen : SUBSET Seen, back : Backs, sell : Int]

\* Every variable has its type; the bot works on stops that exist.
TypeOK ==
    /\ option \in [blocking : BOOLEAN, trailing : BOOLEAN]
    /\ stops \in Seq(StopType)
    /\ rec \in Seq(Records) /\ Len(rec) = Len(stops)
    /\ order \in OrderType
    /\ trade \in [open : BOOLEAN, amount : Nat]
    /\ coins \in Nat /\ ordered \in 0..MaxOrders
    /\ faults \in 0..MaxFaults /\ slipped \in BOOLEAN
    /\ bot \in BotType /\ bot.todo \subseteq Stops

\* A stop that the table has as closed works no more: no exit, and no other trade of the pair,
\* meets a stop that nobody looks at.
StopsAgree == \A s \in Stops : rec[s] = "closed" => ~Live(s)

\* Unless one has escaped, a trade has at most one working stop, through trailing, exits,
\* additional entries and stops that the exchange drops.
OneStop == slipped \/ Cardinality({s \in Stops : Live(s)}) <= 1

\* Where stops block the coins, a stop is for the whole position: additional entries and partial
\* exits leave none of the old amount.
StopMatches ==
    option.blocking /\ ~slipped /\ bot.pc = "idle" /\ trade.open /\ ~HasOpenOrders
        => \A s \in Stops : Live(s) => stops[s].amount = trade.amount

\* Nothing looks after the stops of a trade that is closed, so none is left, unless it escaped.
ClosedLeavesNoStop ==
    bot.pc = "idle" /\ ~trade.open /\ ~slipped => \A s \in Stops : ~Live(s)

\* A trade is closed when its coins are sold, by stops, parts of stops and exits together, and
\* not before; an additional entry that is still recorded as open is not counted.
ClosedMeansSold ==
    ~trade.open /\ ~slipped /\ order.side # "entry" => coins = ExtraCoins

\* A position without other orders gets its stop again and again, whatever the exchange drops,
\* as long as its coins are there.
Covered ==
    []<>(\/ ~trade.open \/ HasOpenOrders
         \/ \E s \in Stops : Live(s)
         \/ coins < trade.amount \/ Len(stops) = MaxStops)

=============================================================================
