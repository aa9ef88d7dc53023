--------------------------- MODULE TradeLifecycle ---------------------------
(***************************************************************************)
(* One trade of the live bot, from its first entry order to its close or   *)
(* deletion: src/xplitrade/xplitradebot.py with the order and trade records *)
(* of src/xplitrade/persistence/trade_model.py.                            *)
(*                                                                         *)
(* The exchange holds the truth about an order (ex); the database holds    *)
(* what the bot last learned of it (db) and the trade that is computed     *)
(* from it (trade).  The bot walks through process() in small steps (bot): *)
(* one step per call to the exchange and one per database commit, so that  *)
(* fills, cancellations on the exchange and crashes fall between them.     *)
(*                                                                         *)
(* Abstractions.  The trade is long, on spot.  Prices, timeouts, signals   *)
(* and the strategy's callbacks are nondeterministic decisions.  Amounts   *)
(* are small integers and fees in the base currency are left out.  Orders  *)
(* of side "stoploss" are the subject of another module.  The status       *)
(* "canceled" stands for all of CANCELED_EXCHANGE_STATES.                  *)
(***************************************************************************)
EXTENDS Integers, Sequences, FiniteSets, FiniteSetsExt, Functions

CONSTANTS
    MaxOrders,      \* bound: how many orders the exchange accepts in all
    EntryAmount,    \* amount of the first entry
    AdjustAmount,   \* amount of an additional entry (0: no position adjustment)
    MinAmount,      \* the exchange's minimum stake, in units of the base coin
    ExtraCoins,     \* base coins in the wallet that the bot did not buy
    MaxTimeouts,    \* unfilledtimeout.exit_timeout_count (0: no emergency exit)
    MaxCrashes,     \* bound: how often the process is killed
    Replacing,      \* the strategy implements adjust_order_price
    OrdersLost,     \* the exchange may answer "not found" for an order it holds
    Commands        \* the RPC commands in use, a subset of AllCommands

AllCommands == {"forceexit", "cancel_open_order", "delete", "reload_trade", "stop"}

ASSUME ConstantsAssumption ==
    /\ MaxOrders \in Nat \ {0}
    /\ EntryAmount \in Nat \ {0}
    /\ {AdjustAmount, MinAmount, ExtraCoins, MaxTimeouts, MaxCrashes} \subseteq Nat
    /\ {Replacing, OrdersLost} \subseteq BOOLEAN
    /\ Commands \subseteq AllCommands

VARIABLES
    ex,       \* the exchange's orders
    db,       \* the orders table: what is recorded of each order of the trade
    trade,    \* the trades table: the row of this trade
    bot,      \* the bot's thread
    crashes,  \* number of crashes so far
    torn      \* ghost: a crash came between the two commits of update_trade_state

vars == <<ex, db, trade, bot, crashes, torn>>

Orders == 1 .. MaxOrders
Statuses == {"none", "open", "closed", "canceled"}
Phases == <<"fees", "manage", "exit", "adjust", "enter">>

-----------------------------------------------------------------------------
(* The exchange *)

Nothing == [status |-> "none", filled |-> 0]

\* An order as fetch_order returns it.
ViewIn(e, o) == [status |-> e[o].status, filled |-> e[o].filled]
View(o) == ViewIn(ex, o)

Live == {o \in Orders : ex[o].status = "open"}

IsEntry(o) == ex[o].side = "buy"

\* What each order has moved, entries counted up and exits down, going by the records r.
Flow(r) == [o \in Orders |-> IF IsEntry(o) THEN r[o].filled ELSE -r[o].filled]

\* Base coins on the account: bought by the bot, not sold, and the user's own.
Wallet == ExtraCoins + SumFunctionOnSet(Flow(ex), Orders)

\* Base coins that are not tied up in a live sell order.
FreeCoins ==
    Wallet - SumFunctionOnSet([o \in Orders |-> ex[o].amount - ex[o].filled],
                              {o \in Live : ~IsEntry(o)})

Fill(o) ==
    /\ o \in Live
    /\ ex' = [ex EXCEPT ![o].filled = @ + 1,
                        ![o].status = IF ex[o].filled + 1 = ex[o].amount
                                      THEN "closed" ELSE "open"]
    /\ UNCHANGED <<db, trade, bot, crashes, torn>>

\* The order expires, is rejected late, or the user cancels it on the exchange.
CanceledOnExchange(o) ==
    /\ o \in Live
    /\ ex' = [ex EXCEPT ![o].status = "canceled"]
    /\ UNCHANGED <<db, trade, bot, crashes, torn>>

-----------------------------------------------------------------------------
(* The records of a trade *)

\* NON_OPEN_EXCHANGE_STATES; Order.ft_is_open is its negation.
IsFinal(v) == v.status \in {"closed", "canceled"}

\* check_order_canceled_empty
CanceledEmpty(v) == IsFinal(v) /\ v.filled = 0

Recorded == {o \in Orders : db[o].status # "none"}
OpenOrders == {o \in Orders : db[o].status = "open"}
FilledOrders(side) ==
    {o \in Orders : IsFinal(db[o]) /\ db[o].filled > 0 /\ ex[o].side = side}
CanceledExits ==
    {o \in Orders : db[o].status = "canceled" /\ ex[o].side = "sell"}

\* The sum of recalc_trade_from_orders over the closed orders.
NetAmount(d) == SumFunctionOnSet(Flow(d), {o \in Orders : IsFinal(d[o])})

\* recalc_trade_from_orders: the amount keeps its old value unless the sum is positive.
Recalc(t, d) == [t EXCEPT !.amount = IF NetAmount(d) > 0 THEN NetAmount(d) ELSE @]

\* LocalTrade.close
Close(t, d) == Recalc([t EXCEPT !.st = "closed"], d)

\* Mutant: an entry sets the amount without recalculating the trade.
MutNoRecalcOnEntry(t, d, o, recalculating) ==
    IF ex[o].side = "buy" THEN [t EXCEPT !.amount = d[o].filled]
    ELSE IF d[o].filled >= t.amount THEN Close(t, d) ELSE Recalc(t, d)

\* Mutant: every filled exit closes the trade.
MutAnyExitCloses(t, d, o, recalculating) ==
    IF ex[o].side = "buy" THEN Recalc([t EXCEPT !.amount = d[o].filled], d) ELSE Close(t, d)

\* update_trade for an order that is recorded as final.
UpdateTrade(t, d, o, recalculating) ==
    IF ex[o].side = "buy"
    THEN Recalc([t EXCEPT !.amount = d[o].filled], d)
    ELSE IF \/ d[o].filled = t.amount
            \/ ~recalculating /\ d[o].filled > t.amount
         THEN Close(t, d)
         ELSE Recalc(t, d)

NoTrade == [st |-> "none", amount |-> 0, fee |-> FALSE]

\* Mutant: the orders of a deleted trade stay behind.
MutDeleteTradeOnly == trade' = [NoTrade EXCEPT !.st = "deleted"] /\ UNCHANGED db

\* Trade.delete: the trade and its orders leave the database.
Delete ==
    /\ trade' = [NoTrade EXCEPT !.st = "deleted"]
    /\ db' = [o \in Orders |-> Nothing]

-----------------------------------------------------------------------------
(* The bot's thread.  pc is the place in the code; flow the loop or handler  *)
(* that is active and todo the orders it has not handled yet; back the loop  *)
(* it interrupted; seen the ccxt orders in hand and ord the one being        *)
(* handled; why the reason given to handle_cancel_order, inCancel whether    *)
(* update_trade_state runs inside it and asked whether it has asked the      *)
(* exchange; goal what to place once the open orders are out of the way, amt *)
(* how much and sake for whom; ret the result of the last handler.           *)

NoLoop == [flow |-> "none", todo |-> {}]

Idle(phase) ==
    [pc |-> "idle", phase |-> phase, flow |-> "none", todo |-> {}, back |-> NoLoop,
     ord |-> 1, seen |-> [o \in Orders |-> Nothing], why |-> "none",
     inCancel |-> FALSE, asked |-> FALSE, ret |-> FALSE, goal |-> "none", amt |-> 0, sake |-> "none"]

Down == [Idle("fees") EXCEPT !.pc = "down"]
Stopped == [Idle("fees") EXCEPT !.pc = "stopped"]

Follow(phase) ==
    LET i == CHOOSE i \in DOMAIN Phases : Phases[i] = phase
    IN  IF i = Len(Phases) THEN Phases[1] ELSE Phases[i + 1]

\* A clean control record for the next order of the current loop.
NextOrder(b) ==
    [b EXCEPT !.pc = "loop", !.ord = 1, !.why = "none", !.inCancel = FALSE, !.asked = FALSE, !.ret = FALSE,
              !.seen = IF b.flow = "recover" THEN @ ELSE [o \in Orders |-> Nothing]]

\* A loop over the orders of S.
Loop(b, flow, S) == NextOrder([b EXCEPT !.flow = flow, !.todo = S])

\* The loop that a handler interrupted goes on.
Resume(b) ==
    NextOrder([b EXCEPT !.flow = b.back.flow, !.todo = b.back.todo, !.back = NoLoop,
                        !.goal = "none", !.amt = 0, !.sake = "none"])

Init ==
    /\ ex = [o \in Orders |-> [side |-> "buy", amount |-> 0, filled |-> 0, status |-> "none"]]
    /\ db = [o \in Orders |-> Nothing]
    /\ trade = NoTrade
    /\ bot = Idle("fees")
    /\ crashes = 0
    /\ torn = FALSE

-----------------------------------------------------------------------------
(* update_trade_state *)

\* trade.update_order(order), committed on its own; a cancelled and unfilled
\* order makes update_trade_state return True.
UpdateOrder ==
    /\ bot.pc = "update_order"
    /\ LET o == bot.ord
           v == bot.seen[o]
       IN  /\ db' = [db EXCEPT ![o] = v]
           /\ bot' = IF CanceledEmpty(v)
                     THEN [bot EXCEPT !.pc = "updated", !.ret = TRUE]
                     ELSE [bot EXCEPT !.pc = "update_trade", !.ret = FALSE]
    /\ UNCHANGED <<ex, trade, crashes, torn>>

\* Recovery passes send_msg=False to update_trade_state.
Recalculating == bot.flow \in {"fees", "recover"}

\* handle_order_fee, trade.update_trade and _update_trade_after_fill, then commit.
\* An open order changes nothing.  The fee of an entry may or may not be found;
\* an additional entry resets it, for update_trades_without_assigned_fees to fetch.
UpdateTradeRow ==
    /\ bot.pc = "update_trade"
    /\ LET o == bot.ord
           t == UpdateTrade(trade, db, o, Recalculating)
           reset == ~Recalculating /\ Cardinality(FilledOrders("buy")) > 1
       IN  IF ~IsFinal(db[o])
           THEN UNCHANGED <<trade, torn>>
           ELSE /\ torn' = FALSE
                /\ IF ex[o].side = "buy"
                   THEN \E found \in {TRUE, trade.fee} :
                            trade' = [t EXCEPT !.fee = found /\ ~reset]
                   ELSE trade' = t
    /\ bot' = [bot EXCEPT !.pc = "updated"]
    /\ UNCHANGED <<ex, db, crashes>>

\* Where update_trade_state returns to.  handle_cancel_enter returns whether
\* nothing was filled; handle_cancel_exit whether it sent a cancel request.
Updated ==
    /\ bot.pc = "updated"
    /\ LET v == bot.seen[bot.ord]
           cancelFor(why) ==
             bot' = [bot EXCEPT !.pc = "cancel", !.why = why, !.ret = FALSE]
       IN  \/ /\ bot.inCancel
              /\ bot' = [bot EXCEPT !.pc = "canceled", !.inCancel = FALSE,
                                    !.ret = IF IsEntry(bot.ord) THEN @ ELSE bot.asked]
           \/ /\ ~bot.inCancel
              /\ bot.flow \in {"startup", "recover"}
              /\ bot' = NextOrder(bot)
           \/ /\ ~bot.inCancel
              /\ bot.flow = "fees"
              /\ bot' = Idle("manage")
           \/ /\ ~bot.inCancel
              /\ bot.flow = "placed"
              /\ bot' = [bot EXCEPT !.pc = "placed", !.ret = TRUE]
           \* manage_open_orders: time out, replace, cancel for the strategy, or keep.
           \/ /\ ~bot.inCancel
              /\ bot.flow = "manage"
              /\ IF bot.ret
                 THEN cancelFor("timeout")
                 ELSE \/ v.status = "open" /\ cancelFor("timeout")
                      \/ v.status = "open" /\ Replacing /\ cancelFor("replace")
                      \/ v.status = "open" /\ Replacing /\ cancelFor("user")
                      \/ bot' = NextOrder(bot)
    /\ UNCHANGED <<ex, db, trade, crashes, torn>>

-----------------------------------------------------------------------------
(* handle_cancel_order, handle_cancel_enter and handle_cancel_exit *)

\* replacing=True: handle_replace_order with a new price, or handle_similar_open_order.
IsReplacing == bot.why = "replace" \/ bot.flow = "similar"

\* Cancelling would leave a position below the minimum stake.
Unexitable(o) ==
    LET filled == bot.seen[o].filled
    IN  /\ filled > 0
        /\ IF IsEntry(o) THEN trade.amount + filled < MinAmount
                         ELSE trade.amount - filled < MinAmount

\* The order stays: it is partially filled and the rest could not be exited.
CancelKeep ==
    /\ bot.pc = "cancel"
    /\ bot.seen[bot.ord].status = "open"
    /\ Unexitable(bot.ord)
    /\ bot' = [bot EXCEPT !.pc = "canceled", !.ret = FALSE]
    /\ UNCHANGED <<ex, db, trade, crashes, torn>>

\* Mutant: the order is taken for cancelled with what was filled before the request.
MutAssumeCanceled(o) == [status |-> "canceled", filled |-> bot.seen[o].filled]

\* What cancel_order_with_result returns: the order as the exchange now has it.
CancelAnswer(o) == ViewIn(ex', o)

\* A request to cancel an order that was open when it was fetched: the exchange
\* cancels it, or does not, because it is final by now or for another reason.
RequestCancel ==
    /\ bot.pc = "cancel"
    /\ bot.seen[bot.ord].status = "open"
    /\ ~Unexitable(bot.ord)
    /\ LET o == bot.ord
       IN  \/ /\ o \in Live
              /\ ex' = [ex EXCEPT ![o].status = "canceled"]
           \/ UNCHANGED ex

\* cancel_order_with_result: the answer is the order as the exchange now reports it.
CancelOnExchange ==
    /\ RequestCancel
    /\ bot' = [bot EXCEPT !.pc = "cancel_result",
                          !.seen[bot.ord] = CancelAnswer(bot.ord),
                          !.asked = TRUE]
    /\ UNCHANGED <<db, trade, crashes, torn>>

\* The request fails with a TemporaryError, whether or not it arrived: placing an
\* order fails, a command fails, process() is given up until the next iteration, and
\* process_stopped, where nobody catches the error, takes the process down.
CancelRaises ==
    /\ RequestCancel
    /\ bot' = CASE bot.flow = "similar" -> [bot EXCEPT !.pc = "placed", !.ret = FALSE]
               [] bot.flow = "manage" -> Idle("fees")
               [] bot.flow = "stop" -> Down
               [] OTHER -> Idle(bot.phase)
    /\ UNCHANGED <<db, trade, crashes, torn>>

\* The order in hand is final already: no call to the exchange.
CancelKnown ==
    /\ bot.pc = "cancel"
    /\ IsFinal(bot.seen[bot.ord])
    /\ bot' = [bot EXCEPT !.pc = "cancel_result"]
    /\ UNCHANGED <<ex, db, trade, crashes, torn>>

\* Mutant: other orders are always expected to be around.
MutSomethingElse(o) == FALSE

\* No other order of the trade is open and no entry was ever filled.
NothingElse(o) == OpenOrders \ {o} = {} /\ FilledOrders("buy") = {}

\* Mutant: the result of the cancel request is not looked at.
MutNeverRefused(v) == FALSE

\* The order is still open after the request.
CancelRefused(v) == ~IsFinal(v)

CancelEnterResult ==
    /\ bot.pc = "cancel_result"
    /\ IsEntry(bot.ord)
    /\ LET o == bot.ord
           v == bot.seen[o]
       IN  IF CancelRefused(v)
           THEN /\ bot' = [bot EXCEPT !.pc = "canceled", !.ret = FALSE]
                /\ UNCHANGED <<db, trade>>
           ELSE IF v.filled = 0 /\ NothingElse(o) /\ ~IsReplacing
           THEN /\ Delete
                /\ bot' = [bot EXCEPT !.pc = "canceled", !.ret = TRUE]
           ELSE /\ bot' = [bot EXCEPT !.pc = "update_order", !.inCancel = TRUE]
                /\ UNCHANGED <<db, trade>>
    /\ UNCHANGED <<ex, crashes, torn>>

CancelExitResult ==
    /\ bot.pc = "cancel_result"
    /\ ~IsEntry(bot.ord)
    /\ bot' = [bot EXCEPT !.pc = "update_order", !.inCancel = TRUE]
    /\ UNCHANGED <<ex, db, trade, crashes, torn>>

\* replace_order_failed deletes a trade without a filled entry.
ReplaceFailed ==
    IF FilledOrders("buy") = {} THEN Delete ELSE UNCHANGED <<db, trade>>

\* What is left of an order; 0 makes execute_trade_exit take the whole trade.
Remaining(o) == ex[o].amount - db[o].filled

\* handle_cancel_order exits the trade at market after too many timeouts.
Emergency ==
    /\ bot.flow \in {"manage", "startup", "cancel_open_order"}
    /\ ~IsEntry(bot.ord) /\ bot.ret /\ ~IsReplacing
    /\ MaxTimeouts > 0
    /\ Cardinality(CanceledExits) >= MaxTimeouts

\* The loop pauses while another order is placed.
Place(goal, amt, sake) ==
    bot' = [bot EXCEPT !.pc = goal, !.goal = goal, !.amt = amt, !.sake = sake,
                       !.back = [flow |-> bot.flow, todo |-> bot.todo]]

\* Where handle_cancel_enter and handle_cancel_exit return to.
Canceled ==
    /\ bot.pc = "canceled"
    /\ LET o == bot.ord
           replacement == bot.why \in {"replace", "user"}
       IN  CASE Emergency ->
                  Place("exit", Remaining(o), "emergency") /\ UNCHANGED <<db, trade>>
             [] replacement /\ ~bot.ret ->
                  bot' = NextOrder(bot) /\ ReplaceFailed
             [] bot.why = "replace" /\ bot.ret ->
                  /\ Place(IF IsEntry(o) THEN "entry" ELSE "exit", Remaining(o), "replace")
                  /\ UNCHANGED <<db, trade>>
             [] OTHER ->
                  /\ bot' = [NextOrder(bot) EXCEPT
                               !.goal = IF bot.flow = "forceexit" /\ IsEntry(o) /\ bot.ret
                                        THEN "none" ELSE @]
                  /\ UNCHANGED <<db, trade>>
    /\ UNCHANGED <<ex, crashes, torn>>

-----------------------------------------------------------------------------
(* execute_entry and execute_trade_exit *)

\* The attempt to place an order ends without one.
NotPlaced == bot' = [bot EXCEPT !.pc = "placed", !.ret = FALSE]

\* No open order is in the way, or handle_similar_open_order: keep an order that
\* is the same, else cancel the open orders of the trade first.
ClearTheWay(amt) ==
    IF OpenOrders = {}
    THEN bot' = [bot EXCEPT !.pc = "create", !.amt = amt]
    ELSE \/ /\ \E o \in OpenOrders : ex[o].amount = amt /\ IsEntry(o) = (bot.goal = "entry")
            /\ NotPlaced
         \/ bot' = [Loop(bot, "similar", OpenOrders) EXCEPT !.amt = amt]

\* get_valid_enter_price_and_stake may leave no stake.
PrepareEntry ==
    /\ bot.pc = "entry"
    /\ NotPlaced \/ ClearTheWay(bot.amt)
    /\ UNCHANGED <<ex, db, trade, crashes, torn>>

\* _safe_exit_amount, then confirm_trade_exit, which a partial exit skips.
PrepareExit ==
    /\ bot.pc = "exit"
    /\ LET amt == IF bot.amt = 0 THEN trade.amount ELSE bot.amt
       IN  IF Wallet < amt
           THEN NotPlaced
           ELSE \/ bot.amt = 0 /\ NotPlaced
                \/ ClearTheWay(amt)
    /\ UNCHANGED <<ex, db, trade, crashes, torn>>

\* The exchange rejects the order.
CreateRejected ==
    /\ bot.pc = "create"
    /\ NotPlaced
    /\ UNCHANGED <<ex, db, trade, crashes, torn>>

\* The exchange accepts the order, and may fill it at once.
CreateOrder ==
    /\ bot.pc = "create"
    /\ bot.amt \in Nat \ {0}
    /\ bot.goal = "exit" => bot.amt <= FreeCoins
    /\ \E n \in Orders, filled \in {0, bot.amt} :
         /\ ex[n].status = "none"
         /\ \A m \in 1 .. n - 1 : ex[m].status # "none"
         /\ ex' = [ex EXCEPT ![n] =
                     [side   |-> IF bot.goal = "entry" THEN "buy" ELSE "sell",
                      amount |-> bot.amt, filled |-> filled,
                      status |-> IF filled = 0 THEN "open" ELSE "closed"]]
         /\ bot' = [bot EXCEPT !.pc = "record", !.flow = "placed",
                               !.ord = n, !.seen[n] = ViewIn(ex', n)]
    /\ UNCHANGED <<db, trade, crashes, torn>>

\* trade.orders.append and commit; an entry opens the trade and recalculates it.
RecordOrder ==
    /\ bot.pc = "record"
    /\ db' = [db EXCEPT ![bot.ord] = bot.seen[bot.ord]]
    /\ IF bot.goal = "entry"
       THEN trade' = Recalc([trade EXCEPT !.st = "open"], db') /\ torn' = FALSE
       ELSE UNCHANGED <<trade, torn>>
    /\ bot' = IF IsFinal(bot.seen[bot.ord])
              THEN [bot EXCEPT !.pc = "update_order"]
              ELSE [bot EXCEPT !.pc = "placed", !.ret = TRUE]
    /\ UNCHANGED <<ex, crashes>>

\* Where execute_entry and execute_trade_exit return to.
Placed ==
    /\ bot.pc = "placed"
    /\ CASE bot.sake = "replace" ->
              /\ bot' = Resume(bot)
              /\ IF bot.ret THEN UNCHANGED <<db, trade>> ELSE ReplaceFailed
         [] bot.sake = "emergency" ->
              bot' = Resume(bot) /\ UNCHANGED <<db, trade>>
         [] bot.sake = "forceexit" ->
              bot' = Idle(bot.phase) /\ UNCHANGED <<db, trade>>
         [] OTHER ->
              bot' = Idle(Follow(bot.phase)) /\ UNCHANGED <<db, trade>>
    /\ UNCHANGED <<ex, crashes, torn>>

-----------------------------------------------------------------------------
(* The loops over the open orders of the trade *)

\* Flows that give the order to update_trade_state; the others cancel it.
UpdatingFlows == {"manage", "startup"}

\* The orders the loop still has to handle; those of a deleted trade are gone.
Left == bot.todo \cap Recorded

LoopFetch ==
    /\ bot.pc = "loop" /\ bot.flow # "recover" /\ Left # {}
    /\ LET o == Min(Left)
       IN  bot' = [bot EXCEPT
                     !.pc = IF bot.flow \in UpdatingFlows THEN "update_order" ELSE "cancel",
                     !.ord = o, !.todo = @ \ {o}, !.seen[o] = View(o),
                     !.why = IF bot.flow \in UpdatingFlows THEN @ ELSE "timeout"]
    /\ UNCHANGED <<ex, db, trade, crashes, torn>>

\* The order cannot be fetched: the loops go on, the two commands give up.
LoopFetchFails ==
    /\ bot.pc = "loop" /\ bot.flow # "recover" /\ Left # {}
    /\ bot' = IF bot.flow \in {"forceexit", "cancel_open_order"}
              THEN Idle(bot.phase)
              ELSE NextOrder([bot EXCEPT !.todo = @ \ {Min(Left)}])
    /\ UNCHANGED <<ex, db, trade, crashes, torn>>

\* Mutant: the order is replaced by an empty one, as in cancel_order_with_result.
MutEmptyOrder(o) == [status |-> "canceled", filled |-> 0]

\* order.to_ccxt_object() with the status "canceled".
LostOrder(o) == [status |-> "canceled", filled |-> db[o].filled]

\* startup_update_open_orders takes an order the exchange does not find for cancelled.
AssumeCanceled ==
    /\ OrdersLost
    /\ bot.pc = "loop" /\ bot.flow = "startup" /\ Left # {}
    /\ LET o == Min(Left)
       IN  bot' = [bot EXCEPT
                     !.pc = "cancel", !.ord = o, !.todo = @ \ {o}, !.why = "timeout",
                     !.seen[o] = LostOrder(o)]
    /\ UNCHANGED <<ex, db, trade, crashes, torn>>

\* handle_onexchange_order goes through the orders that it fetched beforehand.
RecoverNext ==
    /\ bot.pc = "loop" /\ bot.flow = "recover" /\ bot.todo # {}
    /\ bot' = [bot EXCEPT !.pc = "update_order", !.ord = Min(bot.todo),
                          !.todo = @ \ {Min(bot.todo)}]
    /\ UNCHANGED <<ex, db, trade, crashes, torn>>

\* The end of handle_onexchange_order: a trade that only has cancelled entries is
\* deleted.  exit_positions goes on with the trade, the command returns.
RecoverEnd ==
    /\ bot.pc = "loop" /\ bot.flow = "recover" /\ bot.todo = {}
    /\ LET removed ==
             /\ trade.st = "open"
             /\ Wallet < trade.amount \/ (Wallet = 0 /\ trade.amount = 0)
             /\ \A o \in Recorded : IsEntry(o) /\ db[o].status = "canceled" /\ db[o].filled = 0
       IN  /\ IF removed THEN Delete ELSE UNCHANGED <<db, trade>>
           /\ bot' = IF bot.sake = "exit" /\ ~removed
                     THEN [Idle("exit") EXCEPT !.pc = "decide"]
                     ELSE Idle(IF bot.sake = "exit" THEN "adjust" ELSE bot.phase)
    /\ UNCHANGED <<ex, crashes, torn>>

\* Mutant: the loop is trusted to have cancelled every order.
MutCancellationTrusted == TRUE

\* After the loop: has_open_orders is looked up again, as a cancellation can be refused.
AllCanceled == OpenOrders = {}

LoopEnd ==
    /\ bot.pc = "loop" /\ bot.flow \notin {"recover", "forceexit"} /\ Left = {}
    /\ bot' =
         CASE bot.flow = "manage" -> Idle("exit")
           [] bot.flow = "startup" -> Idle("fees")
           [] bot.flow = "stop" -> Stopped
           [] bot.flow = "cancel_open_order" -> Idle(bot.phase)
           [] OTHER ->
                IF AllCanceled
                THEN [bot EXCEPT !.pc = "create"]
                ELSE [bot EXCEPT !.pc = "placed", !.ret = FALSE]
    /\ UNCHANGED <<ex, db, trade, crashes, torn>>

\* Parts of the position that leave nothing or at least the minimum stake.
ExitableParts == {p \in 1 .. trade.amount : trade.amount - p \notin 1 .. MinAmount - 1}

\* The second half of __exec_force_exit: all of the trade (0) or a part of it.
\* It gives up when an entry was fully cancelled or an order is still open.
ForceExitEnd ==
    /\ bot.pc = "loop" /\ bot.flow = "forceexit" /\ Left = {}
    /\ IF bot.goal = "exit" /\ AllCanceled
       THEN \E part \in {0} \cup ExitableParts :
              bot' = [bot EXCEPT !.pc = "exit",
                                 !.amt = IF part = trade.amount THEN 0 ELSE part]
       ELSE bot' = Idle(bot.phase)
    /\ UNCHANGED <<ex, db, trade, crashes, torn>>

-----------------------------------------------------------------------------
(* process(): its phases, in order, each under the exit lock *)

Enter(phase) == bot.pc = "idle" /\ bot.phase = phase
Skip(phase) == bot' = Idle(Follow(phase)) /\ UNCHANGED <<ex, db, trade, crashes, torn>>

\* The order whose fee is fetched again: the last filled entry of an open trade
\* without fee, while no entry is open, or the last filled exit of a closed trade.
FeeOrder ==
    LET filled == IF trade.st = "closed" THEN FilledOrders("sell")
                  ELSE IF trade.st = "open" /\ ~trade.fee /\ ~\E o \in OpenOrders : IsEntry(o)
                       THEN FilledOrders("buy") ELSE {}
    IN  {o \in filled : \A p \in filled : p <= o}

\* update_trades_without_assigned_fees
FeesPhase ==
    /\ Enter("fees")
    /\ \/ Skip("fees")
       \/ /\ \E o \in FeeOrder :
               bot' = [bot EXCEPT !.pc = "update_order", !.flow = "fees",
                                  !.ord = o, !.seen[o] = View(o)]
          /\ UNCHANGED <<ex, db, trade, crashes, torn>>

\* Mutant: only trades with a position are managed.
MutManagePositions == trade.st = "open" /\ trade.amount > 0

\* The trades that manage_open_orders looks at: Trade.get_open_trades.
Managed == trade.st = "open"

\* manage_open_orders
ManagePhase ==
    /\ Enter("manage")
    /\ IF Managed
       THEN /\ bot' = Loop(bot, "manage", OpenOrders)
            /\ UNCHANGED <<ex, db, trade, crashes, torn>>
       ELSE Skip("manage")

\* handle_onexchange_order fetches every order of the pair at once.
Recover(b) ==
    bot' = [Loop(b, "recover", {o \in Orders : ex[o].status # "none"})
              EXCEPT !.seen = [o \in Orders |-> View(o)]]

\* exit_positions: look for lost orders when the wallet cannot cover the exit.
ExitPhase ==
    /\ Enter("exit")
    /\ IF trade.st # "open"
       THEN Skip("exit")
       ELSE /\ \/ /\ OpenOrders = {} /\ trade.fee /\ Wallet < trade.amount
                  /\ Recover([bot EXCEPT !.sake = "exit"])
               \/ bot' = [bot EXCEPT !.pc = "decide"]
            /\ UNCHANGED <<ex, db, trade, crashes, torn>>

\* handle_trade: an exit signal, a stop or nothing.
DecideExit ==
    /\ bot.pc = "decide"
    /\ \/ /\ trade.st = "open" /\ trade.amount > 0
          /\ bot' = [bot EXCEPT !.pc = "exit", !.goal = "exit", !.sake = "exit"]
       \/ bot' = Idle("adjust")
    /\ UNCHANGED <<ex, db, trade, crashes, torn>>

\* process_open_trade_positions: the strategy adds to the position or takes from it,
\* and leaves at least the minimum stake.
AdjustPhase ==
    /\ Enter("adjust")
    /\ \/ Skip("adjust")
       \/ /\ AdjustAmount > 0 /\ trade.st = "open"
          /\ trade.amount > 0 \/ OpenOrders # {}
          /\ \/ bot' = [bot EXCEPT !.pc = "entry", !.goal = "entry",
                                   !.amt = AdjustAmount, !.sake = "adjust"]
             \/ \E part \in ExitableParts :
                    bot' = [bot EXCEPT !.pc = "exit", !.goal = "exit",
                                        !.amt = part, !.sake = "adjust"]
          /\ UNCHANGED <<ex, db, trade, crashes, torn>>

\* enter_positions
EnterPhase ==
    /\ Enter("enter")
    /\ \/ Skip("enter")
       \/ /\ trade.st = "none"
          /\ bot' = [bot EXCEPT !.pc = "create", !.goal = "entry",
                                !.amt = EntryAmount, !.sake = "enter"]
          /\ UNCHANGED <<ex, db, trade, crashes, torn>>

-----------------------------------------------------------------------------
(* Commands from the RPC threads.  They take the exit lock, so they fall      *)
(* between two phases (reload_trade does so here, though it takes no lock).   *)

Command(name) == name \in Commands /\ bot.pc = "idle"

ForceExit ==
    /\ Command("forceexit")
    /\ trade.st = "open"
    /\ bot' = [Loop(bot, "forceexit", OpenOrders)
                 EXCEPT !.goal = "exit", !.sake = "forceexit"]
    /\ UNCHANGED <<ex, db, trade, crashes, torn>>

CancelOpenOrder ==
    /\ Command("cancel_open_order")
    /\ trade.st = "open" /\ OpenOrders # {}
    /\ bot' = Loop(bot, "cancel_open_order", OpenOrders)
    /\ UNCHANGED <<ex, db, trade, crashes, torn>>

\* Errors of the cancel requests are ignored.
DeleteTrade ==
    /\ Command("delete")
    /\ trade.st \in {"open", "closed"}
    /\ \E ok \in SUBSET (OpenOrders \cap Live) :
         ex' = [o \in Orders |-> IF o \in ok THEN [ex[o] EXCEPT !.status = "canceled"] ELSE ex[o]]
    /\ Delete
    /\ UNCHANGED <<bot, crashes, torn>>

ReloadTrade ==
    /\ Command("reload_trade")
    /\ trade.st \in {"open", "closed"}
    /\ Recover(bot)
    /\ UNCHANGED <<ex, db, trade, crashes, torn>>

-----------------------------------------------------------------------------
(* Stop, start and crash of the bot *)

Stop ==
    /\ Command("stop")
    /\ bot.phase = "fees"
    /\ bot' = Stopped
    /\ UNCHANGED <<ex, db, trade, crashes, torn>>

\* process_stopped with cancel_open_orders_on_exit: cancel_all_open_orders.
StoppedCancelAll ==
    /\ bot.pc = "stopped"
    /\ trade.st = "open" /\ OpenOrders # {}
    /\ bot' = Loop(bot, "stop", OpenOrders)
    /\ UNCHANGED <<ex, db, trade, crashes, torn>>

\* startup: after a crash, or on the way from stopped to running.
Startup ==
    /\ bot.pc \in {"down", "stopped"}
    /\ bot' = Loop(Idle("fees"), "startup", OpenOrders)
    /\ UNCHANGED <<ex, db, trade, crashes, torn>>

\* The process is killed: only the exchange and the database remain.
Crash ==
    /\ bot.pc # "down"
    /\ crashes < MaxCrashes
    /\ crashes' = crashes + 1
    /\ torn' = (torn \/ (bot.pc \in {"update_order", "update_trade"} /\ IsFinal(db[bot.ord])))
    /\ bot' = Down
    /\ UNCHANGED <<ex, db, trade>>

-----------------------------------------------------------------------------

Exchange == \E o \in Orders : Fill(o) \/ CanceledOnExchange(o)

UpdateStep == UpdateOrder \/ UpdateTradeRow \/ Updated

CancelStep ==
    CancelKeep \/ CancelOnExchange \/ CancelRaises \/ CancelKnown \/ CancelEnterResult
      \/ CancelExitResult \/ Canceled

PlaceStep ==
    PrepareEntry \/ PrepareExit \/ CreateRejected \/ CreateOrder \/ RecordOrder \/ Placed

LoopStep ==
    LoopFetch \/ LoopFetchFails \/ AssumeCanceled \/ RecoverNext \/ RecoverEnd \/ LoopEnd
      \/ ForceExitEnd

PhaseStep ==
    FeesPhase \/ ManagePhase \/ ExitPhase \/ DecideExit \/ AdjustPhase \/ EnterPhase

Bot == UpdateStep \/ CancelStep \/ PlaceStep \/ LoopStep \/ PhaseStep

RPC == ForceExit \/ CancelOpenOrder \/ DeleteTrade \/ ReloadTrade

Lifecycle == Stop \/ StoppedCancelAll \/ Startup \/ Crash

Next == Exchange \/ Bot \/ RPC \/ Lifecycle

Spec == Init /\ [][Next]_vars

\* The bot's loop never stops by itself, commands do not keep it from the lock for
\* ever, the exchange answers a query that is repeated for ever, and a bot that
\* was killed is started again.
Fairness ==
    WF_vars(Bot) /\ SF_vars(PhaseStep) /\ SF_vars(LoopFetch) /\ WF_vars(Startup)

FairSpec == Spec /\ Fairness

-----------------------------------------------------------------------------
(* Properties *)

AtRest == bot.pc = "idle"

OrderRecord == [status : Statuses, filled : Nat]

\* Types of the records, and: a trade that does not exist has no orders
\* (Trade.delete removes them with the trade).
TypeOK ==
    /\ ex \in [Orders -> [side : {"buy", "sell"}, amount : Nat, filled : Nat, status : Statuses]]
    /\ db \in [Orders -> OrderRecord]
    /\ trade \in [st : {"none", "open", "closed", "deleted"}, amount : Nat, fee : BOOLEAN]
    /\ bot.seen \in [Orders -> OrderRecord]
    /\ bot.ord \in Orders /\ bot.todo \subseteq Orders /\ bot.back.todo \subseteq Orders
    /\ crashes \in 0 .. MaxCrashes /\ torn \in BOOLEAN
    /\ trade.st \in {"none", "deleted"} => Recorded = {}

\* An order that the database holds as no longer open is final on the exchange, with
\* the same filled amount: whatever races with a cancel request, no fill is missed
\* (handle_cancel_enter, handle_cancel_exit, update_trade_state).
FinalOrdersAgree ==
    \A o \in Orders : IsFinal(db[o]) => db[o] = View(o)

\* The trade never has two orders working on the exchange at once: execute_entry,
\* execute_trade_exit and the replacement of orders first get rid of the old one.
OneLiveOrder == Cardinality(Live) <= 1

\* Between two handlers the amount of an open position is the sum of its fills, for
\* any order of entries, partial exits, partial fills and cancellations
\* (update_trade and recalc_trade_from_orders), unless a crash has torn the two
\* commits of update_trade_state apart.
LedgerSound ==
    AtRest /\ ~torn /\ trade.st = "open" /\ NetAmount(db) > 0
      => trade.amount = NetAmount(db)

\* FinalOrdersAgree and LedgerSound beside crashes: no fill is missed by what
\* update_trade_state records of an order before and after a restart, and the amount
\* that update_trade computes is the sum of the fills.
RecordsSound == FinalOrdersAgree /\ LedgerSound

\* A closed trade has sold all it bought (update_trade decides to close from the
\* amount of one order, not from the sum).
ClosedMeansFlat ==
    AtRest /\ trade.st = "closed" => NetAmount(db) = 0

\* At the end of an iteration an open trade has a position or an open order: no
\* trade is left behind that nothing will ever act on again
\* (handle_cancel_enter deletes the trade with its last entry).
NoEmptyTrade ==
    Enter("fees") /\ trade.st = "open" => trade.amount > 0 \/ OpenOrders # {}

\* NoEmptyTrade as long as the bot did not crash: handle_cancel_enter leaves no trade behind
\* that nothing will ever act on again.
NoTradeLeftEmpty == crashes = 0 => NoEmptyTrade

\* The bot deletes a trade by itself only when none of its recorded orders is live
\* and nothing was bought (handle_cancel_enter, replace_order_failed and the end of
\* handle_onexchange_order).
DeletesSafely ==
    trade.st = "open" /\ trade'.st = "deleted" /\ bot.pc # "idle"
      => \A o \in Recorded : ex[o].status # "open" /\ ex[o].filled = 0

DeletionIsSafe == [][DeletesSafely]_vars

\* DeletionIsSafe but for replace_order_failed: handle_cancel_enter and handle_onexchange_order
\* delete a trade only when none of its orders is live and nothing was bought.
DeletionsSafe ==
    [][bot.why \notin {"replace", "user"} /\ bot.sake # "replace" => DeletesSafely]_vars

\* As long as an order is recorded, the fills that were recorded of it are not
\* forgotten, not even when the exchange no longer finds the order.
KeepsFills ==
    \A o \in Orders :
      db'[o].filled >= db[o].filled \/ (trade'.st = "deleted" /\ db'[o] = Nothing)

FillsNeverForgotten == [][KeepsFills]_vars

\* What became of an order of an open trade on the exchange reaches the database in the
\* end, through failing queries, commands and crashes (manage_open_orders,
\* startup_update_open_orders), also when the trade closes meanwhile.
OutcomeRecorded ==
    \A o \in Orders :
      (trade.st = "open" /\ db[o].status = "open" /\ ex[o].status # "open")
        ~> (db[o].status # "open")

\* The records keep what OrderRecords promises of them: each follows its order through its life,
\* never backwards and never ahead of it, however old the copy is that update_trade_state
\* writes and whichever loop was interrupted by which, through crashes and recovery; and a
\* deleted trade gets no record any more.
Records == INSTANCE OrderRecords
               WITH order <- [o \in Orders |-> View(o)], record <- db,
                    dropped <- trade.st = "deleted"
KeepsRecords == Records!RSpec

=============================================================================
