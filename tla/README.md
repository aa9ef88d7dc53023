# Verification of xplitrade

TLA+ models of this repository's trading bot and of its backtesting, model-checked with TLC
and, in large part, proved with TLAPS. The models are translated from `src/xplitrade`;
`PROJECT.json` names the source lines of each definition.

| Module | What it models | Checked through | Proofs |
|---|---|---|---|
| `OrderRecords` | abstract: the records of a trade's orders follow the orders, never backwards and never ahead | `TradeLifecycle` | |
| `TradeLifecycle` | one trade: its orders on the exchange and in the database, the handlers that cancel, replace and place orders, crash and recovery; implements `OrderRecords` | `MCTradeLifecycle` | `TradeLifecycle_proof` |
| `EntrySlots` | new trades: `max_open_trades`, one trade per pair, forced entries from RPC threads | `MCEntrySlots` | `EntrySlots_proof` |
| `Worker` | the worker's loop, the bot's instances, the commands that start, stop, pause and reload it | `MCWorker` | `Worker_proof` |
| `StoplossOnExchange` | the stoploss orders of a trade: creation, trailing, cancellation, exits around them | `MCStoplossOnExchange` | `StoplossOnExchange_proof` |
| `PairLocks` | pair locks, the four protections, the entries they hold back | `MCPairLocks` | `PairLocks_proof` |
| `SignalStream` | candles from a producer to a consumer over a connection that breaks | `MCSignalStream` | `SignalStream_proof` |
| `StopLoss` | the stop loss of a trade: trailing, custom stops, fills, reloads | `MCFigures` | `Figures_proof` |
| `Wallets` | the dry run's balance, stakes and profits beside forced entries | `MCFigures` | `Figures_proof` |
| `TradeSlots` | abstract: slots, of which at most a limit are taken, one per pair | `Backtest` | |
| `Backtest` | the loops of `backtest()` over candles, detail candles and pairs; implements `TradeSlots` | `MCBacktest` | `Backtest_proof` |

Run a check with `tlc -config <run>.cfg <MC module>.tla`, a proof with
`tlapm <Module>_proof.tla`. Runs called `bug_*` are expected to fail.

## 1. Inventory: the system

| Component | Source | State | Operations |
|---|---|---|---|
| Worker | `worker.py`, `commands/trade_commands.py` | the bot's instance, the state read last | `_worker`, `_process_running`, `_reconfigure`, `exit` |
| Bot | `xplitradebot.py` | `state`, `_exit_lock`, whitelist, wallets | `process` and its phases: fees, open orders, exits, adjustments, entries; `startup`, `process_stopped`, `cleanup` |
| Trades and orders | `persistence/trade_model.py` | the rows of trades and orders | `update_order`, `update_trade`, `recalc_trade_from_orders`, `close`, `adjust_stop_loss`, `delete` |
| Sessions | `persistence/models.py` | a session with its objects for each thread or request | commit, rollback, expiry |
| Pair locks, protections | `persistence/pairlock*.py`, `plugins/protectionmanager.py` | locks with an end, reason and side | lock, unlock, test |
| Wallets | `wallets.py` | balances, time of the last update | `update`, stake amounts, `check_exit_amount` |
| Exchange | `exchange/exchange.py`, `exchange/common.py` | dry-run orders, caches; the orders of the account are outside | create, fetch and cancel orders; retries |
| RPC | `rpc/rpc.py`, `rpc/rpc_manager.py` | none of its own | start, stop, pause, reload, forceenter, forceexit, cancel, delete, reload_trade, queries |
| Transports | `rpc/telegram.py`, `rpc/api_server`, `rpc/webhook.py`, `rpc/discord.py` | threads, queues | serve commands, send messages |
| Message stream | `rpc/external_message_consumer.py`, `rpc/api_server/api_ws.py`, `data/dataprovider.py` | channels, queues, copies of data frames | broadcast, request, append or replace candles |
| Pairlists, data provider | `plugins`, `data` | lists and candles | refresh |
| Strategy, FreqAI | `strategy`, `freqai` | user code, models | callbacks |
| Backtesting | `optimize/backtesting.py` | open trades by pair, counters, rejected signals | `backtest`, `backtest_loop`, entries, exits, timeouts, replacements |
| Hyperopt, plotting, configuration | `optimize`, `plot`, `configuration` | none shared with the live bot | sequential |

How they interact. One thread, the worker's, calls `process()` over and over. The RPC
threads (Telegram's loop, the API server's pool) call the same bot object. They meet in
three places: `XplitradeBot.state`, which has no lock; the database, through a session
of each thread; and `_exit_lock`, which the phases of `process()` take one after the other
(an entry takes it for each pair) and which `forceenter`, `forceexit`, `cancel_open_order`
and `delete` take as well. The exchange is a fourth party: orders fill and disappear there
at any time, requests fail, answers are old as soon as they are read. The process may die
anywhere; only the database and the exchange remain.

What makes each part correct, and what is hard about it:

- Trades and orders: the records agree with the exchange; no order is forgotten; one order
  works at a time; a trade closes when it is flat; an empty trade is removed, and no other.
  Hard: fills that race with cancel requests, refused cancellations, loops that interrupt
  each other (replace inside manage, cancel inside place), crashes between commits.
- Entries: the limits hold. Hard: tests made before a lock and used under it.
- Worker: commands are obeyed, startup comes before trading. Hard: an unprotected state
  read once per loop, instances replaced under the threads that use them.
- Stoploss on exchange: a position has one stop of its size, a closed trade none. Hard: stops
  that trigger between any two requests, and requests that fail in the middle of a loop.
- Stop loss: it only tightens, through evaluations, fills and reloads in any order.
- Pair locks: what a protection or a user demands holds until its end. Hard: locks that are
  left out because another covers them, while users release locks; signals older than a lock.
- Ledger and wallet: profits are the cash that came in, the balance is explained by them, and
  entries stay within it. Hard: averages over partial exits, forced entries beside the bot's.
- Message stream: a copy of candles has no holes and catches up. Hard: broadcasts and answers
  overtake each other around a lost connection.
- Backtesting: it keeps the limits that the live bot promises. Hard: counters kept by hand
  over several visits of a pair in one candle.
- Sessions: what a thread decides on is not older than the lock it holds.

The hazards, each at its line, are in `PROJECT.json`.

## 2. Plan

1. `TradeLifecycle`, `EntrySlots`, `Worker` (done): the core, with proofs; `OrderRecords` (done),
   the abstract specification of the records, which `TradeLifecycle` implements.
2. `StoplossOnExchange`, `StopLoss`, `PairLocks`, `Wallets` (done), all proved.
3. `SignalStream` (done), proved; `TradeSlots` and `Backtest` (done): the detailed module
   implements the abstract one, by TLC and by proof.
4. Left, in this order: crashes in `StoplossOnExchange`; `Retrier`, the retries of
   `exchange/common.py`; `TradeSessions`, the copies of trades in the session of each thread.

## 3. TradeLifecycle

### State and code

`ex` is the exchange: side, amount, filled amount and status of each order. `db` is the
orders table, `trade` the trade's row (`st` is its life, `amount`, `fee` whether the
entry's fee is known). `bot` is the bot's thread as a record: `pc` the place in the code,
`flow` and `todo` the loop that is active and its orders, `back` the loop that it
interrupted, `seen` the ccxt orders in hand. One step is one call to the exchange or one
commit, so fills, cancellations on the exchange and crashes fall between any two.

| Code | Actions |
|---|---|
| `update_trade_state` | `UpdateOrder` (the first commit), `UpdateTradeRow` (the second), `Updated` (the return to the caller) |
| `handle_cancel_enter`, `handle_cancel_exit`, `cancel_order_with_result` | `CancelKeep`, `CancelOnExchange`, `CancelRaises`, `CancelKnown`, `CancelEnterResult`, `CancelExitResult`, `Canceled` |
| `execute_entry`, `execute_trade_exit`, `handle_similar_open_order` | `PrepareEntry`, `PrepareExit`, `CreateRejected`, `CreateOrder`, `RecordOrder`, `Placed` |
| the loops over open orders (`manage_open_orders`, `startup_update_open_orders`, `cancel_open_orders_of_trade`, `__exec_force_exit`, `handle_onexchange_order`) | `LoopFetch`, `LoopFetchFails`, `AssumeCanceled`, `RecoverNext`, `RecoverEnd`, `LoopEnd`, `ForceExitEnd` |
| `process()` | `FeesPhase`, `ManagePhase`, `ExitPhase`, `DecideExit`, `AdjustPhase`, `EnterPhase` |
| commands | `ForceExit`, `CancelOpenOrder`, `DeleteTrade`, `ReloadTrade`, `Stop` |
| start, stop, crash | `StoppedCancelAll`, `Startup`, `Crash` |

### Abstractions

One long trade on spot, orders good till cancelled. Timeouts, prices, signals and callbacks
are nondeterministic. Amounts are small integers: the tolerances of a few percent in
`_safe_exit_amount` and `check_exit_amount` disappear, and so do fees in the base coin.
`canceled` stands for all of `CANCELED_EXCHANGE_STATES`. Stoploss orders are in
`StoplossOnExchange`. A cancel request may succeed, be refused (the order is still reported open), find
the order final, or raise a `TemporaryError` with or without effect. Not modelled: the
cancelled order that `cancel_order_with_result` makes up when the exchange knows the order
neither for the request nor for the query, and an order that comes back from `create_order`
cancelled at once (immediate-or-cancel).

### Runs

| Run | Question | Bounds |
|---|---|---|
| `trade_races` | do the records follow the exchange through every race? (`FinalOrdersAgree`, `OneLiveOrder`, `LedgerSound`, `ClosedMeansFlat`) | 3 orders, an entry of 3 with minimum 2, adjustments of 1, replacement, emergency exit after one timeout, two commands |
| `trade_outcome` | does every outcome reach the database, and is a trade removed when, and only when, nothing is left of it? (`RecordsSound`, `NoTradeLeftEmpty`, `DeletionsSafe`, `OutcomeRecorded`, `KeepsRecords`) | 4 orders, an entry of 2, one crash, replacement, two commands, fairness |
| `trade_lost_orders` | does an exchange that loses orders make the bot forget fills? (`FillsNeverForgotten`) | 3 orders, replacement, all commands |

Three orders are an entry, a second order that interferes with it (an additional entry, an
exit, a replacement) and one more that meets the outcome of both; with amounts of two or
three, partial fills, partial exits and positions below the minimum exist. The minimum of
2 with an entry of 3 makes `Unexitable` both true and false. A fourth order follows a
replacement that was itself interrupted by a crash.

`KeepsRecords` is the refinement of `OrderRecords`, where `order` is what a query of each order
would answer (`View`), `record` the orders table, and `dropped` that the trade was deleted. There
the exchange moves orders on (`Exchange`), the bot records one order at a time, which may be
old but lies between what is recorded and what the exchange has (`Learn`), and the trade is
dropped once with all its records (`Drop`). A record that is not final may lag
behind the order, then, but only by steps that the order may have taken since.

`LedgerSound` and `RecordsSound` excuse the time after a crash between the two commits of
`update_trade_state` (`torn`): the order is final in the database, the trade's amount is
old, and only the next update of the trade repairs it. `DeletionsSafe` leaves out the
deletions of `replace_order_failed`, which `bug_replace_deletes` shows to be unsafe.
`NoTradeLeftEmpty` is about processes that have not crashed, and `trade_outcome` adjusts no
position, because an adjusted or crashed trade can be left empty; `reload_trade` is not
among the commands of the two runs whose properties it breaks. Section 11 has the formulas.

### Fairness

`FairSpec` assumes that the bot's thread takes steps (the worker loops for ever), that it
gets from one phase to the next although commands keep taking the lock (strong fairness of
`PhaseStep`), that a query that is repeated for ever is answered once in a while (strong
fairness of `LoopFetch`), and that a killed bot is started again (`Startup`). Nothing is
assumed of fills, of cancel requests or of commands.

### What the code does not keep

`bug_replace_deletes`: a refused cancel request during a replacement makes
`replace_order_failed` delete the trade, and its order stays live. Section 11 lists more.

### Proofs

`FinalOrdersAlwaysAgree` proves `Spec => []FinalOrdersAgree` for every value of the
constants, on the assumption `~OrdersLost`. `FinalOrdersAgree` is not inductive: the
database learns of an order through `bot.seen`, a copy older than the exchange. The
inductive invariant `Agreement` adds that what the bot holds as final is what the exchange
has (`SeenAgrees`) and the shape of the records. A final order never changes, so neither
part is disturbed by the exchange; `QuietStep` handles all steps that leave the exchange and
the copies alone, and the lemmas after it the few that fetch, cancel, create and record.

`FillsStayRecorded` proves `Spec => FillsNeverForgotten` for every value of the constants, also
for an exchange that loses orders. The invariant `Fills` says that amounts on the exchange
only grow, that the database and the copies in hand are behind it, and that a copy which may
still be written (`HeldBy`) has at least the fills recorded of its order. The last part is said
of the place in the code (`Control`), because loops interrupt each other: an order may be
fetched, an emergency exit placed in between, and the loop goes on with no copy at all. The
recovery of orders is the exception, as it works on a list fetched at its start; nothing
interrupts it, and that is part of the invariant.

`NeverTwoLiveOrders` proves `Spec => []OneLiveOrder` on the assumptions `~OrdersLost` and
`MaxCrashes = 0`. Both are needed: a process killed between an order and its record leaves a live
order nobody knows of, and an order that is taken for lost while it lives is replaced by a second.
The heart of the invariant (`Alone`) is that the database knows every live order but the one
about to be recorded, so that an empty `OpenOrders` means nothing is live (`NoOpenNoneLive`);
a deleted trade is the exception, as its orders leave the database alive when a cancel request
fails. That exception is harmless only because no handler places an order for a trade
that is gone, which is the second invariant, `Places`: where the bot may be before a trade exists
(`Begins`) and after it was deleted (`Ends`), and which loop may be interrupted by which
(`Course`). `Places` holds through crashes and lost orders too.

The other proofs are about amounts, which are sums over sets of orders (`NetAmount`, `Wallet`,
`FreeCoins`). The library's induction theorems cannot be used, so `TradeLifecycle_proof` begins with
a layer of its own: the well-foundedness of `<` on the naturals gives induction for a property that is
a set of numbers (`CountingUp`) or a set of subsets (`BySize`), and from that the recursion of
`SumFunctionOnSet` is solved, its solution unique, and a sum may be taken apart at any element.

`RecordsTyped` proves `Spec => []TypeOK` for every value of the constants. That the amount of a trade is
natural is not obvious, as it is a difference: `recalc_trade_from_orders` takes a sum over only when it
is positive.

`LedgerAlwaysSound` and `RecordsAlwaysSound` prove the two invariants on the assumption `~OrdersLost`
(an order taken for lost is recorded as empty, whatever it had filled), through any number of crashes.
The invariant `Ledger` extends them to the time between the two commits of `update_trade_state`
(`Mid`, `Balanced`), and needs that what the bot holds of an order that is recorded as final is final too
(`SeenFinal`), or writing it would take a fill out of the sum again. The sum is taken over all orders,
with nothing for those that are not final, so that a step changes one term of it (`SumChangesOne`).

`DeletionsAlwaysSafe` proves `DeletionsSafe`, with `~OrdersLost`, also through crashes. The branches that
delete look at one order, or at the entries recorded as filled, and not at what was sold. The invariant
`Purchase` says why that suffices: as long as no entry is recorded with a fill, nothing but entries was
ever placed and the amount is zero, so that there is nothing that an exit could be placed for (`Bought`,
`Spare`).

`ClosedAlwaysFlat` proves `Spec => []ClosedMeansFlat` on the assumptions `~OrdersLost`, `MaxCrashes = 0`,
`ExtraCoins = 0` and no `reload_trade`. `update_trade` closes a trade when the amount of one exit
equals the trade's; that this is the whole sum follows from two invariants. `Accounts`: every order that the
exchange has accepted is recorded as final, or is the only one that is not. `Exact`: exits that are
live or filled are covered by what entries brought (`FreeOf`), at every step, since `_safe_exit_amount`
asks the wallet before each exit. TLC shows that each assumption is needed. A crash between the two
commits for a partial exit makes the recovery compute the new amount with the entry, and then compare
the old exit with what is left and close the trade (xplitradebot.py:583); `reload_trade` does the same
without a crash. With other coins on the account a forced exit sells them when the exit it cancelled
turns out filled (rpc.py:1079).

`NeverLeftEmpty` proves `Spec => []NoTradeLeftEmpty` on the assumptions `~OrdersLost`,
`AdjustAmount = 0`, and neither `reload_trade` nor `stop` among the commands; crashes may happen, the property
is about the time before the first one. The invariant `Manned` says that a trade without an amount
has an open order, or an entry whose fill is recorded and about to be added, or a handler that has the
empty order in hand and will delete the trade or replace the order (`EmptyHand`). Each assumption
is needed. With additional entries, an entry that was cancelled unfilled on the exchange is cleared
away for the additional one with `replacing`, which keeps the trade, and when the new order is rejected
nothing is left of it. After a stop, `startup_update_open_orders` records such an entry and deletes nothing.
`reload_trade` records it too, and keeps the trade when the wallet holds other coins.

`RecordsAlwaysKept` proves the refinement, `Spec => KeepsRecords`, on the assumption `~OrdersLost`, for
any number of orders and through any number of crashes. Each step of the module is mapped to a step of
`OrderRecords` or to a stutter (`StepRecords`): only a few actions write `db` or `trade` at all
(`Writers`), and orders move on in the others (`ExchangeMovesOn`). The step that carries it is `HandBetween`,
for the two actions that write a copy: the copy has at least the fills recorded (`Fills`), no more
than the exchange, is final if what is recorded is final (`SeenFinal`) and is then what the
exchange has (`SeenAgrees`). That nothing is recorded of a deleted trade is `Places`.

## 4. EntrySlots

`trades` is the table; `bot` the loop of `enter_positions` with its list of pairs and count
of free slots; `caller` the RPC threads in `_rpc_force_entry` with what they looked up
before they wait for `_exit_lock`. A section under the lock is one step. `CheckSlots` is the
last part of `process()`, `ChoosePairs` and `CreateTrade` are `enter_positions` with
`create_trade`; `ForceEntryCheck` and `ForceEntryExecute` are the two halves of a forced
entry; trades close at any time.

Run: `entry_slots` (two pairs, two slots, two callers, four trades, position adjustment)
checks `BotKeepsPairsApart` and `OvershootBounded`: at most one trade too many
for each thread. Two callers and two slots let the bound be reached: a caller forces a trade
while the bot holds its list, and both callers count before either of them opens. With two
pairs a pair can be entered, closed and entered again between the bot's choice and its
entry. The pairs and callers are symmetric.

`bug_pair_doubled` shows that a forced entry and the bot's own open two trades on one pair,
where the documentation promises one. Section 11 has the limit on open trades.

Proved for any pairs, limits and threads: `EntrySlotsTyped`, `OvershootAlwaysBounded` and
`BotAlwaysKeepsPairsApart`. `OvershootBounded` counts a waiting caller as the trade it may
open, which makes it inductive on top of the types. `BotKeepsPairsApart` needs `TodoClear`:
a pair still on the bot's list can have been entered since only by a forced entry. The
proofs use `ConstantsAssumption` (finitely many callers, a positive limit).

## 5. Worker

`state` is `XplitradeBot.state`; `worker` the place of the worker's thread and the state it
read last; `handler` the RPC threads between their reads and writes of `state`. Each read
and each write is a step. `trusted`, `since` and `started` are ghosts: the last command that
was accepted and where the worker was then, what began since, whether `startup()` was
called. `Die` covers signals and unhandled errors, `Restart` a new process.

Run: `worker_commands` (three RPC threads) checks `StartedBeforeTrading`,
`StopBoundsTrading` (after a stop, at most one more `process()` begins and it enters
nothing) and `StopObeyed` (the stop reaches `process_stopped`). Three threads allow a
command between the two tests of another's pause while a third interferes; the counter of
`process()` calls saturates at 2, one above the claim. `StopObeyed` assumes weak fairness of
the worker's thread, whose loop never waits for a command, and of handlers at work: calls to
the exchange time out and handlers do not block.

Section 11 has four commands that are answered and then lost.

Proved for any number of threads: `WorkerTyped`, `NeverTradesUnstarted` and
`StopAlwaysBoundsTrading`. The invariant `Control` adds that no thread is at work where none
is attached (`Detached`), that a worker which last read a trading state has started the bot
(`Started`), and where the worker can be after a stop (`StopHolds`). The only assumption is
`ConfigAssumption`.

## 6. PairLocks

`locks` is the table, `seen` the date of the last candle that the analysis of each pair knows,
`closing` the protections that `handle_protections` still has to run for a trade that closed,
`entering` the pairs that `enter_positions` has not tried yet. A close is several steps
(`CloseTrade`, `AutoLock`, one `Protect` for each protection, `ProtectionsDone`), so users and
strategies lock and unlock between them; `late` trades become known one minute after the fill,
as `order_close_notify` runs when the bot looks at the order. `due` is a ghost: all that was
demanded and not released since; a release drops what it covers.

Run `locks` (one pair, all four protections, 5 minutes with candles of 2 and days of 4, two
closes, one call of a user): `ProtectionHolds` and `FreshEntries`. The four protections demand
different ends, so that one may be left out because of another; two closes let
the limits of 2 and 1 be reached; the clock goes past every demand. Deadlock is not checked,
because the clock stops at its bound.

Proved for any pairs, protections, candles and users: `DemandsAlwaysHold` and
`EntriesAlwaysFresh`, and the types (`LocksTyped`). The properties are not inductive: a lock may be left out because another
one reaches further. The invariant `Enforced` says that each demand has one active lock that
covers it and ends later, and keeps saying so after the demand's end, which is what the entries
on older candles need.

What the models show besides: a lock that was left out because of a longer one is lost when
the longer one is released, in list mode (backtesting) `unlock_reason` ignores its argument
`now`, and a process that dies between the commit of a close and `handle_protections` never
sets the locks of that close (`Restart` drops the demands that were not made yet).

## 7. SignalStream

Producer: `Analyze`, the stream of `api_ws.py`, `Broadcast` and `Answer`, the two tasks of
each connection. Consumer: `Connect`, `SendInitial`, `Listen`, `SendWanted`, `Receive`, the tasks of
`external_message_consumer.py`, where `Receive` adds candles with
`DataProvider._add_external_df`. Candles are numbers; a data frame is the set of its candles.
The faults are lost connections and restarts of the producer.

Run `signals` (8 candles of the market, 4 kept, 3 messages under way, 2 faults, threshold 4):
`NoHoles` and `CatchesUp`. Three messages let a broadcast overtake an answer and a second
request follow the first; the market goes on long enough for a copy to fall behind by more
than the threshold after the last fault, so both the append and the replacement of the copy
happen. `Spec` assumes weak fairness of each task, as they are loops over awaited queues
that wait for nothing else; the faults end because they are bounded, and nothing is
assumed of when. `Listen` is fair because `send_throttle` is a sleep.

Proved for any thresholds, clocks and faults: `CopyNeverHasHoles` and the types (`StreamTyped`). The
invariant `Gapless` says that a copy is an interval of numbers. Section 11 has the configuration in which the
copy does not catch up. Also seen: a producer with less than 100 candles is never accepted,
`initial_candle_limit` is read and never used (external_message_consumer.py:76), a late
broadcast cuts newer candles off, and the copy is never trimmed.

## 8. Backtest and TradeSlots

`TradeSlots` is what the documentation promises of `max_open_trades`: trades of different pairs,
no more than the limit. `Backtest` is the loop: `time` goes through candles and detail
candles, `todo` through the pairs, and `visit` through `backtest_loop` of one pair, with
phases for open orders (`Manage`), a new entry (`Enter`), its fill (`FillEntry`), the adjustment
(`Adjust`) and the exit (`Exit`, `FillExit`).
`count` is `bt_open_open_trade_count`, which the code moves up and down by hand. Which orders
fill, time out or are replaced and what callbacks say is nondeterministic.

Run `backtest` (two pairs, two candles of two details, limit 1, shorts, three trades,
adjustments): `CountIsExact`, `OneOrder`, `AmountsAgree`, `NoEmptyTrade`, `ReentryWaits`, and
`KeepsSlots`, the refinement of `TradeSlots` where `held` is the set of open trades with
their pairs. Two pairs and a limit of one make one pair wait for the other; a third trade is
a re-entry after a close in the same candle; two details are the least at which a pair is
visited again within a candle.

Proved for any pairs, limits and bounds: `CountAlwaysExact` and `SimulationKeepsSlots`. The
refinement rests on the exactness of the count, as the simulation compares `count` and not
the trades with the limit. The invariant `Exact` adds to it that the trades have their shape
(an identity is used once, a pair has one open trade unless positions are stacked) and what a
visit has established about its pair. Every step takes no slot, frees one or takes one
(`SlotStep`), which maps to a stutter or a step of `TradeSlots`.

The types (`BacktestTyped`) and the other properties of the run are proved too. `ReentryAlwaysWaits`: a visit that is not a repeat
within the candle concerns a pair that is not among those already visited, unless its trade is
being reversed (`Waits`). `AlwaysOneOrder`, `NeverEmptyTrade` and `AmountsAlwaysAgree` share an
invariant on trades: between two steps each is `Good`, one order at most, none on a trade that has
ended, an exit no larger than the position, an entry order where there is no position. While an
order is replaced a trade is only `Loose`, and what a visit has established about the trade
in hand is `InHand`. `AmountsAlwaysAgree` assumes `NoOversell`: a minimum stake or no
adjustments. Without it the property fails (section 11).

## 9. StoplossOnExchange

`stops` are the stoploss orders on the exchange, `rec` their records, `order` one other order of
the trade, `bot` the place in `handle_stoploss_on_exchange`, `cancel_stoploss_on_exchange` and
`execute_trade_exit` with the loop it is in. `option` chooses whether the exchange blocks coins
for stops and whether the stop trails. A stop triggers, sells a part or disappears between
any two requests. A created stop is `pending` until the commit at the end of `process()`;
`Rollback` forgets it.

Run `stoploss` (an entry of 2, additions and partial exits of 1, 3 stops, 2 orders, one fault):
`StopsAgree`, `OneStop`, `StopMatches`, `ClosedLeavesNoStop`, `ClosedMeansSold`, and `Covered` under
`FairSpec`, which assumes only that the worker's thread goes on. Three stops are one that is
lost, one that is replaced and one that meets the outcome; two orders allow an addition and an
exit. The ghost `slipped` is set when a request fails in a way that the code answers by going
on without knowing (in the five actions that assign it): from then on a stop may be left, and
the properties claim nothing but `StopsAgree`. Without the excuse TLC shows a refused cancel
request after an additional entry that leaves a smaller stop beside the new one, and the
uncommitted stop of one trade that is forgotten by `Trade.rollback()` in the recovery of another
(xplitradebot.py:647; the commit is at 323).

Proved for any amounts and numbers of stops, orders and faults: `StopsAlwaysAgree`,
`AlwaysOneStop` and `ClosedNeverLeavesStop`. They share one invariant: as long as nothing has
escaped, each working stop is recorded as open (`Recorded`), there is one at most (`Single`),
the loop that cancels or counts stops still has it ahead or has seen it working (`InHand`),
and where a new one is about to be placed, or the trade is closed, there is none (`Cleared`).
The trigger of a stop at any moment only makes the set of working stops smaller, which
disturbs none of the four.

`ClosedAlwaysSold` and `StopAlwaysMatches` prove `ClosedMeansSold` and `StopMatches` on the
assumption `ExtraCoins = 0`, from an invariant about the coins (`CoinsInv`). `Position`: the coins in the
wallet, what stops that are still recorded as open have sold (`DueOf`), and what the other order has filled
(`OrderDue`) are together the amount of the trade. The sum over stops is given by its running totals, whose
end is the total; a step that changes one stop changes the totals from there on, so no induction is needed.
`Way`: where stops block coins, nothing else works when a stop is placed, and no stop when an exit is.
`Match`: a working stop is for the whole position and no other stop has a sale that is not recorded. Every step
is one of few kinds (`StepKinds`), of which only those that record a sale, fill, or place an order touch the
coins. With `ExtraCoins = 1` TLC refutes both. `ClosedMeansSold`: the stop sells the position while
`execute_trade_exit` cancels it, the trade closes, and the exit sells the other coins. `StopMatches`: a stop
sold a part and was cancelled, the request to cancel it is refused, and a stop for the old amount is
accepted because the other coins cover it.

## 10. StopLoss and Wallets

Both are about figures; the run `figures` checks both, a behaviour being about one of them.

`StopLoss`: `trade` has the open rate, the stop and its initial value, `settings` what the
strategy uses. `Evaluate` is `should_exit` with `ft_stoploss_adjust`, `Fill` an order that is
filled, `Reload` a restart with another `stoploss`. Rates are integers and ratios fractions of
`Whole`. Four rates, two ratios, seven settings and two fills: the rates let a stop be hit,
trail and round. Proved for all rates, ratios, leverages and settings: `StopLossTyped`,
`StopAlwaysTightens`, `TrailingFlagTrue` and `GainsAlwaysProtected`; the arithmetic of
`NewStop` (monotone in the rate and the ratio, on the loss side of the rate) is a layer of
lemmas of its own.

`Wallets`: `trades` have their orders and the figures that `recalc_trade_from_orders` computes
from them, `wallet` is the free balance, `forced` the stake that a forced entry computed before
it waits for the lock. Stakes are those of `get_trade_stake_amount` with
`validate_stake_amount`, for unlimited and fixed stakes, limit and market orders, and
`available_capital`. Money is counted in units of `1/Unit`. The average price of a position
is a quotient, which `FtPrecise` cuts off at its last digit; `AddOrder` rounds it down to a
unit, and the properties say how much that may matter (`Bought`, `BoughtByClosed`). Two trades, three
orders each and prices 1 to 3 in units of 1/50, so that the average of three lots is rounded; three
configurations; a minimum of 50 (one lot at price 1), at most three lots an order, a capital of 300 that
two trades exhaust, and requests for less than a lot and for all there is: `ProfitIsCash`,
`WalletExplained`, `OrdersBuy`, `EntriesWithinBudget`. Deadlock is not checked, because behaviours end
at their bounds.

All four are proved, for any prices, unit, capital, limits and configurations and any number of trades and
orders: `ProfitAlwaysCash`, `WalletAlwaysExplained`, `OrdersAlwaysBuy`, `EntriesAlwaysWithinBudget`,
and the types (`AccountTyped`). The only assumption is `WalletsAssumption`, which says what the
constants are. `MinCost` may be `Unset`, an exchange without limits; the last two properties have the
minimum as a hypothesis, because the code needs it. The argument has three layers.

- Sums and the position. `SumFunctionOnSet` is taken apart at any element, and the recursion of `Positions` is solved
  by well-founded recursion on the naturals. From both, what one more order (placed or filled) adds to
  the position, the cash and the lots of a trade: `PositionOfMore`, `SumsOfMore`.
- One trade. `Row` relates the figures of a row to its orders: at most the last one is open,
  an open exit is covered by the amount (`Ordered`), the row has the figures of the position
  (`Current`), a closed trade has none left (`Settled`), and the rounding is bounded (`Sound`). The last is the
  heart of it. `Residue` is what the rounded average left of the cost. An exit takes the average times its lots
  out of the cost and leaves the residue as it is; an entry averages anew and makes it less than
  the amount held, so it never exceeds the lots bought and does not add up over exits and entries.
- The account. `Account` adds that the wallet is what `_update_dry` computes. A step changes one row,
  and with it one term of each sum (`SumsOfOneTrade`). That an entry stays within the budget (`EnterFacts`)
  follows from the stake being at most what is available *now* (`StakeFacts`), also where it was asked
  for before the lock, and from the sum of what is free and what is tied up being unchanged by an entry.
  `handle_cancel_exit` does not call `Wallets.update`: `CancelFacts` shows that the wallet is right all the same.

## 11. Further disagreements seen while modelling

These formulas are not part of a run; TLC refutes each within seconds when it is added to the
module, or named in the configuration, and checked with the constants named here.

| Formula | Constants | Behaviour |
|---|---|---|
| `[][bot.pc = "canceled" /\ bot'.sake = "replace" => ex[bot.ord].filled < ex[bot.ord].amount]_vars` | `bug_replace_deletes.cfg` with `MaxOrders = 3`, `AdjustAmount = 1` | `handle_cancel_exit` returns True when the order filled instead of being cancelled; nothing is left to replace, and `execute_trade_exit` reads the amount 0 as the whole trade (xplitradebot.py:2045) |
| `[][trade.st = "closed" => trade'.st # "open"]_vars` | `trade_races.cfg` | `execute_entry` for an open trade first clears the open exit order away, may find it filled and the trade closed, and opens the trade again (xplitradebot.py:1089) |
| `Wallet >= ExtraCoins` | `trade_outcome.cfg` with `MaxCrashes = 0`, `Replacing = FALSE`, `ExtraCoins = 2`, `Commands = {"forceexit"}` | a forced exit goes on with the old amount after the exit order it cancelled turned out filled (rpc.py:1079); only the wallet's balance stops it |
| `NoEmptyTrade` | `trade_outcome.cfg` with `MaxCrashes = 0`, `Replacing = FALSE`, `Commands = {"stop"}` | `startup_update_open_orders` ignores the True of `update_trade_state` for an entry that was cancelled unfilled; the trade stays open with nothing in it (xplitradebot.py:454) |
| `NoEmptyTrade` | `trade_outcome.cfg`; also with `MaxOrders = 3`, `MaxCrashes = 0`, `AdjustAmount = 1` | the same after a crash, and for a position whose additional entry and exit end without anything left |
| `RecalculationClosesAtZero` | `trade_races.cfg` with `Commands = {"reload_trade"}` | reloading a trade after a partial exit of half of it closes it (xplitradebot.py:583) |
| `DeletionIsSafe` | `trade_races.cfg` with `Commands = {"stop"}`, `OrdersLost = TRUE`, `Replacing = FALSE` | the five-day test in `startup_update_open_orders` is always true; a fresh order that is not found loses its trade (xplitradebot.py:463) |
| `EveryOutcomeRecorded` | `trade_outcome.cfg` with `MaxOrders = 3`, `ExtraCoins = 2`, `MaxCrashes = 0` | `execute_trade_exit` finds the old exit filled and the trade closed, places another exit, and no loop looks at that order again (xplitradebot.py:2108-2196) |
| `Cardinality(Open) <= MaxOpenTrades` | `entry_slots.cfg` | `_rpc_force_entry` counts before it waits for the lock (rpc.py:1191) |
| `[][\A t \in Trades : trades[t].st = "free" /\ trades'[t].st = "open" => state = "RUNNING"]_vars` | `entry_slots.cfg` | `process()` and `_rpc_force_entry` read the state once, before the entries (xplitradebot.py:333) |
| `\A t \in Trades : ~trades[t].stray` | `entry_slots.cfg` | a forced entry adds an order to a trade that was closed while it waited (rpc.py:1211) |
| `trusted = [cmd \|-> "stop", at \|-> "reloading"] => since.begun <= 1` | `worker_commands.cfg` | a stop that is accepted while the old instance is cleaned up is lost with it (worker.py:223) |
| `trusted = [cmd \|-> "pause", at \|-> "reloading"] => ~since.entered` | `worker_commands.cfg` | `_rpc_pause` has no branch for a bot that reloads (rpc.py:1002) |
| `[][worker.pc = "failed" /\ state = "RELOAD_CONFIG" => state' = "RELOAD_CONFIG"]_vars` | `worker_commands.cfg` | an `OperationalException` in `process()` overwrites an accepted reload (worker.py:212) |
| `StopAtStartObeyed` | `worker_commands.cfg` | the initial state is set after the RPC threads have started, over a command that was answered (xplitradebot.py:148) |
| `NoLateEntry` | `backtest.cfg` | "don't open on the last row", "We only open trades on the main candle" (backtesting.py:1547-1548): `is_last_row` is true for the first detail candle of the last main candle only, and trades begin in the later ones (1749) |
| `AmountsAgree` | `backtest.cfg` with `MinStake = 0` | without a minimum stake, `adjust_trade_position` may take more than the position out: the simulation sells it, and the trade keeps its amount (backtesting.py:758-783) |
| `UnlockPairFrees` | `locks.cfg` | "Release all locks for this pair" (docstring of `unlock_pair`, docs/strategy-customization.md:1205); the locks of one side, which every exit sets, stay |
| `FillKeepsDistance` | `figures.cfg` with `Rates = {16, 18, 20}` | "Stoploss is still calculated from the initial opening price, not averaged price" (docs/strategy-callbacks.md:952): it is computed from the averaged price at each fill, also of a partial exit, and may move past the market's rate |
| `NewStopLossTaken` | `figures.cfg` | "The new stoploss value will be applied to open trades", unless `trailing_stop` has moved it (docs/stoploss.md:268-273): a fill that tightens the stop of a trade without `trailing_stop` sets `is_stop_loss_trailing` as well, and the new value is not applied |
| `ClosedMeansSold` | `stoploss.cfg` with `ExtraCoins = 2` | an exit goes on with the amount from before its stops were cancelled, one of which had sold (xplitradebot.py:2170-2172) |
| `CatchesUp` | `signals.cfg` with `OnlyNewCandles = TRUE`, `CHECK_DEADLOCK FALSE` | a request for missing candles that nobody hears is repeated only when the producer publishes again: with `process_only_new_candles` the copy stays empty until the market's next candle, which at the bound never comes |
| `RealizedIsProfit` | `figures.cfg` | a realized profit of exactly zero is not written over the old one (`if close_profit:`, trade_model.py:1320) |
| `StartingBalance` | `figures.cfg` | `get_starting_balance` leaves out what partial exits of open trades realized (wallets.py:299-312) |
| `NeverOverdrawn` | `figures.cfg` with limit orders in the first configuration of `MCConfig`: `Configured(100, Unset, Unset, FALSE)` | additional entries that wait for their fill are subtracted nowhere and their money is spent twice (wallets.py:171) |

With `MinCost = Unset` (-1), an exchange without limits, `validate_stake_amount` may be given a
negative maximum, and lets orders without an amount through: without its hypothesis, `OrdersBuy` fails.

## 12. Only model-checked, and not modelled

Model-checked and not proved are the liveness properties `OutcomeRecorded`, `StopObeyed`, `CatchesUp`
and `Covered`: they rest on fairness, which is out of the prover's reach. Every other property of a
passing run is proved for every value of the constants, or under the assumptions that its theorem states.

Of the type invariants, those of `TradeLifecycle` and `Worker` are also part of a run. All are
proved: `RecordsTyped`, `WorkerTyped`, `EntrySlotsTyped`, `StoplossTyped`, `LocksTyped`,
`StreamTyped`, `BacktestTyped`, `StopLossTyped` and `AccountTyped`.

The models cover a small share of the lines of `src`, and those that decide about orders,
trades, locks, stops, stakes, commands and the simulation. Not modelled:

- futures: leverage beyond the stop loss, funding, liquidation; fees in the base coin;
- crashes between the steps of `StoplossOnExchange` (only the rollback), the retrier, caches
  and markets of `exchange/`, and the subclasses of single exchanges: translations of ccxt;
- the sessions of the RPC threads: what is stale when is decided by SQLAlchemy, outside `src`;
- Telegram, the REST API, webhook and Discord: transport and formatting; their threads are the
  handlers and callers of `Worker` and `EntrySlots`;
- strategies (user code; every callback is nondeterministic), FreqAI (training by external
  libraries), pairlists (filters without state that trades depend on; the whitelist is a
  constant), data and history, the search of hyperopt, plotting, configuration, migrations and
  the command line: input and output or sequential computations on data frames.
