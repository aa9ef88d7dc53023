----------------------------- MODULE EntrySlots -----------------------------
(***************************************************************************)
(* New trades and the limits on them: enter_positions and create_trade of  *)
(* the bot's thread (src/xplitrade/xplitradebot.py) beside forced entries   *)
(* from the RPC threads (_rpc_force_entry of src/xplitrade/rpc/rpc.py).     *)
(*                                                                         *)
(* Each entry is placed under the exit lock, and one such section is one   *)
(* step here: what the others see of it, the trade's row, appears with its *)
(* last commit.  What a thread looked up before it waited for the lock is  *)
(* kept in its own state, and may be old by then.                          *)
(***************************************************************************)
EXTENDS Integers, FiniteSets

CONSTANTS
    Pairs,              \* the pairs of the whitelist
    MaxOpenTrades,      \* max_open_trades
    Callers,            \* RPC threads that force entries
    MaxTrades,          \* bound: how many trades can be created
    PositionAdjustment  \* strategy.position_adjustment_enable

ASSUME ConstantsAssumption ==
    /\ IsFiniteSet(Callers)
    /\ MaxOpenTrades \in Nat \ {0} /\ MaxTrades \in Nat
    /\ PositionAdjustment \in BOOLEAN

VARIABLES
    state,   \* XplitradeBot.state
    trades,  \* the trades table
    bot,     \* the bot's thread in enter_positions
    caller   \* the RPC threads in _rpc_force_entry

vars == <<state, trades, bot, caller>>

\* ids of trades, given in ascending order
Trades == 1 .. MaxTrades

States == {"RUNNING", "PAUSED", "STOPPED"}

\* by: who created the trade; stray: an entry order was added to it after its close.
NoRow == [pair |-> "none", st |-> "free", by |-> "none", stray |-> FALSE]

Open == {t \in Trades : trades[t].st = "open"}
OpenOn(pair) == {t \in Open : trades[t].pair = pair}

\* get_free_open_trades
FreeOpenTrades ==
    IF Cardinality(Open) < MaxOpenTrades THEN MaxOpenTrades - Cardinality(Open) ELSE 0

IdleBot == [pc |-> "idle", slots |-> 0, todo |-> {}]
IdleCaller == [pc |-> "idle", pair |-> "none", adjust |-> {}]

Init ==
    /\ state \in States
    /\ trades = [t \in Trades |-> NoRow]
    /\ bot = IdleBot
    /\ caller = [c \in Callers |-> IdleCaller]

\* execute_entry without a trade: the order is placed and the trade gets its row.
NewTrade(pair, by) ==
    \E t \in Trades :
      /\ trades[t].st = "free" /\ \A u \in 1 .. t - 1 : trades[u].st # "free"
      /\ trades' = [trades EXCEPT ![t] = [pair |-> pair, st |-> "open", by |-> by,
                                          stray |-> FALSE]]

\* The trade is closed, by its exit or its stop, or it is deleted with its only order.
CloseTrade ==
    /\ \E t \in Open : trades' = [trades EXCEPT ![t].st = "closed"]
    /\ UNCHANGED <<state, bot, caller>>

-----------------------------------------------------------------------------
(* The bot's thread *)

\* Mutant: pairs that are in use stay in the list.
MutWholeWhitelist == Pairs

\* The whitelist without the pairs of open trades.
PairsToEnter == {pair \in Pairs : OpenOn(pair) = {}}

\* The last part of process(): entries are looked for only while running.
CheckSlots ==
    /\ bot.pc = "idle"
    /\ state = "RUNNING" /\ FreeOpenTrades > 0
    /\ bot' = [bot EXCEPT !.pc = "pairs", !.slots = FreeOpenTrades]
    /\ UNCHANGED <<state, trades, caller>>

\* enter_positions chooses its pairs once; a global pair lock ends it here.
ChoosePairs ==
    /\ bot.pc = "pairs"
    /\ \/ bot' = [bot EXCEPT !.pc = "enter", !.todo = PairsToEnter]
       \/ bot' = IdleBot
    /\ UNCHANGED <<state, trades, caller>>

\* Mutant: the slots counted at the start are relied upon.
MutSlotsTrusted == bot.slots > 0

\* create_trade counts the open trades again.
SlotLeft == FreeOpenTrades # 0

\* enter_positions breaks off when its slots are used up.
GoesOn == bot.slots > 0

\* create_trade for the next pair: there is no signal, the pair is locked, the entry
\* fails, or a trade is created.
CreateTrade(pair) ==
    /\ bot.pc = "enter" /\ GoesOn /\ pair \in bot.todo
    /\ \/ /\ SlotLeft
          /\ NewTrade(pair, "bot")
          /\ bot' = [bot EXCEPT !.todo = @ \ {pair}, !.slots = @ - 1]
       \/ /\ bot' = [bot EXCEPT !.todo = @ \ {pair}]
          /\ UNCHANGED trades
    /\ UNCHANGED <<state, caller>>

EnterEnds ==
    /\ bot.pc = "enter"
    /\ ~GoesOn \/ bot.todo = {}
    /\ bot' = IdleBot
    /\ UNCHANGED <<state, trades, caller>>

-----------------------------------------------------------------------------
(* The RPC threads *)

BelowLimit == Cardinality(Open) < MaxOpenTrades

\* _rpc_force_entry up to the lock: the checks.  The open trade of the pair that it
\* finds, if any, is what will be adjusted.
ForceEntryCheck(c, pair) ==
    /\ caller[c].pc = "idle"
    /\ state = "RUNNING"
    /\ \/ /\ OpenOn(pair) = {} /\ BelowLimit
          /\ caller' = [caller EXCEPT ![c] = [pc |-> "waiting", pair |-> pair, adjust |-> {}]]
       \/ /\ PositionAdjustment
          /\ \E t \in OpenOn(pair) :
               caller' = [caller EXCEPT ![c] =
                            [pc |-> "waiting", pair |-> pair, adjust |-> {t}]]
    /\ UNCHANGED <<state, trades, bot>>

\* _rpc_force_entry under the lock: execute_entry, which may fail.  The session of the
\* thread still has the trade as it was, so setting is_open to True changes nothing:
\* the order is added to a trade that stays closed if it was closed meanwhile.
ForceEntryExecute(c) ==
    /\ caller[c].pc = "waiting"
    /\ \/ UNCHANGED trades
       \/ caller[c].adjust = {} /\ NewTrade(caller[c].pair, "rpc")
       \/ \E t \in caller[c].adjust :
            trades' = [trades EXCEPT ![t].stray = @ \/ trades[t].st = "closed"]
    /\ caller' = [caller EXCEPT ![c] = IdleCaller]
    /\ UNCHANGED <<state, bot>>

\* _rpc_start, _rpc_pause and _rpc_stop; the worker stops the bot after an error.
SetState(new) ==
    /\ new # state
    /\ state' = new
    /\ UNCHANGED <<trades, bot, caller>>

Next ==
    \/ CheckSlots \/ ChoosePairs \/ EnterEnds \/ CloseTrade
    \/ \E pair \in Pairs : CreateTrade(pair)
    \/ \E c \in Callers : ForceEntryExecute(c) \/ \E pair \in Pairs : ForceEntryCheck(c, pair)
    \/ \E new \in States : SetState(new)

Spec == Init /\ [][Next]_vars

-----------------------------------------------------------------------------
(* Properties *)

Row == [pair : Pairs \cup {"none"}, st : {"free", "open", "closed"},
        by : {"none", "bot", "rpc"}, stray : BOOLEAN]

BotState ==
    [pc : {"idle", "pairs", "enter"}, slots : 0 .. MaxOpenTrades, todo : SUBSET Pairs]

CallerState ==
    [pc : {"idle", "waiting"}, pair : Pairs \cup {"none"}, adjust : SUBSET Trades]

TypeOK ==
    /\ state \in States
    /\ trades \in [Trades -> Row]
    /\ bot \in BotState
    /\ caller \in [Callers -> CallerState]

\* Callers that passed the check of the limit and wait for the lock.
Pending == {c \in Callers : caller[c].pc = "waiting" /\ caller[c].adjust = {}}

\* The limit on open trades is exceeded by at most one trade for each thread that can
\* force an entry: create_trade counts again under the lock, while _rpc_force_entry
\* has counted before it waited for the lock.
OvershootBounded ==
    Cardinality(Open) + Cardinality(Pending) <= MaxOpenTrades + Cardinality(Callers)

\* Two open trades of one pair come about only with a forced entry; by itself the bot's
\* thread never doubles a pair, though it chose the pairs before it entered them.
BotKeepsPairsApart ==
    \A t, u \in Open :
      t # u /\ trades[t].pair = trades[u].pair => "rpc" \in {trades[t].by, trades[u].by}

\* "Only one open trade per pair is possible", says the documentation; enter_positions
\* and _rpc_force_entry each test for it before they hold the lock.
OneTradePerPair == \A pair \in Pairs : Cardinality(OpenOn(pair)) <= 1

=============================================================================
