----------------------------- MODULE PairLocks -----------------------------
(***************************************************************************)
(* Pair locks (src/xplitrade/persistence/pairlock_middleware.py), the      *)
(* protections that set them when a trade closes                           *)
(* (src/xplitrade/plugins/protectionmanager.py and plugins/protections/),  *)
(* the strategy and RPC calls that set and release them, and the entries   *)
(* that they hold back (enter_positions and create_trade).                 *)
(*                                                                         *)
(* Time is counted in minutes and candles take Timeframe of them.  Three   *)
(* threads meet here: the bot's, which closes and enters trades, the       *)
(* strategy's callbacks and RPC, which lock and unlock at any moment, also *)
(* between two protections of one close.                                   *)
(***************************************************************************)
EXTENDS Integers, Sequences, FiniteSets, FiniteSetsExt

CONSTANTS
    Pairs,
    Timeframe,     \* minutes of a candle
    Day,           \* minutes of a day, for unlock_at
    Protections,   \* the configured protections, in order (records as in ProtectionType)
    Outcomes,      \* how trades close: profit, by a stop loss or not, minutes until it is known
    Reasons,       \* reasons given to the locks of users
    Untils,        \* the times until which users lock
    MaxNow,        \* bound: the last minute
    MaxTrades,     \* bound: trades that are closed
    MaxCalls       \* bound: calls of users that lock or unlock

Sides == {"long", "short"}
Both == "*"        \* both sides, or all pairs

\* What a protection is configured with; unlockAt is -1 where a duration is given.
ProtectionType ==
    [kind : {"CooldownPeriod", "StoplossGuard", "LowProfitPairs", "MaxDrawdown"},
     limit : Nat, lookback : Nat, duration : Nat, unlockAt : Int,
     required : Int, perSide : BOOLEAN]

ASSUME LocksAssumption ==
    /\ Both \notin Pairs
    /\ Timeframe \in Nat \ {0} /\ Day \in Nat \ {0}
    /\ Protections \in Seq(ProtectionType)
    /\ Outcomes \subseteq [profit : Int, stop : BOOLEAN, late : Nat]
    /\ Untils \subseteq Int
    /\ MaxNow \in Nat /\ MaxTrades \in Nat /\ MaxCalls \in Nat

VARIABLES
    now,       \* the clock
    seen,      \* per pair: the date of the last candle of its analyzed dataframe
    locks,     \* the rows of the table pairlocks
    open,      \* per pair: the side of its open trade, or "none"
    closed,    \* the closed trades, in the order in which they were closed
    closing,   \* the protections that a close still has to run, or NoClose
    entering,  \* the pairs that enter_positions has not yet tried
    calls,     \* counts the calls of users
    due        \* ghost: what was demanded, and not released since

vars == <<now, seen, locks, open, closed, closing, entering, calls, due>>

NoClose == [pair |-> "none", side |-> "none", step |-> 0]

-----------------------------------------------------------------------------
(* PairLocks: the middleware *)

\* timeframe_to_next_date: the start of the next candle, never of the present one.
NextDate(t) == t - (t % Timeframe) + Timeframe

\* get_pair_locks and query_pair_locks.  The side "*" asks for the locks of both sides only.
GetPairLocks(pair, time, side) ==
    {l \in locks : /\ l.end > time /\ l.active
                   /\ l.pair = pair
                   /\ l.side \in {side, Both}}

IsGlobalLock(time, side) == GetPairLocks(Both, time, side) # {}

IsPairLocked(pair, time, side) ==
    GetPairLocks(pair, time, side) # {} \/ IsGlobalLock(time, side)

\* lock_pair, as the set of locks afterwards.
WithLock(pair, until, reason, side) ==
    LET end == NextDate(until) IN
    IF \E l \in GetPairLocks(pair, now, side) :
          l.reason = reason /\ l.end = end /\ l.side = side
    THEN locks
    ELSE locks \cup {[pair |-> pair, side |-> side, reason |-> reason,
                      end |-> end, active |-> TRUE]}

\* The locks in L are no longer active; _rpc_delete_lock also ends them at once.
Released(L, end(_)) ==
    (locks \ L) \cup {[l EXCEPT !.active = FALSE, !.end = end(l)] : l \in L}

-----------------------------------------------------------------------------
(* The protections *)

\* get_trades_proxy(pair, is_open=False, close_date=now - lookback)
Recent(P, pair) ==
    {i \in DOMAIN closed : /\ closed[i].date > now - P.lookback
                           /\ pair \in {closed[i].pair, Both}}

\* calculate_lock_end: a duration after the last close, or the next time of day unlock_at.
LockEnd(P, trades) ==
    LET last == Max({closed[i].date : i \in trades})
        today == last - (last % Day) + P.unlockAt
    IN  IF P.unlockAt < 0 THEN last + P.duration
        ELSE IF today < last THEN today + Day ELSE today

Profit(trades) == MapThenSumSet(LAMBDA i : closed[i].profit, trades)

OfSide(P, trades, side) ==
    {i \in trades : P.perSide => closed[i].side = side}

\* calculate_max_drawdown on the profits in the order of the close dates.
Drawdown(trades) ==
    LET Upto(i) == {j \in trades : \/ closed[j].date < closed[i].date
                                   \/ closed[j].date = closed[i].date /\ j <= i}
        high(i) == Max({0} \cup {Profit(Upto(j)) : j \in Upto(i)})
    IN  Max({0} \cup {high(i) - Profit(Upto(i)) : i \in trades})

LosingStops(P, trades, side) ==
    {i \in OfSide(P, trades, side) : /\ closed[i].stop
                                     /\ closed[i].profit # 0
                                     /\ closed[i].profit < P.required}

\* What stop_per_pair (pair a pair) or global_stop (pair "*") of one protection returns: no
\* lock or one, in force until a time for one side or both.
Trigger(P, pair, side) ==
    LET trades == Recent(P, pair)
        bad == LosingStops(P, trades, side)
        Lock(of) == {[until |-> LockEnd(P, of), side |-> IF P.perSide THEN side ELSE Both]}
    IN  CASE P.kind = "CooldownPeriod" ->
               IF pair # Both /\ trades # {} THEN Lock(trades) ELSE {}
          [] P.kind = "StoplossGuard" ->
               IF bad # {} /\ Cardinality(bad) >= P.limit THEN Lock(bad) ELSE {}
          [] P.kind = "LowProfitPairs" ->
               IF /\ pair # Both /\ trades # {} /\ Cardinality(trades) >= P.limit
                  /\ Profit(OfSide(P, trades, side)) < P.required
               THEN Lock(trades) ELSE {}
          [] P.kind = "MaxDrawdown" ->
               IF /\ pair = Both /\ trades # {} /\ Cardinality(trades) >= P.limit
                  /\ Drawdown(trades) > P.required
               THEN Lock(trades) ELSE {}

\* Mutant: the locks of the present are asked, not those at the end of the new lock.
MutLockedNowIsEnough(r, pair, reason) ==
    IF IF pair = Both THEN IsGlobalLock(now, r.side) ELSE IsPairLocked(pair, now, r.side)
    THEN locks
    ELSE WithLock(pair, r.until, reason, r.side)

\* A protection's lock is not written when a lock that ends later is there already.
ProtectionLock(r, pair, reason) ==
    IF IF pair = Both THEN IsGlobalLock(r.until, r.side) ELSE IsPairLocked(pair, r.until, r.side)
    THEN locks
    ELSE WithLock(pair, r.until, reason, r.side)

-----------------------------------------------------------------------------
(* The bot's thread *)

\* The exchange reports an exit as filled, possibly late, and update_trade_state commits the
\* closed trade; closing and entering exclude each other by the exit lock.
CloseTrade(p) ==
    /\ closing = NoClose /\ open[p] # "none"
    /\ \E o \in Outcomes :
          closed' = Append(closed, [pair |-> p, side |-> open[p], date |-> now - o.late,
                                    profit |-> o.profit, stop |-> o.stop])
    /\ closing' = [pair |-> p, side |-> open[p], step |-> 0]
    /\ open' = [open EXCEPT ![p] = "none"]
    /\ UNCHANGED <<now, seen, locks, entering, calls, due>>

\* handle_protections, first the "Auto lock" until now ...
AutoLock ==
    /\ closing # NoClose /\ closing.step = 0
    /\ locks' = WithLock(closing.pair, now, "Auto lock", closing.side)
    /\ due' = due \cup {[pair |-> closing.pair, side |-> closing.side, until |-> now]}
    /\ closing' = [closing EXCEPT !.step = 1]
    /\ UNCHANGED <<now, seen, open, closed, entering, calls>>

\* ... then every protection for the pair and, in a second round, for all pairs.
Protect ==
    /\ closing.step \in 1..(2 * Len(Protections))
    /\ LET n == Len(Protections)
           global == closing.step > n
           i == IF global THEN closing.step - n ELSE closing.step
           pair == IF global THEN Both ELSE closing.pair
           returned == Trigger(Protections[i], pair, closing.side)
       IN  /\ locks' = IF returned = {} THEN locks
                       ELSE ProtectionLock(CHOOSE r \in returned : TRUE, pair, Protections[i].kind)
           /\ due' = due \cup {[pair |-> pair, side |-> r.side, until |-> r.until] : r \in returned}
    /\ closing' = [closing EXCEPT !.step = @ + 1]
    /\ UNCHANGED <<now, seen, open, closed, entering, calls>>

ProtectionsDone ==
    /\ closing.step > 2 * Len(Protections)
    /\ closing' = NoClose
    /\ UNCHANGED <<now, seen, locks, open, closed, entering, calls, due>>

\* enter_positions, up to its loop: pairs with a trade are left out, and a lock of all pairs
\* for both sides ends it here.
EnterPositions ==
    /\ closing = NoClose /\ entering = {} /\ Len(closed) < MaxTrades
    /\ ~IsGlobalLock(now, Both)
    /\ entering' = {p \in Pairs : open[p] = "none"}
    /\ UNCHANGED <<now, seen, locks, open, closed, closing, calls, due>>

\* Mutant: the locks are tested at the present time.
MutTestAtPresent(p, side) ==
    /\ closing = NoClose /\ p \in entering /\ open[p] = "none"
    /\ ~IsPairLocked(p, now, side)
    /\ open' = [open EXCEPT ![p] = side]
    /\ entering' = entering \ {p}
    /\ UNCHANGED <<now, seen, locks, closed, closing, calls, due>>

\* create_trade: the signal of the last analyzed candle, tested against the locks at the time
\* at which that candle ended; the exit lock is held.
CreateTrade(p, side) ==
    /\ closing = NoClose /\ p \in entering /\ open[p] = "none"
    /\ ~IsPairLocked(p, NextDate(seen[p]), side)
    /\ open' = [open EXCEPT ![p] = side]
    /\ entering' = entering \ {p}
    /\ UNCHANGED <<now, seen, locks, closed, closing, calls, due>>

\* No signal, a locked pair, or an entry that is refused.
SkipPair(p) ==
    /\ closing = NoClose /\ p \in entering
    /\ entering' = entering \ {p}
    /\ UNCHANGED <<now, seen, locks, open, closed, closing, calls, due>>

\* process() refreshes a pair's candles; the exchange may deliver the last one late.
Refresh(p) ==
    /\ entering = {} /\ closing = NoClose
    /\ \E c \in (seen[p] + 1)..(NextDate(now) - 2 * Timeframe) :
          c % Timeframe = 0 /\ seen' = [seen EXCEPT ![p] = c]
    /\ UNCHANGED <<now, locks, open, closed, closing, entering, calls, due>>

-----------------------------------------------------------------------------
(* The strategy and RPC *)

\* strategy.lock_pair and _rpc_add_lock
UserLock(p, side, reason) ==
    /\ calls < MaxCalls
    /\ \E until \in Untils :
          /\ locks' = WithLock(p, until, reason, side)
          /\ due' = due \cup {[pair |-> p, side |-> side, until |-> until]}
    /\ calls' = calls + 1
    /\ UNCHANGED <<now, seen, open, closed, closing, entering>>

\* A release of the locks L gives up everything they may have stood for.
Covers(l, d) == l.pair \in {d.pair, Both} /\ l.side \in {d.side, Both}
StillDue(L) == {d \in due : \A l \in L : ~Covers(l, d)}

\* unlock_pair of the strategy: it asks for the locks of side "*", the default.
UnlockPair(p) ==
    /\ calls < MaxCalls
    /\ LET L == GetPairLocks(p, now, Both) IN
       /\ locks' = Released(L, LAMBDA l : l.end)
       /\ due' = StillDue(L)
    /\ calls' = calls + 1
    /\ UNCHANGED <<now, seen, open, closed, closing, entering>>

\* unlock_reason of the strategy, with a database.
UnlockReason(reason) ==
    /\ calls < MaxCalls
    /\ LET L == {l \in locks : l.end > now /\ l.active /\ l.reason = reason} IN
       /\ locks' = Released(L, LAMBDA l : l.end)
       /\ due' = StillDue(L)
    /\ calls' = calls + 1
    /\ UNCHANGED <<now, seen, open, closed, closing, entering>>

\* _rpc_delete_lock, by pair (all sides) ...
DeleteLocksOf(p) ==
    /\ calls < MaxCalls
    /\ LET L == {l \in locks : l.end > now /\ l.active /\ l.pair = p} IN
       /\ locks' = Released(L, LAMBDA l : now)
       /\ due' = StillDue(L)
    /\ calls' = calls + 1
    /\ UNCHANGED <<now, seen, open, closed, closing, entering>>

\* ... or by the id of any lock.
DeleteLock(l) ==
    /\ calls < MaxCalls
    /\ locks' = Released({l}, LAMBDA k : now)
    /\ due' = StillDue({l})
    /\ calls' = calls + 1
    /\ UNCHANGED <<now, seen, open, closed, closing, entering>>

-----------------------------------------------------------------------------

\* The clock, which never waits for the bot.
Tick ==
    /\ now < MaxNow
    /\ now' = now + 1
    /\ UNCHANGED <<seen, locks, open, closed, closing, entering, calls, due>>

\* The process dies and starts again: only the database survives.
Restart ==
    /\ closing # NoClose \/ entering # {}
    /\ closing' = NoClose /\ entering' = {}
    /\ UNCHANGED <<now, seen, locks, open, closed, calls, due>>

Init ==
    /\ now = 0 /\ seen = [p \in Pairs |-> -2 * Timeframe]
    /\ locks = {} /\ open = [p \in Pairs |-> "none"] /\ closed = <<>>
    /\ closing = NoClose /\ entering = {} /\ calls = 0 /\ due = {}

Users ==
    \/ \E p \in Pairs \cup {Both}, s \in Sides \cup {Both}, r \in Reasons : UserLock(p, s, r)
    \/ \E p \in Pairs : UnlockPair(p) \/ DeleteLocksOf(p)
    \/ \E r \in Reasons : UnlockReason(r)
    \/ \E l \in locks : DeleteLock(l)

Next ==
    \/ \E p \in Pairs : CloseTrade(p) \/ SkipPair(p) \/ Refresh(p)
    \/ \E p \in Pairs, s \in Sides : CreateTrade(p, s)
    \/ AutoLock \/ Protect \/ ProtectionsDone \/ EnterPositions
    \/ Users \/ Tick \/ Restart

Spec == Init /\ [][Next]_vars

-----------------------------------------------------------------------------
(* Properties *)

LockType == [pair : Pairs \cup {Both}, side : Sides \cup {Both},
             reason : Reasons \cup {"Auto lock"} \cup {Protections[i].kind : i \in DOMAIN Protections},
             end : Int, active : BOOLEAN]

\* Types of the variables.
TypeOK ==
    /\ now \in 0..MaxNow
    /\ seen \in [Pairs -> Int]
    /\ locks \subseteq LockType
    /\ open \in [Pairs -> Sides \cup {"none"}]
    /\ closed \in Seq([pair : Pairs, side : Sides, date : Int, profit : Int, stop : BOOLEAN])
    /\ closing = NoClose \/ closing \in [pair : Pairs, side : Sides, step : Nat]
    /\ entering \subseteq Pairs
    /\ calls \in 0..MaxCalls
    /\ due \subseteq [pair : Pairs \cup {Both}, side : Sides \cup {Both}, until : Int]

\* What a protection, the automatic lock or a user demanded is enforced up to its last
\* minute, whatever else was locked before: a lock that is not written because another one
\* is there already (ProtectionManager, lock_pair) must not be missed when that one ends.
ProtectionHolds ==
    \A d \in due, p \in Pairs, s \in Sides :
        now <= d.until /\ d.pair \in {p, Both} /\ d.side \in {s, Both}
            => IsPairLocked(p, now, s)

\* A pair is entered on a candle that ended after everything demanded for it was over: the
\* dataframe may lag behind the clock, and a signal seen before an exit must not be taken
\* after the lock of that exit ended (the gap that is_pair_locked of the strategy closes).
FreshEntries ==
    [][\A p \in Pairs, s \in Sides :
          open[p] = "none" /\ open'[p] = s =>
              \A d \in due : d.pair \in {p, Both} /\ d.side \in {s, Both}
                                => d.until < seen[p] + Timeframe]_vars

=============================================================================
