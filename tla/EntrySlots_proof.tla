-------------------------- MODULE EntrySlots_proof --------------------------
(***************************************************************************)
(* Proofs about EntrySlots for any number of pairs, callers and trades.    *)
(*                                                                         *)
(* OvershootBounded is inductive on top of the types: a waiting caller     *)
(* already counts as the trade it may open.  BotKeepsPairsApart also needs *)
(* what the list of pairs means while the bot works it off: a pair still   *)
(* on it can have been entered since only by a forced entry (TodoClear).   *)
(***************************************************************************)
EXTENDS EntrySlots, FiniteSetTheorems, TLAPS

LEMMA FiniteTrades ==
    ASSUME NEW T, T \subseteq Trades PROVE IsFiniteSet(T) /\ Cardinality(T) \in Nat
<1>1. IsFiniteSet(Trades)
  BY ConstantsAssumption, FS_Interval DEF Trades
<1> QED
  BY <1>1, FS_Subset, FS_CardinalityType

LEMMA FiniteCallers ==
    ASSUME NEW C, C \subseteq Callers
    PROVE  IsFiniteSet(C) /\ Cardinality(C) \in Nat /\ Cardinality(Callers) \in Nat
           /\ Cardinality(C) <= Cardinality(Callers)
BY ConstantsAssumption, FS_Subset, FS_CardinalityType

\* The free slots are a number that the limit bounds.
LEMMA FreeSlots ==
    /\ FreeOpenTrades \in 0 .. MaxOpenTrades
    /\ SlotLeft => Cardinality(Open) < MaxOpenTrades
<1>1. Cardinality(Open) \in Nat
  BY FiniteTrades DEF Open
<1> QED
  BY <1>1, ConstantsAssumption DEF FreeOpenTrades, SlotLeft

\* A new trade is one more open trade.
LEMMA NewTradeCounts ==
    ASSUME TypeOK, NEW pair \in Pairs, NEW by \in {"bot", "rpc"}, NewTrade(pair, by)
    PROVE  \E t \in Trades :
             /\ trades[t].st = "free"
             /\ trades' = [trades EXCEPT ![t] = [pair |-> pair, st |-> "open", by |-> by,
                                                 stray |-> FALSE]]
             /\ Open' = Open \cup {t}
             /\ Cardinality(Open') = Cardinality(Open) + 1
<1>1. PICK t \in Trades :
        /\ trades[t].st = "free"
        /\ trades' = [trades EXCEPT ![t] = [pair |-> pair, st |-> "open", by |-> by,
                                            stray |-> FALSE]]
  BY DEF NewTrade
<1>2. Open' = Open \cup {t} /\ t \notin Open
  BY <1>1 DEF Open, TypeOK, Row
<1>3. Cardinality(Open') = Cardinality(Open) + 1
  BY <1>2, FiniteTrades, FS_AddElement DEF Open
<1> QED
  BY <1>1, <1>2, <1>3

-----------------------------------------------------------------------------
(* Types *)

LEMMA NewTradeTyped ==
    ASSUME TypeOK, NEW pair \in Pairs, NEW by \in {"bot", "rpc"}, NewTrade(pair, by)
    PROVE  trades' \in [Trades -> Row]
<1>1. PICK t \in Trades :
        trades' = [trades EXCEPT ![t] = [pair |-> pair, st |-> "open", by |-> by,
                                         stray |-> FALSE]]
  BY DEF NewTrade
<1>2. [pair |-> pair, st |-> "open", by |-> by, stray |-> FALSE] \in Row
  BY DEF Row
<1> QED
  BY <1>1, <1>2 DEF TypeOK

LEMMA IdleTyped == IdleBot \in BotState /\ IdleCaller \in CallerState
BY ConstantsAssumption DEF IdleBot, BotState, IdleCaller, CallerState

LEMMA InitTyped == Init => TypeOK
<1>1. NoRow \in Row
  BY DEF NoRow, Row
<1> QED
  BY <1>1, IdleTyped DEF Init, TypeOK

LEMMA NextTyped == TypeOK /\ [Next]_vars => TypeOK'
<1> SUFFICES ASSUME TypeOK, [Next]_vars PROVE TypeOK'
  OBVIOUS
<1> USE DEF TypeOK
<1>1. CASE CheckSlots
  <2>1. bot' \in BotState
    BY <1>1, FreeSlots DEF CheckSlots, BotState
  <2> QED
    BY <1>1, <2>1 DEF CheckSlots
<1>2. CASE ChoosePairs
  <2>1. PairsToEnter \subseteq Pairs
    BY DEF PairsToEnter
  <2>2. bot' \in BotState
    BY <1>2, <2>1, IdleTyped DEF ChoosePairs, BotState
  <2> QED
    BY <1>2, <2>2 DEF ChoosePairs
<1>3. CASE EnterEnds
  BY <1>3, IdleTyped DEF EnterEnds
<1>4. CASE CloseTrade
  <2>1. trades' \in [Trades -> Row]
    BY <1>4 DEF CloseTrade, Open, Row
  <2> QED
    BY <1>4, <2>1 DEF CloseTrade
<1>5. ASSUME NEW pair \in Pairs, CreateTrade(pair) PROVE TypeOK'
  <2>1. bot' \in BotState
    <3>1. bot.slots \in 0 .. MaxOpenTrades /\ bot.slots > 0 /\ bot.todo \subseteq Pairs
      BY <1>5 DEF CreateTrade, GoesOn, BotState
    <3>2. bot.slots - 1 \in 0 .. MaxOpenTrades /\ bot.todo \ {pair} \subseteq Pairs
      BY <3>1, ConstantsAssumption
    <3>3. \E n \in {bot.slots, bot.slots - 1} :
            bot' = [bot EXCEPT !.todo = bot.todo \ {pair}, !.slots = n]
      BY <1>5 DEF CreateTrade, BotState
    <3> QED
      BY <3>1, <3>2, <3>3 DEF BotState
  <2>2. trades' \in [Trades -> Row]
    BY <1>5, NewTradeTyped DEF CreateTrade
  <2> QED
    BY <1>5, <2>1, <2>2 DEF CreateTrade
<1>6. ASSUME NEW c \in Callers, NEW pair \in Pairs, ForceEntryCheck(c, pair) PROVE TypeOK'
  BY <1>6 DEF ForceEntryCheck, OpenOn, Open, CallerState
<1>7. ASSUME NEW c \in Callers, ForceEntryExecute(c) PROVE TypeOK'
  <2>1. trades' \in [Trades -> Row]
    <3>1. CASE UNCHANGED trades
      BY <3>1
    <3>2. CASE caller[c].adjust = {} /\ NewTrade(caller[c].pair, "rpc")
      <4>1. PICK t \in Trades :
              trades' = [trades EXCEPT ![t] = [pair |-> caller[c].pair, st |-> "open",
                                               by |-> "rpc", stray |-> FALSE]]
        BY <3>2 DEF NewTrade
      <4>2. [pair |-> caller[c].pair, st |-> "open", by |-> "rpc", stray |-> FALSE] \in Row
        BY DEF CallerState, Row
      <4> QED
        BY <4>1, <4>2
    <3>3. ASSUME NEW t \in caller[c].adjust,
                 trades' = [trades EXCEPT ![t].stray = @ \/ trades[t].st = "closed"]
          PROVE  trades' \in [Trades -> Row]
      <4>1. t \in Trades /\ trades[t] \in Row
        BY DEF CallerState
      <4>2. (trades[t].stray \/ trades[t].st = "closed") \in BOOLEAN
        BY <4>1 DEF Row
      <4>3. \A b \in BOOLEAN : [trades[t] EXCEPT !.stray = b] \in Row
        BY <4>1 DEF Row
      <4>4. [trades[t] EXCEPT !.stray = trades[t].stray \/ trades[t].st = "closed"] \in Row
        BY <4>2, <4>3
      <4> QED
        BY <3>3, <4>1, <4>4
    <3> QED
      BY <1>7, <3>1, <3>2, <3>3 DEF ForceEntryExecute
  <2>2. caller' \in [Callers -> CallerState]
    BY <1>7, IdleTyped DEF ForceEntryExecute
  <2> QED
    BY <1>7, <2>1, <2>2 DEF ForceEntryExecute
<1>8. ASSUME NEW new \in States, SetState(new) PROVE TypeOK'
  BY <1>8 DEF SetState
<1>9. CASE UNCHANGED vars
  BY <1>9 DEF vars
<1> QED
  BY <1>1, <1>2, <1>3, <1>4, <1>5, <1>6, <1>7, <1>8, <1>9 DEF Next

\* The records keep their types; the bot never has more slots than the limit.
THEOREM EntrySlotsTyped == Spec => []TypeOK
BY InitTyped, NextTyped, PTL DEF Spec
-----------------------------------------------------------------------------
(* The limit on open trades *)

\* A step of the bot adds a trade only below the limit, and no caller is pending
\* twice; a caller's new trade takes the place of its pending entry.
LEMMA NextBounded ==
    ASSUME TypeOK, OvershootBounded, [Next]_vars PROVE OvershootBounded'
<1>0. /\ Cardinality(Open) \in Nat /\ Cardinality(Open') \in Nat
      /\ Cardinality(Pending) \in Nat /\ Cardinality(Pending') \in Nat
      /\ Cardinality(Pending) <= Cardinality(Callers)
      /\ Cardinality(Pending') <= Cardinality(Callers)
      /\ Cardinality(Callers) \in Nat /\ MaxOpenTrades \in Nat
  BY ConstantsAssumption, FiniteTrades, FiniteCallers DEF Open, Pending
<1>1. ASSUME UNCHANGED trades, UNCHANGED caller PROVE OvershootBounded'
  BY <1>1 DEF OvershootBounded, Open, Pending
<1>2. CASE CheckSlots \/ ChoosePairs \/ EnterEnds
  BY <1>1, <1>2 DEF CheckSlots, ChoosePairs, EnterEnds
<1>3. CASE CloseTrade
  <2>1. PICK t \in Open : trades' = [trades EXCEPT ![t].st = "closed"]
    BY <1>3 DEF CloseTrade
  <2>2. Open' = Open \ {t}
    BY <2>1 DEF Open, TypeOK, Row
  <2>3. Cardinality(Open') = Cardinality(Open) - 1
    BY <2>2, FiniteTrades, FS_RemoveElement DEF Open
  <2>4. Pending' = Pending
    BY <1>3 DEF CloseTrade, Pending
  <2> QED
    BY <1>0, <2>3, <2>4 DEF OvershootBounded
<1>4. ASSUME NEW pair \in Pairs, CreateTrade(pair) PROVE OvershootBounded'
  <2>1. CASE UNCHANGED trades
    BY <1>1, <1>4, <2>1 DEF CreateTrade
  <2>2. CASE SlotLeft /\ NewTrade(pair, "bot")
    <3>1. Cardinality(Open') = Cardinality(Open) + 1
      BY <2>2, NewTradeCounts
    <3>2. Cardinality(Open) < MaxOpenTrades
      BY <2>2, FreeSlots
    <3> QED
      BY <1>0, <3>1, <3>2 DEF OvershootBounded
  <2> QED
    BY <1>4, <2>1, <2>2 DEF CreateTrade
<1>5. ASSUME NEW c \in Callers, NEW pair \in Pairs, ForceEntryCheck(c, pair)
      PROVE  OvershootBounded'
  <2>1. Open' = Open
    BY <1>5 DEF ForceEntryCheck, Open
  <2>2. CASE BelowLimit
    BY <1>0, <2>1, <2>2 DEF BelowLimit, OvershootBounded
  <2>3. CASE ~BelowLimit
    <3>1. Pending' \subseteq Pending
      BY <1>5, <2>3 DEF ForceEntryCheck, Pending, TypeOK, CallerState
    <3>2. Cardinality(Pending') <= Cardinality(Pending)
      BY <3>1, FiniteCallers, FS_Subset DEF Pending
    <3> QED
      BY <1>0, <2>1, <3>2 DEF OvershootBounded
  <2> QED
    BY <2>2, <2>3
<1>6. ASSUME NEW c \in Callers, ForceEntryExecute(c) PROVE OvershootBounded'
  <2>1. Pending' = Pending \ {c}
    BY <1>6 DEF ForceEntryExecute, Pending, IdleCaller, TypeOK
  <2>2. Cardinality(Pending') <= Cardinality(Pending)
    <3>1. IsFiniteSet(Pending) /\ Pending' \subseteq Pending
      BY <2>1, FiniteCallers DEF Pending
    <3> QED
      BY <3>1, FS_Subset
  <2>3. CASE caller[c].adjust = {} /\ NewTrade(caller[c].pair, "rpc")
    <3>1. c \in Pending
      BY <1>6, <2>3 DEF ForceEntryExecute, Pending
    <3>2. Cardinality(Pending') = Cardinality(Pending) - 1
      BY <2>1, <3>1, FiniteCallers, FS_RemoveElement DEF Pending
    <3>3. PICK t \in Trades :
            /\ trades[t].st = "free"
            /\ trades' = [trades EXCEPT ![t] = [pair |-> caller[c].pair, st |-> "open",
                                                by |-> "rpc", stray |-> FALSE]]
      BY <2>3 DEF NewTrade
    <3>4. Open' = Open \cup {t} /\ t \notin Open
      BY <3>3 DEF Open, TypeOK
    <3>5. Cardinality(Open') = Cardinality(Open) + 1
      BY <3>4, FiniteTrades, FS_AddElement DEF Open
    <3> QED
      BY <1>0, <3>2, <3>5 DEF OvershootBounded
  <2>4. CASE \/ UNCHANGED trades
             \/ \E t \in caller[c].adjust :
                  trades' = [trades EXCEPT ![t].stray = @ \/ trades[t].st = "closed"]
    <3>1. Open' = Open
      BY <2>4 DEF Open, TypeOK, CallerState, Row
    <3> QED
      BY <1>0, <2>2, <3>1 DEF OvershootBounded
  <2> QED
    BY <1>6, <2>3, <2>4 DEF ForceEntryExecute
<1>7. ASSUME NEW new \in States, SetState(new) PROVE OvershootBounded'
  BY <1>1, <1>7 DEF SetState
<1>8. CASE UNCHANGED vars
  BY <1>1, <1>8 DEF vars
<1> QED
  BY <1>2, <1>3, <1>4, <1>5, <1>6, <1>7, <1>8 DEF Next

\* However the bot and any number of callers interleave, the number of open trades
\* exceeds max_open_trades by at most the number of callers.
THEOREM OvershootAlwaysBounded == Spec => []OvershootBounded
<1>1. Init => OvershootBounded
  <2> SUFFICES ASSUME Init PROVE OvershootBounded
    OBVIOUS
  <2>1. Open = {} /\ Pending = {}
    BY DEF Init, Open, Pending, NoRow, IdleCaller
  <2> QED
    BY <2>1, ConstantsAssumption, FS_EmptySet, FiniteCallers DEF OvershootBounded
<1>2. TypeOK /\ OvershootBounded /\ [Next]_vars => OvershootBounded'
  BY NextBounded
<1> QED
  BY <1>1, <1>2, EntrySlotsTyped, PTL DEF Spec

-----------------------------------------------------------------------------
(* One trade for each pair, as far as the bot goes *)

\* A pair that the bot still has to enter is taken only by forced entries.
TodoClear ==
    \A pair \in bot.todo : \A t \in OpenOn(pair) : trades[t].by = "rpc"

Apart == BotKeepsPairsApart /\ TodoClear

LEMMA NextApart == ASSUME TypeOK, Apart, [Next]_vars PROVE Apart'
<1>1. ASSUME UNCHANGED trades, bot'.todo \subseteq bot.todo PROVE Apart'
  BY <1>1 DEF Apart, BotKeepsPairsApart, TodoClear, OpenOn, Open
<1>2. CASE CheckSlots \/ EnterEnds
  <2>1. bot'.todo = bot.todo \/ bot' = IdleBot
    BY <1>2 DEF CheckSlots, EnterEnds, TypeOK, BotState
  <2>2. bot'.todo \subseteq bot.todo
    BY <2>1 DEF IdleBot
  <2>3. UNCHANGED trades
    BY <1>2 DEF CheckSlots, EnterEnds
  <2> QED
    BY <1>1, <2>2, <2>3
<1>3. CASE ChoosePairs
  <2>1. bot'.todo = {} \/ bot'.todo = PairsToEnter
    <3>1. CASE bot' = IdleBot
      BY <3>1 DEF IdleBot
    <3>2. CASE bot' = [bot EXCEPT !.pc = "enter", !.todo = PairsToEnter]
      BY <3>2 DEF TypeOK, BotState
    <3> QED
      BY <1>3, <3>1, <3>2 DEF ChoosePairs
  <2>2. UNCHANGED trades
    BY <1>3 DEF ChoosePairs
  <2> QED
    BY <2>1, <2>2 DEF Apart, BotKeepsPairsApart, TodoClear, PairsToEnter, OpenOn, Open
<1>4. CASE CloseTrade
  BY <1>4 DEF CloseTrade, Apart, BotKeepsPairsApart, TodoClear, OpenOn, Open, TypeOK, Row
<1>5. ASSUME NEW pair \in Pairs, NEW by \in {"bot", "rpc"}, NewTrade(pair, by),
             by = "bot" => pair \in bot.todo,
             bot'.todo \subseteq bot.todo, by = "bot" => pair \notin bot'.todo
      PROVE  Apart'
  <2>1. PICK t \in Trades :
          /\ trades[t].st = "free"
          /\ trades' = [trades EXCEPT ![t] = [pair |-> pair, st |-> "open", by |-> by,
                                              stray |-> FALSE]]
    BY <1>5 DEF NewTrade
  <2>2. /\ Open' = Open \cup {t} /\ t \notin Open
        /\ \A u \in Open : trades'[u] = trades[u]
        /\ trades'[t].pair = pair /\ trades'[t].by = by
    BY <2>1 DEF Open, TypeOK
  <2>3. BotKeepsPairsApart'
    BY <1>5, <2>2 DEF Apart, BotKeepsPairsApart, TodoClear, OpenOn
  <2>4. TodoClear'
    BY <1>5, <2>2 DEF Apart, TodoClear, OpenOn
  <2> QED
    BY <2>3, <2>4 DEF Apart
<1>6. ASSUME NEW pair \in Pairs, CreateTrade(pair) PROVE Apart'
  <2>1. pair \in bot.todo /\ bot'.todo = bot.todo \ {pair}
    BY <1>6 DEF CreateTrade, TypeOK, BotState
  <2>2. UNCHANGED trades \/ NewTrade(pair, "bot")
    BY <1>6 DEF CreateTrade
  <2> QED
    BY <1>1, <1>5, <2>1, <2>2
<1>7. ASSUME NEW c \in Callers, NEW pair \in Pairs, ForceEntryCheck(c, pair) PROVE Apart'
  BY <1>1, <1>7 DEF ForceEntryCheck
<1>8. ASSUME NEW c \in Callers, ForceEntryExecute(c) PROVE Apart'
  <2>1. UNCHANGED bot
    BY <1>8 DEF ForceEntryExecute
  <2>2. CASE caller[c].adjust = {} /\ NewTrade(caller[c].pair, "rpc")
    <3>1. PICK t \in Trades :
            /\ trades[t].st = "free"
            /\ trades' = [trades EXCEPT ![t] = [pair |-> caller[c].pair, st |-> "open",
                                                by |-> "rpc", stray |-> FALSE]]
      BY <2>2 DEF NewTrade
    <3>2. /\ Open' = Open \cup {t} /\ t \notin Open
          /\ \A u \in Open : trades'[u] = trades[u]
          /\ trades'[t].by = "rpc"
      BY <3>1 DEF Open, TypeOK
    <3> QED
      BY <2>1, <3>2 DEF Apart, BotKeepsPairsApart, TodoClear, OpenOn
  <2>3. CASE UNCHANGED trades
    BY <1>1, <2>1, <2>3
  <2>4. ASSUME NEW t \in caller[c].adjust,
               trades' = [trades EXCEPT ![t].stray = @ \/ trades[t].st = "closed"]
        PROVE  Apart'
    <3>1. /\ Open' = Open
          /\ \A u \in Open : trades'[u].pair = trades[u].pair /\ trades'[u].by = trades[u].by
      BY <2>4 DEF Open, TypeOK, CallerState, Row
    <3> QED
      BY <2>1, <3>1 DEF Apart, BotKeepsPairsApart, TodoClear, OpenOn
  <2> QED
    BY <1>8, <2>2, <2>3, <2>4 DEF ForceEntryExecute
<1>9. ASSUME NEW new \in States, SetState(new) PROVE Apart'
  BY <1>1, <1>9 DEF SetState
<1>10. CASE UNCHANGED vars
  BY <1>1, <1>10 DEF vars
<1> QED
  BY <1>2, <1>3, <1>4, <1>6, <1>7, <1>8, <1>9, <1>10 DEF Next

\* The bot's thread alone never holds two trades of one pair.
THEOREM BotAlwaysKeepsPairsApart == Spec => []BotKeepsPairsApart
<1>1. Init => Apart
  BY DEF Init, Apart, BotKeepsPairsApart, TodoClear, Open, NoRow, IdleBot
<1>2. TypeOK /\ Apart /\ [Next]_vars => Apart'
  BY NextApart
<1>3. Apart => BotKeepsPairsApart
  BY DEF Apart
<1> QED
  BY <1>1, <1>2, <1>3, EntrySlotsTyped, PTL DEF Spec
=============================================================================
