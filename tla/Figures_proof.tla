---------------------------- MODULE Figures_proof ----------------------------
(***************************************************************************)
(* Proofs about the figures of a trade: StopLoss, then Wallets.            *)
(*                                                                         *)
(* StopLoss, for all rates, ratios and settings: the types, that the stop  *)
(* only tightens, that is_stop_loss_trailing says what happened to it, and *)
(* that a trailing stop protects the best rate.                            *)
(*                                                                         *)
(* Wallets, for all prices, units, balances, limits and numbers of trades  *)
(* and orders: the types, that the profit of a closed trade is its cash up *)
(* to the rounding of averages, that the wallet is explained by the cash,  *)
(* and, if the exchange has a minimum, that every order buys something and *)
(* that entries stay within the budget.                                    *)
(*                                                                         *)
(* The argument for Wallets: sums over sets (induction on their subsets)   *)
(* and the recursion of Positions give what one more order adds to the     *)
(* position, the cash and the lots of a trade (OneMore).  The invariant of *)
(* a row (Row) relates its figures to its orders.  Its part about rounding *)
(* is Sound: the cash is the profit less the cost of the position, and     *)
(* what the rounded average leaves of that cost (Residue) is less than a   *)
(* unit for each lot bought.  Account adds that the wallet is what         *)
(* _update_dry computes.                                                   *)
(***************************************************************************)
EXTENDS StopLoss, Wallets, FiniteSetTheorems, SequenceTheorems, WellFoundedInduction, TLAPS

-----------------------------------------------------------------------------
(* Integer division *)

\* A quotient of integers is an integer.
LEMMA DivType == ASSUME NEW x \in Int, NEW d \in Nat \ {0} PROVE x \div d \in Int
  BY SMT

\* A quotient is rounded down.
LEMMA DivFact ==
    ASSUME NEW x \in Int, NEW d \in Nat \ {0}
    PROVE  d * (x \div d) <= x /\ x < d * (x \div d) + d
  BY SMT

\* Multiplication by a natural number keeps the order.
LEMMA MulMono ==
    ASSUME NEW d \in Nat, NEW a \in Int, NEW b \in Int, a <= b
    PROVE  d * a <= d * b
  BY SMT

\* Division by a positive number keeps the order.
LEMMA DivMono ==
    ASSUME NEW x \in Int, NEW y \in Int, NEW d \in Nat \ {0}, x <= y
    PROVE  x \div d <= y \div d
<1> DEFINE a == x \div d
           b == y \div d
<1>1. a \in Int /\ b \in Int
  BY DivType
<1>2. d * a <= x /\ y < d * b + d
  BY DivFact
<1>3. SUFFICES ASSUME b + 1 <= a PROVE FALSE
  BY <1>1, SMT
<1>4. d * (b + 1) <= d * a
  BY <1>1, <1>3, MulMono
<1>5. d * (b + 1) = d * b + d
  BY <1>1, SMT
<1>6. d * b \in Int /\ d * a \in Int
  BY <1>1, SMT
<1> HIDE DEF a, b
<1> QED
  BY <1>2, <1>4, <1>5, <1>6, SMT

\* A multiple is divided without remainder.
LEMMA DivMultiple ==
    ASSUME NEW r \in Int, NEW d \in Nat \ {0}
    PROVE  (d * r) \div d = r
<1> DEFINE q == (d * r) \div d
<1>1. d * r \in Int
  BY SMT
<1>2. q \in Int
  BY <1>1, DivType
<1>3. d * q <= d * r /\ d * r < d * q + d
  BY <1>1, DivFact
<1> HIDE DEF q
<1>4. d * (q + 1) = d * q + d /\ d * (r + 1) = d * r + d /\ d * q \in Int
  BY <1>2, SMT
<1>5. ~(q + 1 <= r)
  <2>1. SUFFICES ASSUME q + 1 <= r PROVE FALSE
    OBVIOUS
  <2>2. d * (q + 1) <= d * r
    BY <1>2, <2>1, MulMono
  <2> QED
    BY <1>1, <1>3, <1>4, <2>2, SMT
<1>6. ~(r + 1 <= q)
  <2>1. SUFFICES ASSUME r + 1 <= q PROVE FALSE
    OBVIOUS
  <2>2. d * (r + 1) <= d * q
    BY <1>2, <2>1, MulMono
  <2> QED
    BY <1>1, <1>3, <1>4, <2>2, SMT
<1> QED
  BY <1>2, <1>5, <1>6, SMT DEF q

-----------------------------------------------------------------------------
(* The stop at a distance from a rate *)

\* A ratio of 1, with leverage, is positive.
LEMMA UnitPositive == Whole * Leverage \in Nat \ {0}
<1>1. Whole \in Nat \ {0} /\ Leverage \in Nat \ {0}
  BY StopLossAssumption
<1> QED
  BY <1>1, SMT

\* A stop is an integer.
LEMMA NewStopType ==
    ASSUME NEW rate \in Nat, NEW p \in Nat
    PROVE  NewStop(rate, p) \in Int
<1> DEFINE unit == Whole * Leverage
           up == rate * (unit + p)
           down == -(rate * (unit - p))
<1>1. unit \in Nat \ {0}
  BY UnitPositive
<1> HIDE DEF unit
<1>2. up \in Int /\ down \in Int
  BY <1>1, SMT
<1>3. up \div unit \in Int /\ down \div unit \in Int
  BY <1>1, <1>2, DivType
<1> HIDE DEF up, down
<1>4. NewStop(rate, p) = IF short THEN up \div unit ELSE -(down \div unit)
  BY DEF NewStop, up, down, unit
<1> QED
  BY <1>3, <1>4, SMT

\* A smaller ratio gives a stop that is at least as tight.
LEMMA NewStopCloser ==
    ASSUME NEW rate \in Nat, NEW p \in Nat, NEW q \in Nat, p <= q
    PROVE  ~Tighter(NewStop(rate, q), NewStop(rate, p))
<1> DEFINE unit == Whole * Leverage
           up(x) == rate * (unit + x)
           down(x) == -(rate * (unit - x))
<1>1. unit \in Nat \ {0}
  BY UnitPositive
<1> HIDE DEF unit
<1>2. /\ up(p) \in Int /\ up(q) \in Int /\ up(p) <= up(q)
      /\ down(p) \in Int /\ down(q) \in Int /\ down(p) <= down(q)
  <2>1. rate * (unit + p) <= rate * (unit + q) /\ rate * (unit - q) <= rate * (unit - p)
    BY <1>1, MulMono
  <2>2. /\ rate * (unit + p) \in Int /\ rate * (unit + q) \in Int
        /\ rate * (unit - p) \in Int /\ rate * (unit - q) \in Int
    BY <1>1, SMT
  <2> QED
    BY <2>1, <2>2, SMT
<1>3. /\ up(p) \div unit \in Int /\ up(q) \div unit \in Int
      /\ down(p) \div unit \in Int /\ down(q) \div unit \in Int
  BY <1>1, <1>2, DivType
<1>4. up(p) \div unit <= up(q) \div unit /\ down(p) \div unit <= down(q) \div unit
  BY <1>1, <1>2, DivMono
<1>5. /\ NewStop(rate, p) = IF short THEN up(p) \div unit ELSE -(down(p) \div unit)
      /\ NewStop(rate, q) = IF short THEN up(q) \div unit ELSE -(down(q) \div unit)
  BY DEF NewStop, unit
<1> HIDE DEF up, down
<1> QED
  BY <1>3, <1>4, <1>5, SMT DEF Tighter

\* A stop is not tighter than the rate that it is computed from.
LEMMA NewStopBehind ==
    ASSUME NEW rate \in Nat, NEW p \in Nat
    PROVE  ~Tighter(NewStop(rate, p), rate)
<1> DEFINE unit == Whole * Leverage
           up == rate * (unit + p)
           down == -(rate * (unit - p))
<1>1. unit \in Nat \ {0}
  BY UnitPositive
<1> HIDE DEF unit
<1>2. up \in Int /\ down \in Int /\ unit * rate \in Int /\ unit * (-rate) \in Int
  BY <1>1, SMT
<1>3. unit * rate <= up /\ unit * (-rate) <= down
  <2>1. rate * unit <= rate * (unit + p) /\ rate * (unit - p) <= rate * unit
    BY <1>1, MulMono
  <2>2. unit * rate = rate * unit /\ unit * (-rate) = -(rate * unit)
    BY <1>1, SMT
  <2>3. rate * unit \in Int /\ rate * (unit - p) \in Int
    BY <1>1, SMT
  <2> QED
    BY <1>2, <2>1, <2>2, <2>3, SMT
<1>4. (unit * rate) \div unit = rate /\ (unit * (-rate)) \div unit = -rate
  BY <1>1, DivMultiple
<1>5. (unit * rate) \div unit <= up \div unit /\ (unit * (-rate)) \div unit <= down \div unit
  BY <1>1, <1>2, <1>3, DivMono
<1>6. up \div unit \in Int /\ down \div unit \in Int
  BY <1>1, <1>2, DivType
<1>7. NewStop(rate, p) = IF short THEN up \div unit ELSE -(down \div unit)
  BY DEF NewStop, unit
<1>8. rate <= up \div unit /\ -rate <= down \div unit
  BY <1>4, <1>5
<1> HIDE DEF up, down
<1> QED
  BY <1>6, <1>7, <1>8, SMT DEF Tighter

-----------------------------------------------------------------------------
(* The operators that move the stop *)

\* u is t with another stop: the life of the trade and its fills are left alone.
SameTrade(t, u) == u.open = t.open /\ u.rate = t.rate /\ u.fills = t.fills

\* The stop of u is that of t, or tighter and marked as trailing.
StopKept(t, u) ==
    /\ u.initial = t.initial /\ u.initialRatio = t.initialRatio
    /\ \/ u.stop = t.stop /\ u.trailing = t.trailing
       \/ Tighter(u.stop, t.stop) /\ u.trailing

Tightened(t, u) == SameTrade(t, u) /\ StopKept(t, u)

\* Tightened is transitive.
LEMMA TightenedTransitive ==
    ASSUME short \in BOOLEAN,
           NEW STATE t, t \in TradeType, NEW STATE u, u \in TradeType,
           NEW STATE v, v \in TradeType,
           Tightened(t, u), Tightened(u, v)
    PROVE  Tightened(t, v)
<1>1. t.stop \in Int /\ u.stop \in Int /\ v.stop \in Int
  BY DEF TradeType
<1> QED
  BY <1>1 DEF Tightened, StopKept, Tighter, SameTrade

\* Rates and ratios are natural numbers.
LEMMA Naturals == Rates \subseteq Nat /\ Ratios \subseteq Nat
  BY StopLossAssumption

\* Two records that differ in the stop, its ratio and the flag.
LEMMA Moved ==
    ASSUME NEW STATE t, t \in TradeType, NEW STATE s, s \in Int,
           NEW STATE p, p \in Ratios, NEW STATE b, b \in BOOLEAN
    PROVE  [t EXCEPT !.stop = s, !.ratio = p, !.trailing = b] \in TradeType
  BY DEF TradeType

\* adjust_stop_loss keeps the types, and tightens unless it refreshes.
LEMMA AdjustStopFacts ==
    ASSUME short \in BOOLEAN,
           NEW STATE t, t \in TradeType, NEW STATE rate, rate \in Rates,
           NEW STATE p, p \in Ratios, NEW STATE refresh, refresh \in BOOLEAN
    PROVE  /\ AdjustStop(t, rate, p, refresh) \in TradeType
           /\ SameTrade(t, AdjustStop(t, rate, p, refresh))
           /\ ~refresh => /\ Tightened(t, AdjustStop(t, rate, p, refresh))
                          /\ ~Tighter(NewStop(rate, p), AdjustStop(t, rate, p, refresh).stop)
<1> DEFINE s == NewStop(rate, p)
           b == t.trailing \/ ~refresh
           u == [t EXCEPT !.stop = s, !.ratio = p, !.trailing = b]
<1>1. rate \in Nat /\ p \in Nat
  BY Naturals
<1>2. s \in Int
  BY <1>1, NewStopType
<1>3. t.stop \in Int /\ t.trailing \in BOOLEAN
  BY DEF TradeType
<1>4. AdjustStop(t, rate, p, refresh) = IF refresh \/ Tighter(s, t.stop) THEN u ELSE t
  BY DEF AdjustStop
<1> HIDE DEF s
<1>5. b \in BOOLEAN
  BY <1>3
<1>6. u \in TradeType
  BY <1>2, <1>5, Moved
<1>7. /\ SameTrade(t, u)
      /\ u.initial = t.initial /\ u.initialRatio = t.initialRatio
      /\ u.stop = s /\ u.trailing = b
  BY DEF TradeType, SameTrade
<1>8. ASSUME ~refresh, Tighter(s, t.stop)
      PROVE  Tightened(t, u) /\ ~Tighter(s, u.stop)
  <2> HIDE DEF u
  <2>1. u.trailing
    BY <1>3, <1>7, <1>8
  <2> QED
    BY <1>2, <1>3, <1>7, <1>8, <2>1 DEF Tightened, StopKept, Tighter
<1>9. SameTrade(t, t) /\ Tightened(t, t)
  BY DEF Tightened, StopKept, SameTrade
<1> HIDE DEF u
<1>10. CASE refresh \/ Tighter(s, t.stop)
  BY <1>4, <1>6, <1>7, <1>8, <1>10 DEF s
<1>11. CASE ~(refresh \/ Tighter(s, t.stop))
  BY <1>4, <1>9, <1>11 DEF s
<1> QED
  BY <1>10, <1>11

\* custom_stoploss outside of a fill.
LEMMA CustomStopFacts ==
    ASSUME short \in BOOLEAN,
           NEW STATE t, t \in TradeType, NEW STATE rate, rate \in Rates,
           NEW STATE value, value \in Ratios \cup {None}, NEW STATE after, after \in BOOLEAN
    PROVE  /\ CustomStop(t, rate, value, after) \in TradeType
           /\ SameTrade(t, CustomStop(t, rate, value, after))
           /\ ~settings.custom => CustomStop(t, rate, value, after) = t
           /\ ~after => Tightened(t, CustomStop(t, rate, value, after))
<1>1. SameTrade(t, t) /\ Tightened(t, t)
  BY DEF Tightened, StopKept, SameTrade
<1>2. CASE settings.custom /\ value # None
  <2>1. value \in Ratios
    BY <1>2
  <2>2. CustomStop(t, rate, value, after) = AdjustStop(t, rate, value, after)
    BY <1>2 DEF CustomStop
  <2> QED
    BY <1>2, <2>1, <2>2, AdjustStopFacts
<1>3. CASE ~(settings.custom /\ value # None)
  BY <1>1, <1>3 DEF CustomStop
<1> QED
  BY <1>2, <1>3

\* The trailing stop uses a ratio in use; with Trails, one of at most stoploss.
LEMMA TrailingRatioFacts ==
    ASSUME settings \in Settings, stoploss \in Ratios,
           NEW STATE t, NEW STATE rate, NEW STATE value, value \in Ratios \cup {None}
    PROVE  /\ TrailingRatio(t, rate, value) \in Ratios
           /\ Trails => TrailingRatio(t, rate, value) <= stoploss
<1>1. settings.positive \in Ratios \cup {None}
  BY StopLossAssumption DEF AllSettings
<1>2. stoploss \in Nat
  BY Naturals
<1> QED
  BY <1>1, <1>2 DEF TrailingRatio, Trails, None

\* trailing_stop only tightens, and with Trails as far as stoploss.
LEMMA TrailingStopFacts ==
    ASSUME short \in BOOLEAN, settings \in Settings, stoploss \in Ratios,
           NEW STATE t, t \in TradeType, NEW STATE rate, rate \in Rates,
           NEW STATE value, value \in Ratios \cup {None}
    PROVE  /\ TrailingStop(t, rate, value) \in TradeType
           /\ Tightened(t, TrailingStop(t, rate, value))
           /\ Trails => ~Tighter(NewStop(rate, stoploss), TrailingStop(t, rate, value).stop)
<1> DEFINE p == TrailingRatio(t, rate, value)
<1>1. p \in Ratios /\ (Trails => p <= stoploss)
  BY TrailingRatioFacts
<1> HIDE DEF p
<1>2. Tightened(t, t)
  BY DEF Tightened, StopKept, SameTrade
<1>3. CASE settings.trailing /\ ~Waits(t, rate)
  <2> DEFINE u == AdjustStop(t, rate, p, FALSE)
  <2>1. TrailingStop(t, rate, value) = u
    BY <1>3 DEF TrailingStop, p
  <2>2. u \in TradeType /\ Tightened(t, u) /\ ~Tighter(NewStop(rate, p), u.stop)
    BY <1>1, AdjustStopFacts
  <2>3. rate \in Nat /\ p \in Nat /\ stoploss \in Nat
    BY <1>1, Naturals
  <2>4. u.stop \in Int /\ NewStop(rate, p) \in Int /\ NewStop(rate, stoploss) \in Int
    BY <2>2, <2>3, NewStopType DEF TradeType
  <2>5. Trails => ~Tighter(NewStop(rate, stoploss), NewStop(rate, p))
    BY <1>1, <2>3, NewStopCloser
  <2> HIDE DEF u
  <2>6. Trails => ~Tighter(NewStop(rate, stoploss), u.stop)
    BY <2>2, <2>4, <2>5 DEF Tighter
  <2> QED
    BY <2>1, <2>2, <2>6
<1>4. CASE ~(settings.trailing /\ ~Waits(t, rate))
  <2>1. TrailingStop(t, rate, value) = t
    BY <1>4 DEF TrailingStop
  <2>2. ~Trails
    BY <1>4 DEF Trails, Waits
  <2> QED
    BY <1>2, <2>1, <2>2
<1> QED
  BY <1>3, <1>4

\* ft_stoploss_adjust keeps the types, and only tightens except after a fill.
LEMMA StoplossAdjustFacts ==
    ASSUME short \in BOOLEAN, settings \in Settings, stoploss \in Ratios,
           NEW STATE t, t \in TradeType, NEW STATE rate, rate \in Rates,
           NEW STATE value, value \in Ratios \cup {None}, NEW STATE after, after \in BOOLEAN
    PROVE  /\ StoplossAdjust(t, rate, value, after) \in TradeType
           /\ SameTrade(t, StoplossAdjust(t, rate, value, after))
           /\ ~after => Tightened(t, StoplossAdjust(t, rate, value, after))
           /\ Trails => ~Tighter(NewStop(rate, stoploss),
                                 StoplossAdjust(t, rate, value, after).stop)
<1>1. SameTrade(t, t) /\ Tightened(t, t)
  BY DEF Tightened, StopKept, SameTrade
<1>2. CASE Reached(t.stop, rate)
  <2>1. StoplossAdjust(t, rate, value, after) = t
    BY <1>2 DEF StoplossAdjust
  <2>2. rate \in Nat /\ stoploss \in Nat /\ t.stop \in Int
    BY Naturals DEF TradeType
  <2>3. NewStop(rate, stoploss) \in Int /\ ~Tighter(NewStop(rate, stoploss), rate)
    BY <2>2, NewStopType, NewStopBehind
  <2>4. ~Tighter(NewStop(rate, stoploss), t.stop)
    BY <1>2, <2>2, <2>3 DEF Reached, Tighter
  <2> QED
    BY <1>1, <2>1, <2>4
<1>3. CASE ~Reached(t.stop, rate)
  <2> DEFINE c == CustomStop(t, rate, value, after)
             u == TrailingStop(c, rate, value)
  <2>1. StoplossAdjust(t, rate, value, after) = u
    BY <1>3 DEF StoplossAdjust
  <2>2. c \in TradeType /\ SameTrade(t, c) /\ (~after => Tightened(t, c))
    BY CustomStopFacts
  <2> HIDE DEF c
  <2>3. /\ u \in TradeType /\ Tightened(c, u)
        /\ Trails => ~Tighter(NewStop(rate, stoploss), u.stop)
    BY <2>2, TrailingStopFacts
  <2> HIDE DEF u
  <2>4. SameTrade(t, u)
    BY <2>2, <2>3 DEF Tightened, StopKept, SameTrade
  <2>5. ~after => Tightened(t, u)
    BY <2>2, <2>3, TightenedTransitive
  <2> QED
    BY <2>1, <2>2, <2>3, <2>4, <2>5
<1> QED
  BY <1>2, <1>3

-----------------------------------------------------------------------------
(* The steps *)

\* What an order that fills does to the trade.
LEMMA FillFacts ==
    ASSUME TypeOK, NEW openRate \in Rates, NEW rate \in Rates,
           NEW value \in Ratios \cup {None}, Fill(openRate, rate, value)
    PROVE  /\ trade' \in TradeType
           /\ trade'.fills = trade.fills + 1
           /\ ~(settings.custom /\ settings.afterFill) => StopKept(trade, trade')
<1> DEFINE t0 == [trade EXCEPT !.rate = openRate, !.fills = @ + 1]
           t == AdjustStop(t0, openRate, trade.ratio, FALSE)
<1>1. trade \in TradeType /\ short \in BOOLEAN /\ settings \in Settings /\ stoploss \in Ratios
  BY DEF TypeOK
<1>2. trade.ratio \in Ratios /\ trade.fills \in 0 .. MaxFills /\ trade.fills < MaxFills
  BY <1>1 DEF TradeType, Fill
<1>3. trade.fills + 1 \in 0 .. MaxFills
  BY <1>2, StopLossAssumption, SMT
<1>4. t0 \in TradeType
  BY <1>1, <1>3 DEF TradeType
<1>5. t0.fills = trade.fills + 1 /\ StopKept(trade, t0)
  BY <1>1 DEF TradeType, StopKept
<1> HIDE DEF t0
<1>6. t \in TradeType /\ SameTrade(t0, t) /\ Tightened(t0, t)
  BY <1>1, <1>2, <1>4, AdjustStopFacts
<1>7. trade' = IF settings.custom /\ settings.afterFill
               THEN StoplossAdjust(t, rate, value, TRUE) ELSE t
  BY DEF Fill, t, t0
<1> HIDE DEF t
<1>8. CASE settings.custom /\ settings.afterFill
  <2> DEFINE u == StoplossAdjust(t, rate, value, TRUE)
  <2>1. u \in TradeType /\ SameTrade(t, u)
    BY <1>1, <1>6, StoplossAdjustFacts
  <2> HIDE DEF u
  <2>2. trade' = u
    BY <1>7, <1>8 DEF u
  <2> QED
    BY <1>5, <1>6, <1>8, <2>1, <2>2 DEF SameTrade
<1>9. CASE ~(settings.custom /\ settings.afterFill)
  <2>1. trade' = t
    BY <1>7, <1>9
  <2>2. t.fills = trade.fills + 1
    BY <1>5, <1>6 DEF SameTrade
  <2>3. trade.stop \in Int /\ t0.stop \in Int /\ t.stop \in Int
    BY <1>1, <1>4, <1>6 DEF TradeType
  <2>4. StopKept(trade, t)
    BY <1>1, <1>5, <1>6, <2>3 DEF StopKept, Tightened, Tighter
  <2> QED
    BY <1>6, <2>1, <2>2, <2>4
<1> QED
  BY <1>8, <1>9

\* What an evaluation of the trade does to it.
LEMMA EvaluateFacts ==
    ASSUME TypeOK, NEW rate \in Rates, NEW value \in Ratios \cup {None},
           NEW leaves \in BOOLEAN, Evaluate(rate, value, leaves)
    PROVE  /\ trade' \in TradeType
           /\ StopKept(trade, trade')
           /\ Trails => ~Tighter(NewStop(rate, stoploss), trade'.stop)
<1> DEFINE u == StoplossAdjust(trade, rate, value, FALSE)
<1>1. trade \in TradeType /\ short \in BOOLEAN /\ settings \in Settings /\ stoploss \in Ratios
  BY DEF TypeOK
<1>2. /\ u \in TradeType /\ Tightened(trade, u)
      /\ Trails => ~Tighter(NewStop(rate, stoploss), u.stop)
  BY <1>1, StoplossAdjustFacts
<1>3. trade' = [u EXCEPT !.open = ~leaves]
  BY DEF Evaluate
<1> HIDE DEF u
<1>4. /\ trade'.stop = u.stop /\ trade'.trailing = u.trailing
      /\ trade'.initial = u.initial /\ trade'.initialRatio = u.initialRatio
  BY <1>2, <1>3 DEF TradeType
<1>5. trade' \in TradeType
  <2>1. CASE leaves
    <3>1. trade' = [u EXCEPT !.open = FALSE]
      BY <1>3, <2>1
    <3> QED
      BY <1>2, <3>1 DEF TradeType
  <2>2. CASE ~leaves
    <3>1. trade' = [u EXCEPT !.open = TRUE]
      BY <1>3, <2>2
    <3> QED
      BY <1>2, <3>1 DEF TradeType
  <2> QED
    BY <2>1, <2>2
<1>6. StopKept(trade, trade')
  BY <1>2, <1>4 DEF StopKept, Tightened
<1> QED
  BY <1>2, <1>4, <1>5, <1>6

\* What a new stoploss does to the trade.
LEMMA ReloadFacts ==
    ASSUME TypeOK, NEW ratio \in Ratios, Reload(ratio)
    PROVE  /\ trade' \in TradeType
           /\ \/ trade' = trade
              \/ ~trade'.trailing /\ trade'.stop = trade'.initial
<1> DEFINE s == NewStop(trade.rate, ratio)
           u == [trade EXCEPT !.stop = s, !.ratio = ratio, !.initial = s, !.initialRatio = ratio]
<1>1. trade \in TradeType
  BY DEF TypeOK
<1>2. trade.rate \in Nat /\ ratio \in Nat
  BY <1>1, Naturals DEF TradeType
<1>3. s \in Int
  BY <1>2, NewStopType
<1>4. trade' = IF ~trade.trailing /\ trade.initialRatio # ratio THEN u ELSE trade
  BY DEF Reload, Reinitialized, InitialStop
<1> HIDE DEF s
<1>5. /\ u \in TradeType
      /\ u.trailing = trade.trailing /\ u.stop = u.initial
  BY <1>1, <1>3 DEF TradeType
<1> HIDE DEF u
<1> QED
  BY <1>1, <1>4, <1>5

-----------------------------------------------------------------------------
(* The theorems *)

\* A new trade has its initial stop.
LEMMA InitFacts ==
    ASSUME Init
    PROVE  TypeOK /\ TrailingMeansMoved /\ GainsProtected
<1>1. short \in BOOLEAN /\ settings \in Settings /\ stoploss \in Ratios /\ best = None
  BY DEF Init
<1>2. PICK rate \in Rates : trade = NewTrade(rate)
  BY DEF Init
<1> DEFINE s == NewStop(rate, stoploss)
<1>3. s \in Int
  <2>1. rate \in Nat /\ stoploss \in Nat
    BY <1>1, Naturals
  <2> QED
    BY <2>1, NewStopType
<1>4. trade = [open |-> TRUE, rate |-> rate, stop |-> s, ratio |-> stoploss, initial |-> s,
               initialRatio |-> stoploss, trailing |-> FALSE, fills |-> 0]
  BY <1>2 DEF NewTrade, InitialStop
<1> HIDE DEF s
<1>5. 0 \in 0 .. MaxFills
  BY StopLossAssumption, SMT
<1>6. TRUE \in BOOLEAN /\ FALSE \in BOOLEAN
  OBVIOUS
<1>7. trade \in TradeType
  BY <1>1, <1>3, <1>4, <1>5, <1>6, Zenon DEF TradeType
<1>8. TrailingMeansMoved
  BY <1>4 DEF TrailingMeansMoved
<1>9. GainsProtected
  BY <1>1 DEF GainsProtected
<1> QED
  BY <1>1, <1>7, <1>8, <1>9 DEF TypeOK

\* One step, whichever it is: what it does to the trade and to its stop.
LEMMA StepFacts ==
    ASSUME TypeOK, Next
    PROVE  /\ trade' \in TradeType
           /\ short' = short /\ settings' = settings /\ stoploss' \in Ratios
           /\ \/ /\ StopKept(trade, trade') /\ stoploss' = stoploss
                 /\ \/ best' = best
                    \/ \E rate \in Rates :
                         /\ best' = Better(rate, best)
                         /\ Trails => ~Tighter(NewStop(rate, stoploss), trade'.stop)
              \/ /\ settings.custom /\ settings.afterFill
                 /\ trade'.fills # trade.fills /\ stoploss' = stoploss /\ best' = best
              \/ /\ stoploss' # stoploss /\ best' = None
                 /\ \/ trade' = trade
                    \/ ~trade'.trailing /\ trade'.stop = trade'.initial
<1>1. ASSUME NEW openRate \in Rates, NEW rate \in Rates, NEW value \in Ratios \cup {None},
             Fill(openRate, rate, value)
      PROVE  /\ trade' \in TradeType /\ UNCHANGED <<short, settings, stoploss, best>>
             /\ \/ StopKept(trade, trade')
                \/ settings.custom /\ settings.afterFill /\ trade'.fills # trade.fills
  <2>1. trade.fills \in Int
    BY DEF TypeOK, TradeType
  <2>2. UNCHANGED <<short, settings, stoploss, best>>
    BY <1>1 DEF Fill
  <2> QED
    BY <1>1, <2>1, <2>2, FillFacts
<1>2. CASE EntryFilled
  BY <1>1, <1>2 DEF EntryFilled, TypeOK
<1>3. CASE PartialExitFilled
  <2>1. trade.rate \in Rates
    BY DEF TypeOK, TradeType
  <2>2. PICK rate \in Rates, value \in Ratios \cup {None} : Fill(trade.rate, rate, value)
    BY <1>3 DEF PartialExitFilled
  <2>3. PICK openRate \in Rates : openRate = trade.rate
    BY <2>1
  <2> QED
    BY <1>1, <2>2, <2>3 DEF TypeOK
<1>4. CASE ShouldExit
  <2>1. PICK rate \in Rates, value \in Ratios \cup {None}, leaves \in BOOLEAN :
            Evaluate(rate, value, leaves)
    BY <1>4 DEF ShouldExit
  <2>2. best' = Better(rate, best) /\ UNCHANGED <<short, settings, stoploss>>
    BY <2>1 DEF Evaluate
  <2> QED
    BY <2>1, <2>2, EvaluateFacts DEF TypeOK
<1>5. ASSUME NEW ratio \in Ratios, Reload(ratio)
      PROVE  /\ trade' \in TradeType
             /\ short' = short /\ settings' = settings /\ stoploss' \in Ratios
             /\ stoploss' # stoploss /\ best' = None
             /\ \/ trade' = trade
                \/ ~trade'.trailing /\ trade'.stop = trade'.initial
  BY <1>5, ReloadFacts DEF Reload
<1> QED
  BY <1>2, <1>3, <1>4, <1>5 DEF Next

\* The invariants in one step, whichever it is.
LEMMA StepTyped ==
    ASSUME TypeOK, [Next]_vars
    PROVE  TypeOK'
<1>1. CASE Next
  <2>1. /\ trade' \in TradeType
        /\ short' = short /\ settings' = settings /\ stoploss' \in Ratios
    BY <1>1, StepFacts
  <2>2. best' \in Rates \cup {None}
    <3>1. \/ best' = best \/ best' = None
          \/ \E rate \in Rates : best' = Better(rate, best)
      BY <1>1, StepFacts
    <3> QED
      BY <3>1 DEF TypeOK, Better
  <2> QED
    BY <2>1, <2>2 DEF TypeOK
<1>2. CASE UNCHANGED vars
  BY <1>2 DEF TypeOK, vars
<1> QED
  BY <1>1, <1>2

\* The values of the stop and of the settings in every state, whatever the
\* rates, the ratios, the fees of a trade's fills and the reloads (LocalTrade).
THEOREM StopLossTyped == Spec => []TypeOK
<1>1. Init => TypeOK
  BY InitFacts
<1>2. TypeOK /\ [Next]_vars => TypeOK'
  BY StepTyped
<1> QED
  BY <1>1, <1>2, PTL DEF Spec

\* StopOnlyTightens of StopLoss: adjust_stop_loss lets the stop walk in one direction.
THEOREM StopAlwaysTightens == Spec => StopOnlyTightens
<1>1. ASSUME TypeOK, [Next]_vars
      PROVE  [ \/ ~Tighter(trade.stop, trade'.stop)
               \/ stoploss' # stoploss
               \/ settings.custom /\ settings.afterFill /\ trade'.fills # trade.fills ]_vars
  <2>1. trade.stop \in Int
    BY <1>1 DEF TypeOK, TradeType
  <2>2. CASE Next
    <3>1. trade'.stop \in Int
      BY <1>1, <2>2, StepFacts DEF TradeType
    <3>2. \/ StopKept(trade, trade')
          \/ settings.custom /\ settings.afterFill /\ trade'.fills # trade.fills
          \/ stoploss' # stoploss
      BY <1>1, <2>2, StepFacts
    <3>3. CASE StopKept(trade, trade')
      BY <2>1, <3>1, <3>3 DEF StopKept, Tighter
    <3> QED
      BY <3>2, <3>3
  <2>3. CASE UNCHANGED vars
    BY <2>3
  <2> QED
    BY <1>1, <2>2, <2>3
<1> QED
  BY <1>1, StopLossTyped, PTL DEF Spec, StopOnlyTightens

\* TrailingMeansMoved of StopLoss: is_stop_loss_trailing says truly whether the
\* stop has left its initial place.
THEOREM TrailingFlagTrue == Spec => []TrailingMeansMoved
<1>1. Init => TrailingMeansMoved
  BY InitFacts
<1>2. ASSUME TypeOK, TrailingMeansMoved, [Next]_vars
      PROVE  TrailingMeansMoved'
  <2>1. /\ trade.stop \in Int /\ trade.initial \in Int
        /\ trade.trailing \in BOOLEAN /\ short \in BOOLEAN
    BY <1>2 DEF TypeOK, TradeType
  <2>2. CASE Next
    <3>1. /\ short' = short /\ settings' = settings
          /\ trade'.stop \in Int /\ trade'.initial \in Int
      BY <1>2, <2>2, StepFacts DEF TradeType
    <3>2. CASE StopKept(trade, trade')
      BY <1>2, <2>1, <3>1, <3>2 DEF StopKept, TrailingMeansMoved, Tighter
    <3>3. CASE settings.custom /\ settings.afterFill
      BY <3>1, <3>3 DEF TrailingMeansMoved
    <3>4. CASE trade' = trade
      BY <1>2, <3>1, <3>4 DEF TrailingMeansMoved, Tighter
    <3>5. CASE ~trade'.trailing /\ trade'.stop = trade'.initial
      BY <3>5 DEF TrailingMeansMoved
    <3> QED
      BY <1>2, <2>2, <3>2, <3>3, <3>4, <3>5, StepFacts
  <2>3. CASE UNCHANGED vars
    BY <1>2, <2>3 DEF TrailingMeansMoved, Tighter, vars
  <2> QED
    BY <1>2, <2>2, <2>3
<1> QED
  BY <1>1, <1>2, StopLossTyped, PTL DEF Spec

\* GainsProtected of StopLoss: a trailing stop is at least as tight as
\* ft_stoploss_adjust puts it from the best rate that was seen.
THEOREM GainsAlwaysProtected == Spec => []GainsProtected
<1>1. Init => GainsProtected
  BY InitFacts
<1>2. ASSUME TypeOK, GainsProtected, [Next]_vars
      PROVE  GainsProtected'
  <2>1. CASE Next
    <3> SUFFICES ASSUME Trails', best' # None
                 PROVE  ~Tighter(NewStop(best, stoploss), trade.stop)'
      BY DEF GainsProtected
    <3>1. /\ short' = short /\ settings' = settings
          /\ trade'.stop \in Int /\ stoploss' \in Ratios
      BY <1>2, <2>1, StepFacts DEF TradeType
    <3>2. ~settings.custom
      BY <3>1 DEF Trails
    <3>3. PICK rate \in Rates \cup {None} :
            /\ StopKept(trade, trade') /\ stoploss' = stoploss
            /\ \/ best' = best
               \/ /\ rate \in Rates /\ best' = Better(rate, best)
                  /\ Trails => ~Tighter(NewStop(rate, stoploss), trade'.stop)
      BY <1>2, <2>1, <3>2, StepFacts
    <3>4. Trails
      BY <3>1, <3>3 DEF Trails
    <3>5. best' \in Rates
      BY <3>3, <1>2 DEF TypeOK, Better
    <3>6. NewStop(best', stoploss) \in Int /\ trade.stop \in Int
      BY <1>2, <3>5, Naturals, NewStopType DEF TypeOK, TradeType
    <3>7. ~Tighter(NewStop(best', stoploss), trade'.stop)
      <4>1. CASE best' = best
        <5>1. ~Tighter(NewStop(best, stoploss), trade.stop)
          BY <1>2, <3>4, <4>1 DEF GainsProtected
        <5>2. ~Tighter(NewStop(best', stoploss), trade.stop)
          BY <4>1, <5>1
        <5> QED
          BY <3>1, <3>3, <3>6, <5>2 DEF StopKept, Tighter
      <4>2. CASE best' # best
        BY <3>3, <3>4, <4>2 DEF Better
      <4> QED
        BY <4>1, <4>2
    <3>8. NewStop(best, stoploss)' = NewStop(best', stoploss)
      BY <3>1, <3>3 DEF NewStop
    <3> QED
      BY <3>1, <3>7, <3>8 DEF Tighter
  <2>2. CASE UNCHANGED vars
    BY <1>2, <2>2 DEF GainsProtected, Trails, NewStop, Tighter, vars
  <2> QED
    BY <1>2, <2>1, <2>2
<1> QED
  BY <1>1, <1>2, StopLossTyped, PTL DEF Spec

-----------------------------------------------------------------------------
(* Sums.  SumFunctionOnSet of the community modules is defined by recursion    *)
(* over a CHOOSEn function on the subsets of a set.  What follows is induction *)
(* over the subsets of a finite set, with the property given as a set of them, *)
(* and from it: the recursion has a solution, any two solutions agree, and a   *)
(* sum may be taken apart at any element.                                      *)

Less == {p \in Nat \X Nat : p[1] < p[2]}

LEMMA LessWellFounded == IsWellFoundedOn(Less, Nat)
BY NatLessThanWellFounded DEF OpToRel, Less

LEMMA SmallestExists ==
    ASSUME NEW N \in SUBSET Nat, N # {}
    PROVE  \E n \in N : \A m \in N : n <= m
<1>1. PICK n \in N : \A m \in N : <<m, n>> \notin Less
  BY LessWellFounded, WFMin
<1>2. ASSUME NEW m \in N PROVE n <= m
  <2>1. <<m, n>> \in Nat \X Nat /\ (m < n \/ n <= m)
    OBVIOUS
  <2> QED
    BY <1>1, <2>1 DEF Less
<1> QED
  BY <1>2

\* Induction over the natural numbers, for a property given as a set.
LEMMA CountingUp ==
    ASSUME NEW T, 0 \in T, \A n \in Nat : n \in T => n + 1 \in T
    PROVE  Nat \subseteq T
<1> DEFINE Missing == {n \in Nat : n \notin T}
<1>1. SUFFICES ASSUME Missing # {} PROVE FALSE
  OBVIOUS
<1>2. PICK n \in Missing : \A m \in Missing : n <= m
  BY <1>1, SmallestExists
<1>3. n - 1 \in Nat /\ ~(n <= n - 1)
  BY <1>2
<1> QED
  BY <1>2, <1>3

\* Induction over the subsets of a finite set, by their size.
LEMMA BySize ==
    ASSUME NEW S, IsFiniteSet(S), NEW T,
           \A R \in SUBSET S : (\A x \in R : R \ {x} \in T) => R \in T
    PROVE  SUBSET S \subseteq T
<1> DEFINE Missing == {R \in SUBSET S : R \notin T}
           Sizes == {Cardinality(R) : R \in Missing}
<1>1. SUFFICES ASSUME Missing # {} PROVE FALSE
  OBVIOUS
<1>2. \A R \in SUBSET S : IsFiniteSet(R) /\ Cardinality(R) \in Nat
  BY FS_Subset, FS_CardinalityType
<1>3. PICK n \in Sizes : \A m \in Sizes : n <= m
  <2>1. Sizes \in SUBSET Nat /\ Sizes # {}
    BY <1>1, <1>2
  <2> HIDE DEF Sizes
  <2> QED
    BY <2>1, SmallestExists
<1>4. PICK R \in Missing : Cardinality(R) = n
  BY <1>3
<1>5. ASSUME NEW x \in R PROVE R \ {x} \in T
  <2>1. Cardinality(R \ {x}) = Cardinality(R) - 1
    BY <1>2, <1>4, FS_RemoveElement
  <2>2. ~(n <= Cardinality(R \ {x}))
    BY <1>2, <1>4, <2>1
  <2> QED
    BY <1>3, <2>2
<1> QED
  BY <1>4, <1>5

\* The element that the sum of the community modules takes first.
First(R) == CHOOSE x \in R : TRUE

LEMMA FirstIsMember == ASSUME NEW R, R # {} PROVE First(R) \in R
BY DEF First

\* The sum over R, given the sums over smaller sets.
Unfolded(f, g, R) == IF R = {} THEN 0 ELSE f[First(R)] + g[R \ {First(R)}]

Solves(f, g, S) == g = [R \in SUBSET S |-> Unfolded(f, g, R)]

\* Two solutions agree on the sets that both are about.
LEMMA SolutionsAgree ==
    ASSUME NEW S, IsFiniteSet(S), NEW R \in SUBSET S, NEW f, NEW g, NEW h,
           Solves(f, g, S), Solves(f, h, R)
    PROVE  g[R] = h[R]
<1> DEFINE Agreed == {Q \in SUBSET R : g[Q] = h[Q]}
<1>1. \A Q \in SUBSET R : g[Q] = Unfolded(f, g, Q) /\ h[Q] = Unfolded(f, h, Q)
  BY DEF Solves
<1>2. ASSUME NEW Q \in SUBSET R, \A x \in Q : Q \ {x} \in Agreed
      PROVE  Q \in Agreed
  BY <1>1, <1>2, FirstIsMember DEF Unfolded
<1>3. IsFiniteSet(R)
  BY FS_Subset
<1>4. SUBSET R \subseteq Agreed
  <2> HIDE DEF Agreed
  <2> QED
    BY <1>2, <1>3, BySize
<1> QED
  BY <1>4

\* The recursion of the sum over the subsets of a finite set has a solution.
LEMMA SolutionExists == ASSUME NEW S, IsFiniteSet(S), NEW f PROVE \E g : Solves(f, g, S)
<1> DEFINE UpTo(n) == {R \in SUBSET S : Cardinality(R) <= n}
           SolvesTo(g, n) == g = [R \in UpTo(n) |-> Unfolded(f, g, R)]
           Solved == {n \in Nat : \E g : SolvesTo(g, n)}
<1>1. \A R \in SUBSET S : IsFiniteSet(R) /\ Cardinality(R) \in Nat
  BY FS_Subset, FS_CardinalityType
<1>2. 0 \in Solved
  <2>1. ASSUME NEW R \in UpTo(0) PROVE R = {}
    <3>1. Cardinality(R) = 0
      BY <1>1, <2>1
    <3> QED
      BY <1>1, <3>1, FS_EmptySet
  <2>2. SolvesTo([R \in UpTo(0) |-> 0], 0)
    BY <2>1 DEF Unfolded
  <2> QED
    BY <2>2
<1>3. ASSUME NEW n \in Nat, n \in Solved PROVE n + 1 \in Solved
  <2>1. PICK g : SolvesTo(g, n)
    BY <1>3
  <2> DEFINE h == [R \in UpTo(n + 1) |-> Unfolded(f, g, R)]
  <2>2. UpTo(n) \subseteq UpTo(n + 1)
    BY <1>1
  <2>3. \A R \in UpTo(n) : h[R] = g[R]
    BY <2>1, <2>2
  <2>4. ASSUME NEW R \in UpTo(n + 1), R # {} PROVE R \ {First(R)} \in UpTo(n)
    <3>1. Cardinality(R \ {First(R)}) = Cardinality(R) - 1
      BY <1>1, <2>4, FirstIsMember, FS_RemoveElement
    <3> QED
      BY <1>1, <1>3, <3>1
  <2>5. \A R \in UpTo(n + 1) : Unfolded(f, g, R) = Unfolded(f, h, R)
    <3> HIDE DEF h, UpTo
    <3> QED
      BY <2>3, <2>4 DEF Unfolded
  <2>6. \E k : SolvesTo(k, n + 1)
    <3>1. SolvesTo(h, n + 1)
      BY <2>5
    <3> HIDE DEF SolvesTo, h
    <3> QED
      BY <3>1
  <2> HIDE DEF SolvesTo
  <2> QED
    BY <1>3, <2>6
<1>4. Nat \subseteq Solved
  <2> HIDE DEF Solved
  <2> QED
    BY <1>2, <1>3, CountingUp
<1>5. Cardinality(S) \in Nat /\ UpTo(Cardinality(S)) = SUBSET S
  BY <1>1, FS_Subset
<1> QED
  BY <1>4, <1>5 DEF Solves

LEMMA SumIsSolution ==
    ASSUME NEW S, IsFiniteSet(S), NEW f
    PROVE  \E g : Solves(f, g, S) /\ SumFunctionOnSet(f, S) = g[S]
<1> DEFINE iter == CHOOSE g : g = [R \in SUBSET S |-> Unfolded(f, g, R)]
<1>1. iter = [R \in SUBSET S |-> Unfolded(f, iter, R)]
  BY SolutionExists DEF Solves
<1>2. SumFunctionOnSet(f, S) = iter[S]
  BY DEF SumFunctionOnSet, FoldFunctionOnSet, MapThenFoldSet, Unfolded, First
<1> QED
  BY <1>1, <1>2 DEF Solves

LEMMA SumOfNothing == ASSUME NEW f PROVE SumFunctionOnSet(f, {}) = 0
<1>1. PICK g : Solves(f, g, {}) /\ SumFunctionOnSet(f, {}) = g[{}]
  BY FS_EmptySet, SumIsSolution
<1>2. g[{}] = Unfolded(f, g, {})
  BY <1>1 DEF Solves
<1> QED
  BY <1>1, <1>2 DEF Unfolded

LEMMA SumTakesFirst ==
    ASSUME NEW S, IsFiniteSet(S), S # {}, NEW f
    PROVE  SumFunctionOnSet(f, S) = f[First(S)] + SumFunctionOnSet(f, S \ {First(S)})
<1>1. SUFFICES ASSUME NEW R, R = S \ {First(S)}
               PROVE  SumFunctionOnSet(f, S) = f[First(S)] + SumFunctionOnSet(f, R)
  OBVIOUS
<1>2. IsFiniteSet(R) /\ R \in SUBSET S
  BY <1>1, FS_Subset
<1>3. PICK g : Solves(f, g, S) /\ SumFunctionOnSet(f, S) = g[S]
  BY SumIsSolution
<1>4. PICK h : Solves(f, h, R) /\ SumFunctionOnSet(f, R) = h[R]
  BY <1>2, SumIsSolution
<1>5. g[R] = h[R]
  BY <1>2, <1>3, <1>4, SolutionsAgree
<1>6. g[S] = Unfolded(f, g, S)
  BY <1>3 DEF Solves
<1> QED
  BY <1>1, <1>3, <1>4, <1>5, <1>6 DEF Unfolded

\* Sums of integers are integers, and any element may be taken out first.
LEMMA SumIsInteger ==
    ASSUME NEW S, IsFiniteSet(S), NEW f, \A x \in S : f[x] \in Int
    PROVE  SumFunctionOnSet(f, S) \in Int
<1> DEFINE Typed == {R \in SUBSET S : SumFunctionOnSet(f, R) \in Int}
<1>1. ASSUME NEW R \in SUBSET S, \A x \in R : R \ {x} \in Typed PROVE R \in Typed
  <2>1. CASE R = {}
    BY <2>1, SumOfNothing
  <2>2. CASE R # {}
    <3>1. SumFunctionOnSet(f, R) = f[First(R)] + SumFunctionOnSet(f, R \ {First(R)})
      BY <2>2, FS_Subset, SumTakesFirst
    <3>2. First(R) \in R
      BY <2>2, FirstIsMember
    <3> QED
      BY <1>1, <3>1, <3>2
  <2> QED
    BY <2>1, <2>2
<1>2. SUBSET S \subseteq Typed
  <2> HIDE DEF Typed
  <2> QED
    BY <1>1, BySize
<1> QED
  BY <1>2

LEMMA SumTakesAny ==
    ASSUME NEW S, IsFiniteSet(S), NEW f, \A x \in S : f[x] \in Int, NEW e \in S
    PROVE  SumFunctionOnSet(f, S) = f[e] + SumFunctionOnSet(f, S \ {e})
<1> DEFINE Taken ==
  {R \in SUBSET S : \A x \in R : SumFunctionOnSet(f, R) = f[x] + SumFunctionOnSet(f, R \ {x})}
<1>1. \A R \in SUBSET S : IsFiniteSet(R) /\ SumFunctionOnSet(f, R) \in Int
  BY FS_Subset, SumIsInteger
<1>2. ASSUME NEW R \in SUBSET S, \A x \in R : R \ {x} \in Taken PROVE R \in Taken
  <2>1. SUFFICES ASSUME NEW x \in R PROVE SumFunctionOnSet(f, R) = f[x] + SumFunctionOnSet(f, R \ {x})
    OBVIOUS
  <2>2. PICK c \in R : SumFunctionOnSet(f, R) = f[c] + SumFunctionOnSet(f, R \ {c})
    BY <1>1, FirstIsMember, SumTakesFirst
  <2>3. CASE x = c
    BY <2>2, <2>3
  <2>4. CASE x # c
    <3>1. SUFFICES ASSUME NEW Q, Q = (R \ {c}) \ {x}
                   PROVE  SumFunctionOnSet(f, R) = f[x] + SumFunctionOnSet(f, R \ {x})
      OBVIOUS
    <3>2. Q = (R \ {x}) \ {c} /\ Q \in SUBSET S
      BY <3>1
    <3>3. SumFunctionOnSet(f, R \ {c}) = f[x] + SumFunctionOnSet(f, Q)
      BY <1>2, <2>4, <3>1
    <3>4. SumFunctionOnSet(f, R \ {x}) = f[c] + SumFunctionOnSet(f, Q)
      BY <1>2, <2>4, <3>2
    <3>5. SumFunctionOnSet(f, Q) \in Int /\ f[x] \in Int /\ f[c] \in Int
      BY <1>1, <3>2
    <3> QED
      BY <2>2, <3>3, <3>4, <3>5
  <2> QED
    BY <2>3, <2>4
<1>3. SUBSET S \subseteq Taken
  <2> HIDE DEF Taken
  <2> QED
    BY <1>2, BySize
<1> QED
  BY <1>3

LEMMA SumSame ==
    ASSUME NEW S, IsFiniteSet(S), NEW f, NEW g, \A x \in S : f[x] = g[x]
    PROVE  SumFunctionOnSet(f, S) = SumFunctionOnSet(g, S)
<1> DEFINE Same == {R \in SUBSET S : SumFunctionOnSet(f, R) = SumFunctionOnSet(g, R)}
<1>1. ASSUME NEW R \in SUBSET S, \A x \in R : R \ {x} \in Same PROVE R \in Same
  <2>1. CASE R = {}
    BY <2>1, SumOfNothing
  <2>2. CASE R # {}
    <3>1. /\ SumFunctionOnSet(f, R) = f[First(R)] + SumFunctionOnSet(f, R \ {First(R)})
          /\ SumFunctionOnSet(g, R) = g[First(R)] + SumFunctionOnSet(g, R \ {First(R)})
      BY <2>2, FS_Subset, SumTakesFirst
    <3>2. First(R) \in R
      BY <2>2, FirstIsMember
    <3> QED
      BY <1>1, <3>1, <3>2
  <2> QED
    BY <2>1, <2>2
<1>2. SUBSET S \subseteq Same
  <2> HIDE DEF Same
  <2> QED
    BY <1>1, BySize
<1> QED
  BY <1>2

LEMMA SumChangesOne ==
    ASSUME NEW S, IsFiniteSet(S), NEW f, NEW g, NEW e \in S,
           \A x \in S : f[x] \in Int /\ g[x] \in Int,
           \A x \in S \ {e} : f[x] = g[x]
    PROVE  SumFunctionOnSet(g, S) = SumFunctionOnSet(f, S) - f[e] + g[e]
<1>1. IsFiniteSet(S \ {e})
  BY FS_Subset
<1>2. SumFunctionOnSet(f, S \ {e}) = SumFunctionOnSet(g, S \ {e}) /\ SumFunctionOnSet(g, S \ {e}) \in Int
  BY <1>1, SumSame, SumIsInteger
<1>3. /\ SumFunctionOnSet(f, S) = f[e] + SumFunctionOnSet(f, S \ {e})
      /\ SumFunctionOnSet(g, S) = g[e] + SumFunctionOnSet(g, S \ {e})
  BY SumTakesAny
<1> QED
  BY <1>2, <1>3

LEMMA SumOfNaturals ==
    ASSUME NEW S, IsFiniteSet(S), NEW f, \A x \in S : f[x] \in Nat
    PROVE  SumFunctionOnSet(f, S) \in Nat /\ \A e \in S : f[e] <= SumFunctionOnSet(f, S)
<1> DEFINE Natural == {R \in SUBSET S : SumFunctionOnSet(f, R) \in Nat}
<1>1. ASSUME NEW R \in SUBSET S, \A x \in R : R \ {x} \in Natural PROVE R \in Natural
  <2>1. CASE R = {}
    BY <2>1, SumOfNothing
  <2>2. CASE R # {}
    <3>1. SumFunctionOnSet(f, R) = f[First(R)] + SumFunctionOnSet(f, R \ {First(R)})
      BY <2>2, FS_Subset, SumTakesFirst
    <3>2. First(R) \in R
      BY <2>2, FirstIsMember
    <3> QED
      BY <1>1, <3>1, <3>2
  <2> QED
    BY <2>1, <2>2
<1>2. SUBSET S \subseteq Natural
  <2> HIDE DEF Natural
  <2> QED
    BY <1>1, BySize
<1>3. ASSUME NEW e \in S PROVE f[e] <= SumFunctionOnSet(f, S)
  <2>1. SumFunctionOnSet(f, S) = f[e] + SumFunctionOnSet(f, S \ {e})
    BY SumTakesAny
  <2>2. S \ {e} \in Natural
    BY <1>2
  <2> QED
    BY <2>1, <2>2
<1> QED
  BY <1>2, <1>3

\* The sum over a part is the sum over the whole of what is zero elsewhere.
LEMMA SumOfPart ==
    ASSUME NEW S, IsFiniteSet(S), NEW R \in SUBSET S, NEW f, NEW g,
           \A x \in S : f[x] \in Int /\ g[x] = IF x \in R THEN f[x] ELSE 0
    PROVE  SumFunctionOnSet(f, R) = SumFunctionOnSet(g, S)
<1> DEFINE Same == {Q \in SUBSET S : SumFunctionOnSet(f, Q \cap R) = SumFunctionOnSet(g, Q)}
<1>1. ASSUME NEW Q \in SUBSET S, \A x \in Q : Q \ {x} \in Same PROVE Q \in Same
  <2>1. CASE Q = {}
    <3>1. Q \cap R = {}
      BY <2>1
    <3> QED
      BY <2>1, <3>1, SumOfNothing
  <2>2. CASE Q # {}
    <3>1. PICK x \in Q : TRUE
      BY <2>2
    <3>2. IsFiniteSet(Q) /\ IsFiniteSet(Q \cap R)
      BY FS_Subset
    <3>3. \A y \in Q : g[y] \in Int /\ f[y] \in Int
      OBVIOUS
    <3>4. SumFunctionOnSet(g, Q) = g[x] + SumFunctionOnSet(g, Q \ {x})
      BY <3>2, <3>3, SumTakesAny
    <3>5. SumFunctionOnSet(f, (Q \ {x}) \cap R) = SumFunctionOnSet(g, Q \ {x})
      BY <1>1
    <3>6. CASE x \in R
      <4>1. (Q \ {x}) \cap R = (Q \cap R) \ {x} /\ x \in Q \cap R
        BY <3>6
      <4>2. SumFunctionOnSet(f, Q \cap R) = f[x] + SumFunctionOnSet(f, (Q \cap R) \ {x})
        BY <3>2, <3>3, <4>1, SumTakesAny
      <4> QED
        BY <3>4, <3>5, <3>6, <4>1, <4>2
    <3>7. CASE x \notin R
      <4>1. (Q \ {x}) \cap R = Q \cap R
        BY <3>7
      <4>2. IsFiniteSet(Q \ {x}) /\ \A y \in Q \ {x} : g[y] \in Int
        BY <3>2, <3>3, FS_Subset
      <4>3. SumFunctionOnSet(g, Q \ {x}) \in Int
        BY <4>2, SumIsInteger
      <4>4. g[x] = 0
        BY <3>7
      <4>5. SumFunctionOnSet(g, Q) = SumFunctionOnSet(g, Q \ {x})
        BY <3>4, <4>3, <4>4
      <4> QED
        BY <3>5, <4>1, <4>5
    <3> QED
      BY <3>6, <3>7
  <2> QED
    BY <2>1, <2>2
<1>2. SUBSET S \subseteq Same
  <2> HIDE DEF Same
  <2> QED
    BY <1>1, BySize
<1>3. S \in Same /\ S \cap R = R
  BY <1>2
<1> QED
  BY <1>3

\* Sums are added and compared term by term.
LEMMA SumOfSums ==
    ASSUME NEW S, IsFiniteSet(S), NEW f, NEW g, NEW h,
           \A x \in S : f[x] \in Int /\ g[x] \in Int /\ h[x] = f[x] + g[x]
    PROVE  SumFunctionOnSet(h, S) = SumFunctionOnSet(f, S) + SumFunctionOnSet(g, S)
<1> DEFINE Adds(R) == SumFunctionOnSet(h, R) = SumFunctionOnSet(f, R) + SumFunctionOnSet(g, R)
           Adding == {R \in SUBSET S : Adds(R)}
<1>1. ASSUME NEW R \in SUBSET S, \A x \in R : R \ {x} \in Adding PROVE R \in Adding
  <2>1. CASE R = {}
    BY <2>1, SumOfNothing
  <2>2. CASE R # {}
    <3> DEFINE x == First(R)
               Q == R \ {x}
    <3>1. x \in R /\ x \in S /\ IsFiniteSet(R) /\ IsFiniteSet(Q)
      BY <2>2, FS_Subset, FirstIsMember
    <3>2. /\ SumFunctionOnSet(f, R) = f[x] + SumFunctionOnSet(f, Q)
          /\ SumFunctionOnSet(g, R) = g[x] + SumFunctionOnSet(g, Q)
          /\ SumFunctionOnSet(h, R) = h[x] + SumFunctionOnSet(h, Q)
      BY <2>2, <3>1, SumTakesFirst
    <3>3. SumFunctionOnSet(f, Q) \in Int /\ SumFunctionOnSet(g, Q) \in Int
      BY <3>1, SumIsInteger
    <3>4. SumFunctionOnSet(h, Q) = SumFunctionOnSet(f, Q) + SumFunctionOnSet(g, Q)
      BY <1>1, <3>1
    <3>5. f[x] \in Int /\ g[x] \in Int /\ h[x] = f[x] + g[x]
      BY <3>1
    <3> HIDE DEF x, Q
    <3>6. Adds(R)
      BY <3>2, <3>3, <3>4, <3>5
    <3> QED
      BY <3>6
  <2> QED
    BY <2>1, <2>2
<1>2. SUBSET S \subseteq Adding
  <2> HIDE DEF Adding
  <2> QED
    BY <1>1, BySize
<1> QED
  BY <1>2

LEMMA SumGrows ==
    ASSUME NEW S, IsFiniteSet(S), NEW f, NEW g,
           \A x \in S : f[x] \in Int /\ g[x] \in Int /\ f[x] <= g[x]
    PROVE  SumFunctionOnSet(f, S) <= SumFunctionOnSet(g, S)
<1> DEFINE d == [x \in S |-> g[x] - f[x]]
<1>1. \A x \in S : d[x] \in Nat /\ g[x] = f[x] + d[x]
  OBVIOUS
<1> HIDE DEF d
<1>2. SumFunctionOnSet(g, S) = SumFunctionOnSet(f, S) + SumFunctionOnSet(d, S)
  BY <1>1, SumOfSums
<1>3. SumFunctionOnSet(d, S) \in Nat /\ SumFunctionOnSet(f, S) \in Int
  BY <1>1, SumOfNaturals, SumIsInteger
<1> QED
  BY <1>2, <1>3
-----------------------------------------------------------------------------
(* Positions is a function defined by recursion: it exists, and one more order *)
(* adds one step to it.                                                        *)

\* The position after the k-th order, given those before.
Counted(s, p, k) ==
    IF k = 0 THEN NoPosition ELSE IF Filled(s[k]) THEN AddOrder(p[k - 1], s[k]) ELSE p[k - 1]

Counts(s, p, n) == p = [k \in 0 .. n |-> Counted(s, p, k)]

LEMMA CountExists == ASSUME NEW s, NEW n \in Nat PROVE \E p : Counts(s, p, n)
<1> DEFINE Solved == {m \in Nat : \E p : Counts(s, p, m)}
<1>1. 0 \in Solved
  <2>1. Counts(s, [k \in 0 .. 0 |-> NoPosition], 0)
    BY DEF Counts, Counted
  <2> QED
    BY <2>1
<1>2. ASSUME NEW m \in Nat, m \in Solved PROVE m + 1 \in Solved
  <2>1. PICK p : Counts(s, p, m)
    BY <1>2
  <2> DEFINE q == [k \in 0 .. m + 1 |-> Counted(s, p, k)]
  <2>2. \A k \in 0 .. m : q[k] = p[k]
    BY <2>1 DEF Counts
  <2>3. \A k \in 0 .. m + 1 : k = 0 \/ k - 1 \in 0 .. m
    OBVIOUS
  <2>4. \A k \in 0 .. m + 1 : Counted(s, p, k) = Counted(s, q, k)
    <3> HIDE DEF q
    <3> QED
      BY <2>2, <2>3 DEF Counted
  <2>5. Counts(s, q, m + 1)
    BY <2>4 DEF Counts
  <2> HIDE DEF q
  <2> QED
    BY <2>5
<1>3. Nat \subseteq Solved
  <2> HIDE DEF Solved
  <2> QED
    BY <1>1, <1>2, CountingUp
<1> QED
  BY <1>3

LEMMA PositionsCount ==
    ASSUME NEW s, Len(s) \in Nat
    PROVE  Counts(s, Positions(s), Len(s))
<1> DEFINE c == CHOOSE p : p = [k \in 0 .. Len(s) |-> Counted(s, p, k)]
<1>1. c = [k \in 0 .. Len(s) |-> Counted(s, c, k)]
  BY CountExists DEF Counts
<1>2. Positions(s) = c
  BY DEF Positions, Counted
<1> QED
  BY <1>1, <1>2 DEF Counts

\* Orders that agree up to m amount to the same up to m.
LEMMA CountsAgree ==
    ASSUME NEW s, NEW t, NEW p, NEW q, NEW a \in Nat, NEW b \in Nat, NEW m \in Nat, m <= a, m <= b,
           Counts(s, p, a), Counts(t, q, b), \A k \in 1 .. m : s[k] = t[k]
    PROVE  p[m] = q[m]
<1> DEFINE Agreed == {k \in Nat : k <= m => p[k] = q[k]}
<1>1. \A k \in 0 .. a : p[k] = Counted(s, p, k)
  BY DEF Counts
<1>2. \A k \in 0 .. b : q[k] = Counted(t, q, k)
  BY DEF Counts
<1>3. 0 \in Agreed
  BY <1>1, <1>2 DEF Counted
<1>4. ASSUME NEW k \in Nat, k \in Agreed PROVE k + 1 \in Agreed
  <2>1. SUFFICES ASSUME k + 1 <= m PROVE p[k + 1] = q[k + 1]
    OBVIOUS
  <2>2. p[k] = q[k] /\ s[k + 1] = t[k + 1]
    BY <1>4, <2>1
  <2>3. k + 1 \in 0 .. a /\ k + 1 \in 0 .. b /\ k + 1 # 0 /\ (k + 1) - 1 = k
    BY <2>1
  <2>4. p[k + 1] = Counted(s, p, k + 1) /\ q[k + 1] = Counted(t, q, k + 1)
    BY <1>1, <1>2, <2>3
  <2> QED
    BY <2>2, <2>3, <2>4 DEF Counted
<1>5. Nat \subseteq Agreed
  <2> HIDE DEF Agreed
  <2> QED
    BY <1>3, <1>4, CountingUp
<1> QED
  BY <1>5

\* The position with one more order.
Plus(p, o) == IF Filled(o) THEN AddOrder(p, o) ELSE p

\* The orders t are those of s with o as the last one: a new one, or one that s has unfilled.
OneMore(s, t, o) ==
    /\ Len(s) \in Nat /\ Len(t) \in Nat \ {0} /\ t[Len(t)] = o
    /\ DOMAIN s = 1 .. Len(s) /\ DOMAIN t = 1 .. Len(t)
    /\ \A k \in 1 .. Len(t) - 1 : s[k] = t[k]
    /\ \/ Len(s) = Len(t) - 1
       \/ Len(s) = Len(t) /\ ~Filled(s[Len(s)])

LEMMA PositionOfMore ==
    ASSUME NEW s, NEW t, NEW o, OneMore(s, t, o)
    PROVE  Position(t) = Plus(Position(s), o)
<1> DEFINE n == Len(t)
           p == Positions(s)
           q == Positions(t)
<1>a. /\ Len(s) \in Nat /\ n \in Nat \ {0} /\ t[n] = o
      /\ \A k \in 1 .. n - 1 : s[k] = t[k]
      /\ Len(s) = n - 1 \/ Len(s) = n
  BY Zenon DEF OneMore
<1>2. Counts(s, p, Len(s)) /\ Counts(t, q, n)
  BY <1>a, PositionsCount
<1> HIDE DEF p, q, n
<1>1. n - 1 \in Nat /\ n - 1 <= Len(s) /\ n - 1 <= n
  BY <1>a
<1>3. p[n - 1] = q[n - 1]
  BY <1>a, <1>1, <1>2, CountsAgree
<1>4. q[n] = Plus(q[n - 1], o)
  BY <1>a, <1>2 DEF Counts, Counted, Plus
<1>5. p[Len(s)] = p[n - 1]
  <2>1. CASE Len(s) = n - 1
    BY <2>1
  <2>2. CASE Len(s) = n /\ ~Filled(s[Len(s)])
    BY <1>a, <1>2, <2>2 DEF Counts, Counted
  <2> QED
    BY <2>1, <2>2 DEF OneMore, n
<1> QED
  BY <1>3, <1>4, <1>5 DEF Position, p, q, n

LEMMA PositionOfNothing == Position(<<>>) = NoPosition
<1>1. Len(<<>>) = 0
  OBVIOUS
<1>2. Counts(<<>>, Positions(<<>>), 0)
  BY <1>1, PositionsCount
<1> QED
  BY <1>1, <1>2 DEF Position, Counts, Counted

-----------------------------------------------------------------------------
(* What the orders of a trade amount to, and the money and lots that they move. *)

\* Taking out one element, and summing the rest with another function.
LEMMA SumOfMore ==
    ASSUME NEW K, IsFiniteSet(K), NEW f, NEW g, NEW n,
           \A k \in K : g[k] \in Int, \A k \in K \ {n} : f[k] = g[k]
    PROVE  /\ SumFunctionOnSet(f, K \ {n}) \in Int
           /\ n \in K => SumFunctionOnSet(g, K) = SumFunctionOnSet(f, K \ {n}) + g[n]
<1>1. IsFiniteSet(K \ {n})
  BY FS_Subset
<1>2. /\ SumFunctionOnSet(f, K \ {n}) = SumFunctionOnSet(g, K \ {n})
      /\ SumFunctionOnSet(g, K \ {n}) \in Int
  BY <1>1, SumSame, SumIsInteger
<1>3. n \in K => SumFunctionOnSet(g, K) = g[n] + SumFunctionOnSet(g, K \ {n})
  BY SumTakesAny
<1> QED
  BY <1>2, <1>3

\* What an order costs, or brings in.
Cost(o) == o.price * Unit * o.lots

Flows(s) == [k \in DOMAIN s |-> (IF s[k].entry THEN -1 ELSE 1) * Cost(s[k])]
Lotted(s) == [k \in DOMAIN s |-> s[k].lots]
FilledAt(s) == {k \in DOMAIN s : Filled(s[k])}
BoughtAt(s) == {k \in DOMAIN s : Filled(s[k]) /\ s[k].entry}

LEMMA OrderFacts ==
    ASSUME NEW o \in OrderType
    PROVE  /\ o.lots \in Int /\ o.entry \in BOOLEAN /\ o.price \in Nat \ {0} /\ o.price \in Prices
           /\ o.price * Unit \in Nat \ {0} /\ Cost(o) \in Int
           /\ Filled(o) => o.lots \in Nat \ {0}
<1>1. o.lots \in Int /\ o.entry \in BOOLEAN /\ o.price \in Nat \ {0} /\ o.price \in Prices
  BY WalletsAssumption DEF OrderType
<1>2. Unit \in Nat \ {0}
  BY WalletsAssumption
<1>3. o.price * Unit \in Nat \ {0}
  BY <1>1, <1>2, SMT
<1>4. Cost(o) \in Int
  BY <1>1, <1>3, SMT DEF Cost
<1>5. Filled(o) => o.lots \in Nat \ {0}
  BY <1>1 DEF Filled
<1> QED
  BY <1>1, <1>3, <1>4, <1>5

\* What an order moves when it is filled.
Moves(o) == IF ~Filled(o) THEN 0 ELSE IF o.entry THEN -Cost(o) ELSE Cost(o)
Buys(o) == IF Filled(o) /\ o.entry THEN o.lots ELSE 0

Typed(s) == \A k \in DOMAIN s : s[k] \in OrderType

\* One more order adds to the sums what it moves.
LEMMA SumsOfMore ==
    ASSUME NEW t, NEW u, NEW o, OneMore(t.orders, u.orders, o), Typed(t.orders), Typed(u.orders)
    PROVE  /\ CashFlow(u) = CashFlow(t) + Moves(o)
           /\ Bought(u) = Bought(t) + Buys(o)
           /\ HasFilled(u) <=> HasFilled(t) \/ Filled(o)
<1>s. SUFFICES ASSUME NEW s, s = t.orders, NEW r, r = u.orders,
                      NEW m, m = Len(s), NEW n, n = Len(r)
               PROVE  /\ CashFlow(u) = CashFlow(t) + Moves(o)
                      /\ Bought(u) = Bought(t) + Buys(o)
                      /\ HasFilled(u) <=> HasFilled(t) \/ Filled(o)
  OBVIOUS
<1>a. /\ m \in Nat /\ n \in Nat \ {0} /\ r[n] = o
      /\ DOMAIN s = 1 .. m /\ DOMAIN r = 1 .. n
      /\ \A k \in 1 .. n - 1 : s[k] = r[k]
      /\ m = n - 1 \/ (m = n /\ ~Filled(s[n]))
  BY <1>s, Zenon DEF OneMore
<1>b. Typed(s) /\ Typed(r)
  BY <1>s
<1>c. /\ CashFlow(t) = SumFunctionOnSet(Flows(s), FilledAt(s))
      /\ CashFlow(u) = SumFunctionOnSet(Flows(r), FilledAt(r))
      /\ Bought(t) = SumFunctionOnSet(Lotted(s), BoughtAt(s))
      /\ Bought(u) = SumFunctionOnSet(Lotted(r), BoughtAt(r))
      /\ HasFilled(t) <=> FilledAt(s) # {}
      /\ HasFilled(u) <=> FilledAt(r) # {}
  BY <1>s DEF CashFlow, Bought, Flows, FilledAt, Lotted, BoughtAt, Cost, HasFilled
<1>1. o \in OrderType
  BY <1>a, <1>b DEF Typed
<1>2. \A k \in DOMAIN r : r[k] \in OrderType /\ Flows(r)[k] \in Int /\ Lotted(r)[k] \in Int
  <2>1. SUFFICES ASSUME NEW k \in DOMAIN r
                 PROVE  r[k] \in OrderType /\ Flows(r)[k] \in Int /\ Lotted(r)[k] \in Int
    OBVIOUS
  <2>2. r[k] \in OrderType
    BY <1>b DEF Typed
  <2>3. Cost(r[k]) \in Int /\ r[k].lots \in Int
    BY <2>2, OrderFacts
  <2> QED
    BY <2>2, <2>3 DEF Flows, Lotted
<1>f. IsFiniteSet(1 .. n)
  <2>1. n \in Int
    BY <1>a
  <2> QED
    BY <2>1, FS_Interval
<1>3. \A k \in 1 .. n - 1 : /\ k \in DOMAIN s /\ k \in DOMAIN r /\ s[k] = r[k]
                            /\ Flows(s)[k] = Flows(r)[k] /\ Lotted(s)[k] = Lotted(r)[k]
  BY <1>a DEF Flows, Lotted
<1>4. \A k \in DOMAIN s : Filled(s[k]) => k \in 1 .. n - 1
  BY <1>a
<1>5. /\ FilledAt(s) \subseteq 1 .. n - 1 /\ FilledAt(r) \subseteq 1 .. n
      /\ FilledAt(r) \ {n} = FilledAt(s) /\ (n \in FilledAt(r) <=> Filled(o))
  BY <1>a, <1>3, <1>4 DEF FilledAt
<1>6. /\ BoughtAt(s) \subseteq 1 .. n - 1 /\ BoughtAt(r) \subseteq 1 .. n
      /\ BoughtAt(r) \ {n} = BoughtAt(s) /\ (n \in BoughtAt(r) <=> Filled(o) /\ o.entry)
  BY <1>a, <1>3, <1>4 DEF BoughtAt
<1>7. CashFlow(u) = CashFlow(t) + Moves(o)
  <2>a. /\ \A k \in FilledAt(r) : Flows(r)[k] \in Int
        /\ \A k \in FilledAt(r) \ {n} : Flows(s)[k] = Flows(r)[k]
        /\ IsFiniteSet(FilledAt(r))
    <3>1. \A k \in FilledAt(r) : Flows(r)[k] \in Int
      BY <1>2 DEF FilledAt
    <3>2. \A k \in FilledAt(r) \ {n} : Flows(s)[k] = Flows(r)[k]
      BY <1>3, <1>5
    <3> QED
      BY <1>f, <1>5, <3>1, <3>2, FS_Subset
  <2>b. SumFunctionOnSet(Flows(s), FilledAt(s)) \in Int
    BY <1>5, <2>a, SumOfMore
  <2>c. n \in FilledAt(r) => SumFunctionOnSet(Flows(r), FilledAt(r))
                             = SumFunctionOnSet(Flows(s), FilledAt(s)) + Flows(r)[n]
    BY <1>5, <2>a, SumOfMore
  <2>d. n \notin FilledAt(r) => SumFunctionOnSet(Flows(r), FilledAt(r)) = SumFunctionOnSet(Flows(s), FilledAt(s))
    <3>1. n \notin FilledAt(r) => FilledAt(r) = FilledAt(s)
      BY <1>5
    <3>2. n \notin FilledAt(r) => \A k \in FilledAt(r) : Flows(r)[k] = Flows(s)[k]
      BY <2>a
    <3> QED
      BY <2>a, <3>1, <3>2, SumSame
  <2>2. Flows(r)[n] = IF o.entry THEN -Cost(o) ELSE Cost(o)
    <3>1. Flows(r)[n] = (IF o.entry THEN -1 ELSE 1) * Cost(o)
      BY <1>a DEF Flows
    <3>2. Cost(o) \in Int
      BY <1>1, OrderFacts
    <3> QED
      BY <3>1, <3>2
  <2> QED
    BY <1>c, <1>5, <2>b, <2>c, <2>d, <2>2 DEF Moves
<1>8. Bought(u) = Bought(t) + Buys(o)
  <2>a. /\ \A k \in BoughtAt(r) : Lotted(r)[k] \in Int
        /\ \A k \in BoughtAt(r) \ {n} : Lotted(s)[k] = Lotted(r)[k]
        /\ IsFiniteSet(BoughtAt(r))
    <3>1. \A k \in BoughtAt(r) : Lotted(r)[k] \in Int
      BY <1>2 DEF BoughtAt
    <3>2. \A k \in BoughtAt(r) \ {n} : Lotted(s)[k] = Lotted(r)[k]
      BY <1>3, <1>6
    <3> QED
      BY <1>f, <1>6, <3>1, <3>2, FS_Subset
  <2>b. SumFunctionOnSet(Lotted(s), BoughtAt(s)) \in Int
    BY <1>6, <2>a, SumOfMore
  <2>c. n \in BoughtAt(r) => SumFunctionOnSet(Lotted(r), BoughtAt(r))
                             = SumFunctionOnSet(Lotted(s), BoughtAt(s)) + Lotted(r)[n]
    BY <1>6, <2>a, SumOfMore
  <2>d. n \notin BoughtAt(r) => SumFunctionOnSet(Lotted(r), BoughtAt(r)) = SumFunctionOnSet(Lotted(s), BoughtAt(s))
    <3>1. n \notin BoughtAt(r) => BoughtAt(r) = BoughtAt(s)
      BY <1>6
    <3>2. n \notin BoughtAt(r) => \A k \in BoughtAt(r) : Lotted(r)[k] = Lotted(s)[k]
      BY <2>a
    <3> QED
      BY <2>a, <3>1, <3>2, SumSame
  <2>2. Lotted(r)[n] = o.lots
    BY <1>a DEF Lotted
  <2> QED
    BY <1>c, <1>6, <2>b, <2>c, <2>d, <2>2 DEF Buys
<1>9. HasFilled(u) <=> HasFilled(t) \/ Filled(o)
  BY <1>a, <1>c, <1>5
<1> QED
  BY <1>7, <1>8, <1>9

PositionType == [amount : Nat, cost : Int, avg : Nat, profit : Int]

\* What the rounding of the average price left of the cost.
Residue(p) == p.cost - p.avg * p.amount

\* A position, the lots bought for it and the money it brought fit together.
Sound(p, b, c) ==
    /\ p \in PositionType /\ b \in Nat /\ p.amount <= b
    /\ 0 <= Residue(p) /\ (b > 0 => Residue(p) < b) /\ (b = 0 => p = NoPosition)
    /\ c = p.profit - p.cost

\* An entry averages the price anew: less than the amount is left of the cost.
LEMMA EntryAddsUp ==
    ASSUME NEW p, NEW b, NEW c, Sound(p, b, c), NEW o \in OrderType, Filled(o), o.entry
    PROVE  Sound(AddOrder(p, o), b + o.lots, c - Cost(o)) /\ AddOrder(p, o).amount = p.amount + o.lots
<1> DEFINE x == o.price * Unit
           l == o.lots
           d == p.amount + l
           y == p.cost + x * l
           a == y \div d
           q == AddOrder(p, o)
<1>1. x \in Nat \ {0} /\ l \in Nat \ {0} /\ Cost(o) = x * l
  BY OrderFacts DEF Cost
<1>2. p.amount \in Nat /\ p.cost \in Int /\ p.avg \in Nat /\ p.profit \in Int /\ b \in Nat /\ p.amount <= b
  BY DEF Sound, PositionType
<1>3. q = [amount |-> d, cost |-> y, avg |-> a, profit |-> p.profit]
  BY DEF AddOrder, Sound, PositionType
<1>4. p.avg * p.amount \in Nat /\ x * l \in Nat
  BY <1>1, <1>2, SMT
<1>5. p.cost >= 0
  BY <1>2, <1>4 DEF Sound, Residue
<1>6. d \in Nat \ {0} /\ y \in Nat /\ d <= b + l
  BY <1>1, <1>2, <1>4, <1>5
<1>7. a \in Int /\ d * a <= y /\ y < d * a + d
  <2> HIDE DEF d, y
  <2> QED
    BY <1>6, DivType, DivFact
<1>8. a \in Nat
  <2>1. (d * 0) \div d <= y \div d
    BY <1>6, DivMono
  <2>2. (d * 0) \div d = 0
    BY <1>6, DivMultiple
  <2> QED
    BY <1>7, <2>1, <2>2
<1> HIDE DEF x, l, d, y, a
<1>9. a * d = d * a /\ a * d \in Int
  BY <1>6, <1>8, SMT
<1>10. q \in PositionType /\ q.amount = d /\ Residue(q) = y - a * d
  BY <1>2, <1>3, <1>6, <1>8 DEF PositionType, Residue
<1>11. c - Cost(o) = q.profit - q.cost
  BY <1>1, <1>2, <1>3, <1>4 DEF Sound, y
<1>12. 0 <= y - a * d /\ y - a * d < d
  BY <1>6, <1>7, <1>9
<1>13. b + l \in Nat /\ b + l > 0 /\ d <= b + l
  BY <1>1, <1>2, <1>6
<1>14. Sound(q, b + l, c - Cost(o))
  <2> HIDE DEF q
  <2> QED
    BY <1>6, <1>9, <1>10, <1>11, <1>12, <1>13 DEF Sound
<1> QED
  BY <1>10, <1>14 DEF d, l

\* An exit takes its share of the cost at the average price.
LEMMA ExitAddsUp ==
    ASSUME NEW p, NEW b, NEW c, Sound(p, b, c), NEW o \in OrderType, Filled(o), ~o.entry,
           o.lots <= p.amount
    PROVE  Sound(AddOrder(p, o), b, c + Cost(o)) /\ AddOrder(p, o).amount = p.amount - o.lots
<1> DEFINE x == o.price * Unit
           l == o.lots
           q == AddOrder(p, o)
<1>1. x \in Nat \ {0} /\ l \in Nat \ {0} /\ Cost(o) = x * l
  BY OrderFacts DEF Cost
<1>2. /\ p.amount \in Nat /\ p.cost \in Int /\ p.avg \in Nat /\ p.profit \in Int /\ b \in Nat
      /\ p.amount <= b /\ l <= p.amount
  BY DEF Sound, PositionType
<1>3. q = [amount |-> p.amount - l, cost |-> p.cost - p.avg * l, avg |-> p.avg,
           profit |-> p.profit + (x - p.avg) * l]
  BY DEF AddOrder, Sound, PositionType
<1> HIDE DEF x, l
<1>4. /\ (x - p.avg) * l = x * l - p.avg * l /\ p.avg * (p.amount - l) = p.avg * p.amount - p.avg * l
      /\ x * l \in Int /\ p.avg * l \in Int /\ p.avg * p.amount \in Int
  BY <1>1, <1>2, SMT
<1>5. q \in PositionType /\ q.amount = p.amount - l /\ Residue(q) = Residue(p)
  BY <1>1, <1>2, <1>3, <1>4 DEF PositionType, Residue
<1>6. c + Cost(o) = q.profit - q.cost
  BY <1>1, <1>2, <1>3, <1>4 DEF Sound
<1>7. b > 0 /\ q.amount <= b
  BY <1>1, <1>2, <1>5
<1>8. Sound(q, b, c + Cost(o))
  <2> HIDE DEF q
  <2> QED
    BY <1>5, <1>6, <1>7 DEF Sound
<1> QED
  BY <1>5, <1>8 DEF l

-----------------------------------------------------------------------------
(* The inductive invariant of one trade.                                       *)

TradeRow ==
    [st : {"none", "open", "closed"}, stake : Int, amount : Nat, realized : Int, profit : Int,
     orders : Seq(OrderType)]

\* The orders: at most the last one is open, and an open exit has its amount.
Ordered(t) ==
    /\ t \in TradeRow /\ Len(t.orders) <= MaxOrders
    /\ \A k \in DOMAIN t.orders :
         /\ t.orders[k].st = "open" => k = Len(t.orders)
         /\ t.orders[k].st = "open" /\ ~t.orders[k].entry
              => HasFilled(t) /\ t.orders[k].lots \in 1 .. t.amount
         /\ MinCost # Unset => t.orders[k].lots > 0

\* What they amount to.
Figured(t) ==
    /\ Sound(Position(t.orders), Bought(t), CashFlow(t))
    /\ Bought(t) > 0 <=> HasFilled(t)

\* The row of a trade with a fill says what its orders amount to; the profit may be an old
\* one where it came back to zero.
Current(t) ==
    /\ t.amount > 0 /\ t.amount = Position(t.orders).amount /\ t.stake = Position(t.orders).cost
    /\ t.realized = Position(t.orders).profit \/ Position(t.orders).profit = 0

Waiting(t) == t.realized = 0 /\ t.amount = 0 /\ (MinCost # Unset => t.stake > 0)

Settled(t) ==
    /\ HasFilled(t) /\ ~HasOpenOrder(t)
    /\ t.profit = Position(t.orders).profit /\ Position(t.orders).amount = 0

Row(t) ==
    /\ Ordered(t) /\ Figured(t)
    /\ t.st = "none" => t = NoTrade
    /\ t.st = "open" => IF HasFilled(t) THEN Current(t) ELSE Waiting(t)
    /\ t.st = "closed" => Settled(t)

\* A trade without orders amounts to nothing.
LEMMA WithoutOrders ==
    ASSUME NEW t, t.orders = <<>>
    PROVE  /\ Figured(t) /\ ~HasFilled(t) /\ ~HasOpenOrder(t)
           /\ Position(t.orders) = NoPosition /\ CashFlow(t) = 0 /\ Bought(t) = 0
<1>1. DOMAIN t.orders = {}
  OBVIOUS
<1>2. ~HasFilled(t) /\ ~HasOpenOrder(t)
  BY <1>1 DEF HasFilled, HasOpenOrder
<1>3. CashFlow(t) = 0
  <2> DEFINE f == [k \in DOMAIN t.orders |->
                     (IF t.orders[k].entry THEN -1 ELSE 1)
                       * (t.orders[k].price * Unit * t.orders[k].lots)]
  <2>1. CashFlow(t) = SumFunctionOnSet(f, {})
    <3>1. {k \in DOMAIN t.orders : Filled(t.orders[k])} = {}
      BY <1>1
    <3> QED
      BY <3>1, Zenon DEF CashFlow
  <2> HIDE DEF f
  <2> QED
    BY <2>1, SumOfNothing
<1>4. Bought(t) = 0
  <2> DEFINE f == [k \in DOMAIN t.orders |-> t.orders[k].lots]
  <2>1. Bought(t) = SumFunctionOnSet(f, {})
    <3>1. {k \in DOMAIN t.orders : Filled(t.orders[k]) /\ t.orders[k].entry} = {}
      BY <1>1
    <3> QED
      BY <3>1, Zenon DEF Bought
  <2> HIDE DEF f
  <2> QED
    BY <2>1, SumOfNothing
<1>5. Position(t.orders) = NoPosition
  BY PositionOfNothing
<1>6. Sound(NoPosition, 0, 0)
  BY DEF Sound, NoPosition, PositionType, Residue
<1> QED
  BY <1>2, <1>3, <1>4, <1>5, <1>6 DEF Figured

LEMMA RowOfNoTrade == Row(NoTrade)
<1>1. NoTrade.orders = <<>> /\ NoTrade.st = "none" /\ NoTrade \in TradeRow
  BY DEF NoTrade, TradeRow
<1>2. Figured(NoTrade)
  BY <1>1, WithoutOrders
<1>3. Ordered(NoTrade)
  BY <1>1, WalletsAssumption DEF Ordered
<1> QED
  BY <1>1, <1>2, <1>3 DEF Row

\* A trade that execute_entry opens is a row that waits for its first fill.
LEMMA RowOfOpened ==
    ASSUME NEW stake \in Int, MinCost # Unset => stake > 0
    PROVE  /\ Row(Opened(stake)) /\ Opened(stake).st = "open" /\ Opened(stake).stake = stake
           /\ Opened(stake).orders = <<>> /\ Opened(stake).profit = 0 /\ Opened(stake).realized = 0
<1> DEFINE t == Opened(stake)
<1>1. /\ t.orders = <<>> /\ t.st = "open" /\ t.stake = stake /\ t.realized = 0 /\ t.amount = 0
      /\ t.profit = 0 /\ t \in TradeRow
  <2>1. t = [st |-> "open", stake |-> stake, amount |-> 0, realized |-> 0, profit |-> 0,
             orders |-> <<>>]
    <3>1. t = [NoTrade EXCEPT !.st = "open", !.stake = stake]
      BY DEF Opened
    <3> HIDE DEF t
    <3> QED
      BY <3>1 DEF NoTrade
  <2> HIDE DEF t
  <2> QED
    BY <2>1 DEF TradeRow
<1> HIDE DEF t
<1>2. Figured(t) /\ ~HasFilled(t)
  BY <1>1, WithoutOrders
<1>3. Ordered(t)
  BY <1>1, WalletsAssumption DEF Ordered
<1>4. Row(t)
  BY <1>1, <1>2, <1>3 DEF Row, Waiting
<1> QED
  BY <1>1, <1>4 DEF t

\* The orders of a row, as the lemmas about one more order want them.
LEMMA RowTyped ==
    ASSUME NEW t, Row(t)
    PROVE  /\ t \in TradeRow /\ t.orders \in Seq(OrderType) /\ Len(t.orders) \in Nat
           /\ DOMAIN t.orders = 1 .. Len(t.orders) /\ Typed(t.orders)
           /\ t.stake \in Int /\ t.amount \in Nat /\ t.realized \in Int /\ t.profit \in Int
           /\ Position(t.orders) \in PositionType /\ Bought(t) \in Nat /\ CashFlow(t) \in Int
<1>1. t \in TradeRow
  BY DEF Row, Ordered
<1>2. t.orders \in Seq(OrderType) /\ Len(t.orders) \in Nat /\ DOMAIN t.orders = 1 .. Len(t.orders)
  BY <1>1 DEF TradeRow
<1>3. Typed(t.orders)
  BY <1>2 DEF Typed
<1>4. Sound(Position(t.orders), Bought(t), CashFlow(t))
  BY DEF Row, Figured
<1>5. Position(t.orders) \in PositionType /\ Bought(t) \in Nat /\ CashFlow(t) \in Int
  <2>1. \A p, b, c : Sound(p, b, c) => p \in PositionType /\ b \in Nat /\ c \in Int
    BY DEF Sound, PositionType
  <2> QED
    BY <1>4, <2>1
<1> QED
  BY <1>1, <1>2, <1>3, <1>5 DEF TradeRow

\* One more order that is not filled leaves the figures alone; one that is filled adds to them.
LEMMA FiguresOfMore ==
    ASSUME NEW t, Row(t), t.st = "open", NEW u, NEW o \in OrderType, Typed(u.orders),
           OneMore(t.orders, u.orders, o),
           Filled(o) /\ ~o.entry => HasFilled(t) /\ o.lots <= t.amount
    PROVE  /\ Figured(u) /\ Position(u.orders) = Plus(Position(t.orders), o)
           /\ HasFilled(u) <=> HasFilled(t) \/ Filled(o)
           /\ Position(u.orders).amount = Position(t.orders).amount
                + IF ~Filled(o) THEN 0 ELSE IF o.entry THEN o.lots ELSE -o.lots
<1> DEFINE p == Position(t.orders)
           q == Position(u.orders)
           b == Bought(t)
           c == CashFlow(t)
<1>1. Typed(t.orders) /\ p \in PositionType /\ b \in Nat /\ c \in Int
  BY RowTyped
<1>2. /\ CashFlow(u) = c + Moves(o) /\ Bought(u) = b + Buys(o)
      /\ HasFilled(u) <=> HasFilled(t) \/ Filled(o)
  BY <1>1, SumsOfMore
<1>3. q = Plus(p, o)
  BY PositionOfMore
<1>4. Sound(p, b, c) /\ (b > 0 <=> HasFilled(t)) /\ (HasFilled(t) => t.amount = p.amount)
  BY DEF Row, Figured, Current
<1>5. p.amount \in Nat /\ Cost(o) \in Int /\ (Filled(o) => o.lots \in Nat \ {0})
  BY <1>1, OrderFacts DEF PositionType
<1> HIDE DEF p, q, b, c
<1>6. CASE ~Filled(o)
  <2>1. q = p /\ CashFlow(u) = c /\ Bought(u) = b
    BY <1>1, <1>2, <1>3, <1>6 DEF Plus, Moves, Buys
  <2>2. q.amount = p.amount + 0
    BY <1>5, <2>1
  <2> QED
    BY <1>2, <1>3, <1>4, <1>6, <2>1, <2>2 DEF Figured, p, q
<1>7. CASE Filled(o) /\ o.entry
  <2>1. q = AddOrder(p, o) /\ CashFlow(u) = c - Cost(o) /\ Bought(u) = b + o.lots
    BY <1>1, <1>2, <1>3, <1>5, <1>7 DEF Plus, Moves, Buys
  <2>2. Sound(q, Bought(u), CashFlow(u)) /\ q.amount = p.amount + o.lots
    BY <1>4, <1>7, <2>1, EntryAddsUp
  <2>3. Bought(u) > 0
    BY <1>1, <1>5, <1>7, <2>1
  <2> QED
    BY <1>2, <1>3, <1>7, <2>2, <2>3 DEF Figured, p, q
<1>8. CASE Filled(o) /\ ~o.entry
  <2>1. q = AddOrder(p, o) /\ CashFlow(u) = c + Cost(o) /\ Bought(u) = b
    BY <1>1, <1>2, <1>3, <1>5, <1>8 DEF Plus, Moves, Buys
  <2>2. Sound(q, b, CashFlow(u)) /\ q.amount = p.amount - o.lots
    BY <1>4, <1>8, <2>1, ExitAddsUp
  <2>3. q.amount = p.amount + (-o.lots)
    BY <1>5, <1>8, <2>2
  <2> QED
    BY <1>2, <1>3, <1>4, <1>8, <2>1, <2>2, <2>3 DEF Figured, p, q
<1> QED
  BY <1>6, <1>7, <1>8

-----------------------------------------------------------------------------
(* A new order, and the end of an open one.                                    *)

\* v is t with o as its last order, which may be placed or be booked.
More(t, v, o) ==
    /\ o \in OrderType /\ OneMore(t.orders, v.orders, o)
    /\ v = [t EXCEPT !.orders = v.orders]
    /\ v.orders \in Seq(OrderType) /\ Len(v.orders) <= MaxOrders
    /\ Len(v.orders) = Len(t.orders) \/ ~HasOpenOrder(t)
    /\ MinCost # Unset => o.lots > 0
    /\ ~o.entry => HasFilled(t) /\ o.lots \in 1 .. t.amount

LEMMA AppendedIsMore ==
    ASSUME NEW s \in Seq(OrderType), NEW o \in OrderType
    PROVE  /\ OneMore(s, Append(s, o), o) /\ Append(s, o) \in Seq(OrderType)
           /\ Len(Append(s, o)) = Len(s) + 1
<1> DEFINE r == Append(s, o)
<1>1. /\ r \in Seq(OrderType) /\ Len(r) = Len(s) + 1 /\ Len(s) \in Nat
      /\ \A k \in 1 .. Len(s) : r[k] = s[k]
      /\ r[Len(s) + 1] = o /\ DOMAIN s = 1 .. Len(s) /\ DOMAIN r = 1 .. Len(s) + 1
  BY AppendProperties
<1> HIDE DEF r
<1>2. Len(r) \in Nat \ {0} /\ Len(r) - 1 = Len(s)
  BY <1>1
<1>3. \A k \in 1 .. Len(r) - 1 : s[k] = r[k]
  BY <1>1, <1>2
<1>4. OneMore(s, r, o)
  BY <1>1, <1>2, <1>3 DEF OneMore
<1> QED
  BY <1>1, <1>4 DEF r

\* The order with another status.
LEMMA EndedIsMore ==
    ASSUME NEW s \in Seq(OrderType), s # <<>>, s[Len(s)].st = "open",
           NEW st \in {"closed", "canceled"}
    PROVE  LET r == [s EXCEPT ![Len(s)].st = st]
               o == [s[Len(s)] EXCEPT !.st = st]
           IN  /\ OneMore(s, r, o) /\ r \in Seq(OrderType) /\ Len(r) = Len(s) /\ o \in OrderType
               /\ o.st = st /\ o.lots = s[Len(s)].lots /\ o.entry = s[Len(s)].entry
<1> DEFINE n == Len(s)
           o == [s[n] EXCEPT !.st = st]
           r == [s EXCEPT ![n].st = st]
<1>1. n \in Nat \ {0} /\ DOMAIN s = 1 .. n /\ s[n] \in OrderType
  OBVIOUS
<1>2. o \in OrderType /\ o.st = st /\ o.lots = s[n].lots /\ o.entry = s[n].entry
  BY <1>1 DEF OrderType
<1>3. r = [s EXCEPT ![n] = o]
  OBVIOUS
<1> HIDE DEF o, r
<1>4. /\ r \in Seq(OrderType) /\ Len(r) = n /\ r[n] = o
      /\ \A k \in 1 .. n : r[k] = IF k = n THEN o ELSE s[k]
  BY <1>1, <1>2, <1>3, ExceptSeq
<1>5. DOMAIN r = 1 .. n /\ \A k \in 1 .. n - 1 : s[k] = r[k]
  <2> HIDE DEF n
  <2>1. DOMAIN r = 1 .. Len(r)
    BY <1>4
  <2> QED
    BY <1>1, <1>4, <2>1
<1>6. ~Filled(s[n])
  BY DEF Filled
<1>7. OneMore(s, r, o)
  BY <1>1, <1>4, <1>5, <1>6 DEF OneMore
<1> QED
  BY <1>2, <1>4, <1>7 DEF o, r

LEMMA FieldsOfMore ==
    ASSUME NEW t, Row(t), NEW v, NEW o, More(t, v, o)
    PROVE  /\ v.st = t.st /\ v.stake = t.stake /\ v.amount = t.amount /\ v.realized = t.realized
           /\ v.profit = t.profit /\ v \in TradeRow
<1>1. t \in TradeRow
  BY RowTyped
<1>2. v = [t EXCEPT !.orders = v.orders] /\ v.orders \in Seq(OrderType)
  BY DEF More
<1>3. PICK r \in Seq(OrderType) : v = [t EXCEPT !.orders = r]
  BY <1>2
<1> QED
  BY <1>1, <1>3 DEF TradeRow

LEMMA OrderedMore ==
    ASSUME NEW t, Row(t), t.st = "open", NEW v, NEW o, More(t, v, o), NEW u \in TradeRow,
           u.orders = v.orders, o.st = "open" => u.amount = t.amount
    PROVE  Ordered(u)
<1>1. SUFFICES ASSUME NEW s, s = t.orders, NEW r, r = u.orders, NEW m, m = Len(s), NEW n, n = Len(r)
               PROVE  Ordered(u)
  OBVIOUS
<1>2. /\ m \in Nat /\ n \in Nat \ {0} /\ r[n] = o /\ (m = n - 1 \/ m = n)
      /\ DOMAIN s = 1 .. m /\ DOMAIN r = 1 .. n
      /\ \A k \in 1 .. n - 1 : s[k] = r[k]
  BY <1>1, Zenon DEF More, OneMore
<1>3. /\ n <= MaxOrders /\ (n = m \/ ~HasOpenOrder(t))
      /\ MinCost # Unset => o.lots > 0
      /\ ~o.entry => HasFilled(t) /\ o.lots \in 1 .. t.amount
  BY <1>1, Zenon DEF More
<1>4. HasFilled(t) => HasFilled(u)
  <2>1. o \in OrderType /\ Typed(u.orders) /\ OneMore(t.orders, u.orders, o)
    BY DEF More, Typed
  <2> QED
    BY <2>1, RowTyped, SumsOfMore
<1>5. ~HasOpenOrder(t) => \A k \in DOMAIN s : s[k].st # "open"
  BY <1>1 DEF HasOpenOrder
<1>6. \A k \in DOMAIN s : /\ s[k].st = "open" => k = m
                          /\ MinCost # Unset => s[k].lots > 0
  BY <1>1 DEF Row, Ordered
<1>7. ASSUME NEW k \in DOMAIN r
      PROVE  /\ r[k].st = "open" => k = n
             /\ r[k].st = "open" /\ ~r[k].entry => HasFilled(u) /\ r[k].lots \in 1 .. u.amount
             /\ MinCost # Unset => r[k].lots > 0
  <2>1. CASE k = n
    BY <1>2, <1>3, <1>4, <2>1
  <2>2. CASE k # n
    <3>1. k \in 1 .. n - 1 /\ k \in DOMAIN s /\ r[k] = s[k]
      BY <1>2, <1>7, <2>2
    <3>2. r[k].st # "open"
      BY <1>2, <1>3, <1>5, <1>6, <2>2, <3>1
    <3> QED
      BY <1>6, <3>1, <3>2
  <2> QED
    BY <2>1, <2>2
<1> QED
  BY <1>1, <1>3, <1>7 DEF Ordered

\* An order that is not filled leaves the row as it is.
LEMMA UnfilledMore ==
    ASSUME NEW t, Row(t), t.st = "open", NEW v, NEW o, More(t, v, o), ~Filled(o)
    PROVE  /\ Row(v) /\ Position(v.orders) = Position(t.orders)
           /\ HasFilled(v) <=> HasFilled(t)
<1>1. /\ v.st = t.st /\ v.stake = t.stake /\ v.amount = t.amount /\ v.realized = t.realized
      /\ v.profit = t.profit /\ v \in TradeRow
  BY FieldsOfMore
<1>2. Ordered(v)
  BY <1>1, OrderedMore
<1>3. o \in OrderType /\ Typed(v.orders) /\ OneMore(t.orders, v.orders, o)
  BY DEF More, Typed
<1>4. /\ Figured(v) /\ Position(v.orders) = Position(t.orders)
      /\ HasFilled(v) <=> HasFilled(t)
  <2>1. Plus(Position(t.orders), o) = Position(t.orders)
    BY DEF Plus
  <2> QED
    BY <1>3, <2>1, FiguresOfMore
<1>5. IF HasFilled(v) THEN Current(v) ELSE Waiting(v)
  BY <1>1, <1>4 DEF Row, Current, Waiting
<1> QED
  BY <1>1, <1>2, <1>4, <1>5 DEF Row

\* A booked order that bought nothing (without a minimum of the exchange) leaves the row alone.
LEMMA BookedNothing ==
    ASSUME NEW t, Row(t), t.st = "open", NEW v, NEW o, More(t, v, o), o.st = "closed", ~Filled(o)
    PROVE  UpdateTrade(v, o) = v /\ Row(v)
<1>1. /\ v.st = t.st /\ v.stake = t.stake /\ v.amount = t.amount /\ v.realized = t.realized
      /\ v.profit = t.profit /\ v \in TradeRow
  BY FieldsOfMore
<1>2. Row(v) /\ Position(v.orders) = Position(t.orders) /\ (HasFilled(v) <=> HasFilled(t))
  BY UnfilledMore
<1>3. o.entry
  <2>1. ~o.entry => o.lots \in 1 .. t.amount /\ t.amount \in Nat
    BY RowTyped DEF More
  <2>2. o.lots \in Int /\ ~(o.lots > 0)
    BY OrderFacts DEF More, Filled
  <2> QED
    BY <2>1, <2>2
<1>4. Recalc(v) = v
  <2> DEFINE p == Position(v.orders)
  <2>1. p.profit # 0 => v.realized = p.profit
    <3>1. CASE HasFilled(v)
      BY <1>1, <1>2, <3>1 DEF Row, Current
    <3>2. CASE ~HasFilled(v)
      <4>1. Bought(v) = 0
        BY <1>2, <3>2, RowTyped DEF Row, Figured
      <4>2. p = NoPosition
        BY <1>2, <4>1 DEF Row, Figured, Sound
      <4> QED
        BY <4>2 DEF NoPosition
    <3> QED
      BY <3>1, <3>2
  <2>2. p.amount > 0 => v.amount = p.amount /\ v.stake = p.cost
    <3>1. CASE HasFilled(v)
      BY <1>1, <1>2, <3>1 DEF Row, Current
    <3>2. CASE ~HasFilled(v)
      <4>1. Bought(v) = 0
        BY <1>2, <3>2, RowTyped DEF Row, Figured
      <4>2. p = NoPosition
        BY <1>2, <4>1 DEF Row, Figured, Sound
      <4> QED
        BY <4>2 DEF NoPosition
    <3> QED
      BY <3>1, <3>2
  <2>3. Recalc(v) = LET r == IF p.profit # 0 THEN [v EXCEPT !.realized = p.profit] ELSE v
                    IN  IF p.amount > 0 THEN [r EXCEPT !.amount = p.amount, !.stake = p.cost] ELSE r
    BY DEF Recalc
  <2> HIDE DEF p
  <2>4. [v EXCEPT !.realized = v.realized] = v /\ [v EXCEPT !.amount = v.amount, !.stake = v.stake] = v
    BY <1>1 DEF TradeRow
  <2> QED
    BY <2>1, <2>2, <2>3, <2>4
<1> QED
  BY <1>2, <1>3, <1>4 DEF UpdateTrade

\* What Recalc makes of a row, field by field.
LEMMA Recalculated ==
    ASSUME NEW v \in TradeRow, NEW p, p = Position(v.orders), p \in PositionType
    PROVE  /\ Recalc(v) \in TradeRow /\ Recalc(v).orders = v.orders /\ Recalc(v).st = v.st
           /\ Recalc(v).profit = v.profit
           /\ p.amount > 0 => Recalc(v).amount = p.amount /\ Recalc(v).stake = p.cost
           /\ Recalc(v).realized = IF p.profit # 0 THEN p.profit ELSE v.realized
<1>1. /\ p.amount \in Nat /\ p.cost \in Int /\ p.profit \in Int
  BY DEF PositionType
<1>2. PICK r : r = IF p.profit # 0 THEN [v EXCEPT !.realized = p.profit] ELSE v
  OBVIOUS
<1>3. /\ r \in TradeRow /\ r.orders = v.orders /\ r.st = v.st /\ r.profit = v.profit
      /\ r.realized = IF p.profit # 0 THEN p.profit ELSE v.realized
  BY <1>1, <1>2 DEF TradeRow
<1>4. Recalc(v) = IF p.amount > 0 THEN [r EXCEPT !.amount = p.amount, !.stake = p.cost] ELSE r
  BY <1>2 DEF Recalc
<1> QED
  BY <1>1, <1>3, <1>4 DEF TradeRow

\* A booked entry: the row has the new figures, and its cost is that of the order more.
LEMMA BookedEntry ==
    ASSUME NEW t, Row(t), t.st = "open", NEW v, NEW o, More(t, v, o), o.st = "closed", Filled(o),
           o.entry
    PROVE  LET u == UpdateTrade(v, o)
           IN  /\ Row(u) /\ u.st = "open" /\ u.realized = t.realized /\ u.profit = t.profit
               /\ u.orders = v.orders /\ HasFilled(u)
               /\ Position(u.orders).profit = Position(t.orders).profit
               /\ u.stake = Cost(o) + IF HasFilled(t) THEN t.stake ELSE 0
<1> DEFINE p == Position(t.orders)
           q == Position(v.orders)
<1>1. PICK u : u = Recalc(v)
  OBVIOUS
<1>2. UpdateTrade(v, o) = u
  BY <1>1 DEF UpdateTrade
<1>3. /\ v.st = t.st /\ v.stake = t.stake /\ v.amount = t.amount /\ v.realized = t.realized
      /\ v.profit = t.profit /\ v \in TradeRow
  BY FieldsOfMore
<1>4. o \in OrderType /\ Typed(v.orders) /\ OneMore(t.orders, v.orders, o)
  BY DEF More, Typed
<1>5. /\ Figured(v) /\ q = Plus(p, o) /\ HasFilled(v) /\ q.amount = p.amount + o.lots
  BY <1>4, FiguresOfMore
<1>6. p \in PositionType /\ q \in PositionType
  <2>1. q \in PositionType
    BY <1>5 DEF Figured, Sound
  <2> QED
    BY <2>1, RowTyped
<1>7. q.amount > 0 /\ q.profit = p.profit /\ q.cost = p.cost + Cost(o)
  <2>1. p.amount \in Nat /\ o.lots \in Nat \ {0} /\ q.amount > 0
    BY <1>4, <1>5, <1>6, OrderFacts DEF PositionType
  <2>2. q = AddOrder(p, o)
    BY <1>5 DEF Plus
  <2> HIDE DEF p, q
  <2> QED
    BY <1>6, <2>1, <2>2 DEF AddOrder, PositionType, Cost
<1>8. /\ u \in TradeRow /\ u.orders = v.orders /\ u.st = "open" /\ u.profit = t.profit
      /\ u.amount = q.amount /\ u.stake = q.cost
      /\ u.realized = IF q.profit # 0 THEN q.profit ELSE t.realized
  <2> HIDE DEF q
  <2>1. v \in TradeRow /\ q = Position(v.orders) /\ q \in PositionType
    BY <1>3, <1>6 DEF q
  <2> QED
    BY <1>1, <1>3, <1>7, <2>1, Recalculated
<1>9. HasFilled(u) /\ Figured(u)
  BY <1>5, <1>8 DEF HasFilled, Figured, Bought, CashFlow
<1>10. Ordered(u)
  BY <1>8, OrderedMore
<1>11. CASE HasFilled(t)
  <2>1. t.stake = p.cost /\ (t.realized = p.profit \/ p.profit = 0)
    BY <1>11 DEF Row, Current
  <2>2. u.realized = t.realized
    BY <1>7, <1>8, <2>1
  <2>3. u.stake = Cost(o) + t.stake
    <3>1. Cost(o) \in Int /\ p.cost \in Int
      BY <1>4, <1>6, OrderFacts DEF PositionType
    <3> QED
      BY <1>7, <1>8, <2>1, <3>1
  <2>4. Current(u)
    BY <1>7, <1>8, <2>1, <2>2 DEF Current
  <2>5. Row(u)
    BY <1>8, <1>9, <1>10, <2>4 DEF Row
  <2> QED
    BY <1>2, <1>7, <1>8, <1>9, <1>11, <2>2, <2>3, <2>5
<1>12. CASE ~HasFilled(t)
  <2>1. p = NoPosition /\ t.realized = 0
    <3>1. Bought(t) = 0
      BY <1>12, RowTyped DEF Row, Figured
    <3> QED
      BY <1>12, <3>1 DEF Row, Figured, Sound, Waiting
  <2>2. p.profit = 0 /\ p.cost = 0
    BY <2>1 DEF NoPosition
  <2>3. u.realized = t.realized /\ q.profit = 0
    BY <1>7, <1>8, <2>1, <2>2
  <2>4. u.stake = Cost(o) + 0
    <3>1. Cost(o) \in Int
      BY <1>4, OrderFacts
    <3> QED
      BY <1>7, <1>8, <2>2, <3>1
  <2>5. Current(u)
    BY <1>7, <1>8, <2>3 DEF Current
  <2>6. Row(u)
    BY <1>8, <1>9, <1>10, <2>5 DEF Row
  <2> QED
    BY <1>2, <1>7, <1>8, <1>9, <1>12, <2>3, <2>4, <2>6
<1> QED
  BY <1>11, <1>12

\* A booked exit: the trade is closed when nothing is left, and has its new figures otherwise.
LEMMA BookedExit ==
    ASSUME NEW t, Row(t), t.st = "open", NEW v, NEW o, More(t, v, o), o.st = "closed", Filled(o),
           ~o.entry
    PROVE  Row(UpdateTrade(v, o)) /\ UpdateTrade(v, o).orders = v.orders
<1> DEFINE p == Position(t.orders)
           q == Position(v.orders)
           w == Recalc(v)
<1>3. /\ v.st = t.st /\ v.stake = t.stake /\ v.amount = t.amount /\ v.realized = t.realized
      /\ v.profit = t.profit /\ v \in TradeRow
  BY FieldsOfMore
<1>4. /\ o \in OrderType /\ Typed(v.orders) /\ OneMore(t.orders, v.orders, o)
      /\ HasFilled(t) /\ o.lots \in 1 .. t.amount
  BY DEF More, Typed
<1>a. t.amount \in Nat /\ p \in PositionType
  BY RowTyped
<1>b. t.amount = p.amount /\ (t.realized = p.profit \/ p.profit = 0)
  BY <1>4 DEF Row, Current
<1>5. Figured(v) /\ HasFilled(v) /\ q.amount = p.amount - o.lots
  <2>1. o.lots <= t.amount /\ o.lots \in Int /\ p.amount \in Int
    BY <1>4, <1>a DEF PositionType
  <2>2. Figured(v) /\ HasFilled(v) /\ q.amount = p.amount + (-o.lots)
    BY <1>4, <2>1, FiguresOfMore
  <2> HIDE DEF p, q
  <2> QED
    BY <2>1, <2>2
<1>6. q \in PositionType
  BY <1>5 DEF Figured, Sound
<1>7. /\ w \in TradeRow /\ w.orders = v.orders /\ w.st = "open"
      /\ q.amount > 0 => w.amount = q.amount /\ w.stake = q.cost
      /\ w.realized = IF q.profit # 0 THEN q.profit ELSE t.realized
  <2> HIDE DEF q
  <2>1. v \in TradeRow /\ q = Position(v.orders) /\ q \in PositionType
    BY <1>3, <1>6 DEF q
  <2> QED
    BY <1>3, <2>1, Recalculated
<1>8. CASE o.lots < t.amount
  <2>1. UpdateTrade(v, o) = w
    BY <1>3, <1>4, <1>8, <1>a DEF UpdateTrade
  <2>2. q.amount > 0
    BY <1>4, <1>5, <1>8, <1>a, <1>b
  <2> HIDE DEF w
  <2>3. HasFilled(w) /\ Figured(w)
    BY <1>5, <1>7 DEF HasFilled, Figured, Bought, CashFlow
  <2>4. Ordered(w)
    BY <1>7, OrderedMore
  <2>5. Current(w)
    BY <1>7, <2>2 DEF Current
  <2>6. Row(w)
    BY <1>7, <2>3, <2>4, <2>5 DEF Row
  <2> QED
    BY <1>7, <2>1, <2>6
<1>9. CASE o.lots = t.amount
  <2>1. UpdateTrade(v, o) = [w EXCEPT !.st = "closed", !.profit = q.profit]
    <3>1. o.lots >= v.amount
      BY <1>3, <1>4, <1>9, <1>a
    <3> QED
      BY <3>1 DEF UpdateTrade, Close
  <2>2. q.amount = 0 /\ q.profit \in Int
    BY <1>5, <1>6, <1>9, <1>a, <1>b DEF PositionType
  <2>3. PICK u : u = UpdateTrade(v, o)
    OBVIOUS
  <2> HIDE DEF w, q
  <2>4. u \in TradeRow /\ u.orders = v.orders /\ u.st = "closed" /\ u.profit = q.profit
    BY <1>7, <2>1, <2>2, <2>3 DEF TradeRow
  <2>5. HasFilled(u) /\ Figured(u)
    BY <1>5, <2>4 DEF HasFilled, Figured, Bought, CashFlow
  <2>6. Ordered(u)
    BY <2>4, OrderedMore
  <2>7. ~HasOpenOrder(u)
    <3>1. \A k \in DOMAIN u.orders : u.orders[k].st = "open" => k = Len(u.orders)
      BY <2>6 DEF Ordered
    <3>2. u.orders[Len(u.orders)] = o
      BY <1>4, <2>4 DEF OneMore
    <3> QED
      BY <3>1, <3>2 DEF HasOpenOrder
  <2>8. Settled(u)
    BY <2>2, <2>4, <2>5, <2>7 DEF Settled, q
  <2>9. Row(u)
    BY <2>4, <2>5, <2>6, <2>8 DEF Row
  <2> QED
    BY <2>3, <2>4, <2>9
<1> QED
  BY <1>4, <1>8, <1>9, <1>a

-----------------------------------------------------------------------------
(* The account as sums over the trades.                                        *)

StakeOf(t) == IF t.st = "open" THEN t.stake ELSE 0
ProfitOf(t) == IF t.st = "closed" THEN t.profit ELSE 0
RealizedOf(t) == IF t.st = "open" THEN t.realized ELSE 0

StakesOf(ts) == [i \in Ids |-> StakeOf(ts[i])]
ProfitsOf(ts) == [i \in Ids |-> ProfitOf(ts[i])]
RealizedsOf(ts) == [i \in Ids |-> RealizedOf(ts[i])]

Typable(ts) == ts = [i \in Ids |-> ts[i]] /\ \A i \in Ids : ts[i] \in TradeRow

LEMMA IdsFinite == IsFiniteSet(Ids) /\ OpenIds(trades) \in SUBSET Ids
<1>1. MaxTrades \in Int
  BY WalletsAssumption
<1> QED
  BY <1>1, FS_Interval DEF Ids, OpenIds

\* The sums of the wallet, taken over all trades.
LEMMA AccountSums ==
    ASSUME NEW ts, Typable(ts)
    PROVE  /\ \A i \in Ids : /\ StakesOf(ts)[i] = StakeOf(ts[i]) /\ StakeOf(ts[i]) \in Int
                             /\ ProfitsOf(ts)[i] = ProfitOf(ts[i]) /\ ProfitOf(ts[i]) \in Int
                             /\ RealizedsOf(ts)[i] = RealizedOf(ts[i]) /\ RealizedOf(ts[i]) \in Int
           /\ TiedUp(ts) = SumFunctionOnSet(StakesOf(ts), Ids) /\ TiedUp(ts) \in Int
           /\ ClosedProfit(ts) = SumFunctionOnSet(ProfitsOf(ts), Ids) /\ ClosedProfit(ts) \in Int
           /\ UpdateDry(ts) = Capital + ClosedProfit(ts)
                                + SumFunctionOnSet(RealizedsOf(ts), Ids) - TiedUp(ts)
           /\ SumFunctionOnSet(RealizedsOf(ts), Ids) \in Int
           /\ UpdateDry(ts) \in Int
<1>1. \A i \in Ids : ts[i].stake \in Int /\ ts[i].profit \in Int /\ ts[i].realized \in Int
  BY DEF Typable, TradeRow
<1>2. \A i \in Ids : /\ StakesOf(ts)[i] = StakeOf(ts[i]) /\ StakeOf(ts[i]) \in Int
                     /\ ProfitsOf(ts)[i] = ProfitOf(ts[i]) /\ ProfitOf(ts[i]) \in Int
                     /\ RealizedsOf(ts)[i] = RealizedOf(ts[i]) /\ RealizedOf(ts[i]) \in Int
  BY <1>1 DEF StakesOf, ProfitsOf, RealizedsOf, StakeOf, ProfitOf, RealizedOf
<1>3. OpenIds(ts) \in SUBSET Ids /\ ClosedIds(ts) \in SUBSET Ids /\ IsFiniteSet(Ids)
  BY IdsFinite DEF OpenIds, ClosedIds
<1>4. TiedUp(ts) = SumFunctionOnSet(StakesOf(ts), Ids)
  <2> DEFINE f == [i \in Ids |-> ts[i].stake]
  <2>1. \A i \in Ids : f[i] \in Int /\ StakesOf(ts)[i] = IF i \in OpenIds(ts) THEN f[i] ELSE 0
    BY <1>1, <1>2 DEF StakeOf, OpenIds
  <2>2. TiedUp(ts) = SumFunctionOnSet(f, OpenIds(ts))
    BY DEF TiedUp
  <2> HIDE DEF f
  <2> QED
    BY <1>3, <2>1, <2>2, SumOfPart
<1>5. ClosedProfit(ts) = SumFunctionOnSet(ProfitsOf(ts), Ids)
  <2> DEFINE f == [i \in Ids |-> ts[i].profit]
  <2>1. \A i \in Ids : f[i] \in Int /\ ProfitsOf(ts)[i] = IF i \in ClosedIds(ts) THEN f[i] ELSE 0
    BY <1>1, <1>2 DEF ProfitOf, ClosedIds
  <2>2. ClosedProfit(ts) = SumFunctionOnSet(f, ClosedIds(ts))
    BY DEF ClosedProfit
  <2> HIDE DEF f
  <2> QED
    BY <1>3, <2>1, <2>2, SumOfPart
<1>6. SumFunctionOnSet([i \in Ids |-> ts[i].realized], OpenIds(ts))
        = SumFunctionOnSet(RealizedsOf(ts), Ids)
  <2> DEFINE f == [i \in Ids |-> ts[i].realized]
  <2>1. \A i \in Ids : f[i] \in Int /\ RealizedsOf(ts)[i] = IF i \in OpenIds(ts) THEN f[i] ELSE 0
    BY <1>1, <1>2 DEF RealizedOf, OpenIds
  <2> HIDE DEF f
  <2>2. SumFunctionOnSet(f, OpenIds(ts)) = SumFunctionOnSet(RealizedsOf(ts), Ids)
    BY <1>3, <2>1, SumOfPart
  <2> QED
    BY <2>2 DEF f
<1>7. /\ SumFunctionOnSet(StakesOf(ts), Ids) \in Int /\ SumFunctionOnSet(ProfitsOf(ts), Ids) \in Int
      /\ SumFunctionOnSet(RealizedsOf(ts), Ids) \in Int
  <2>1. /\ \A i \in Ids : StakesOf(ts)[i] \in Int
        /\ \A i \in Ids : ProfitsOf(ts)[i] \in Int
        /\ \A i \in Ids : RealizedsOf(ts)[i] \in Int
    BY <1>2
  <2> QED
    BY <1>3, <2>1, SumIsInteger
<1>8. UpdateDry(ts) = Capital + ClosedProfit(ts)
                        + SumFunctionOnSet(RealizedsOf(ts), Ids) - TiedUp(ts)
  BY <1>6 DEF UpdateDry
<1>9. UpdateDry(ts) \in Int
  <2>1. Capital \in Int
    BY WalletsAssumption
  <2> QED
    BY <1>4, <1>5, <1>7, <1>8, <2>1
<1> QED
  BY <1>2, <1>4, <1>5, <1>7, <1>8, <1>9

\* One trade changes, and the sums by its figures.
LEMMA SumsOfOneTrade ==
    ASSUME NEW ts, Typable(ts), NEW us, Typable(us), NEW i \in Ids,
           \A j \in Ids : j # i => us[j] = ts[j]
    PROVE  /\ TiedUp(us) = TiedUp(ts) - StakeOf(ts[i]) + StakeOf(us[i])
           /\ ClosedProfit(us) = ClosedProfit(ts) - ProfitOf(ts[i]) + ProfitOf(us[i])
           /\ SumFunctionOnSet(RealizedsOf(us), Ids)
                = SumFunctionOnSet(RealizedsOf(ts), Ids) - RealizedOf(ts[i]) + RealizedOf(us[i])
<1>1. IsFiniteSet(Ids)
  BY IdsFinite
<1>2. /\ \A j \in Ids : StakesOf(ts)[j] \in Int /\ StakesOf(us)[j] \in Int
      /\ \A j \in Ids : ProfitsOf(ts)[j] \in Int /\ ProfitsOf(us)[j] \in Int
      /\ \A j \in Ids : RealizedsOf(ts)[j] \in Int /\ RealizedsOf(us)[j] \in Int
  BY AccountSums
<1>3. /\ \A j \in Ids \ {i} : StakesOf(ts)[j] = StakesOf(us)[j]
      /\ \A j \in Ids \ {i} : ProfitsOf(ts)[j] = ProfitsOf(us)[j]
      /\ \A j \in Ids \ {i} : RealizedsOf(ts)[j] = RealizedsOf(us)[j]
  BY DEF StakesOf, ProfitsOf, RealizedsOf
<1>4. /\ StakesOf(ts)[i] = StakeOf(ts[i]) /\ StakesOf(us)[i] = StakeOf(us[i])
      /\ ProfitsOf(ts)[i] = ProfitOf(ts[i]) /\ ProfitsOf(us)[i] = ProfitOf(us[i])
      /\ RealizedsOf(ts)[i] = RealizedOf(ts[i]) /\ RealizedsOf(us)[i] = RealizedOf(us[i])
  BY DEF StakesOf, ProfitsOf, RealizedsOf
<1>5. SumFunctionOnSet(StakesOf(us), Ids)
        = SumFunctionOnSet(StakesOf(ts), Ids) - StakesOf(ts)[i] + StakesOf(us)[i]
  BY <1>1, <1>2, <1>3, SumChangesOne
<1>6. SumFunctionOnSet(ProfitsOf(us), Ids)
        = SumFunctionOnSet(ProfitsOf(ts), Ids) - ProfitsOf(ts)[i] + ProfitsOf(us)[i]
  BY <1>1, <1>2, <1>3, SumChangesOne
<1>7. SumFunctionOnSet(RealizedsOf(us), Ids)
        = SumFunctionOnSet(RealizedsOf(ts), Ids) - RealizedsOf(ts)[i] + RealizedsOf(us)[i]
  BY <1>1, <1>2, <1>3, SumChangesOne
<1>8. /\ TiedUp(us) = SumFunctionOnSet(StakesOf(us), Ids)
      /\ TiedUp(ts) = SumFunctionOnSet(StakesOf(ts), Ids)
      /\ ClosedProfit(us) = SumFunctionOnSet(ProfitsOf(us), Ids)
      /\ ClosedProfit(ts) = SumFunctionOnSet(ProfitsOf(ts), Ids)
  BY AccountSums
<1> QED
  BY <1>4, <1>5, <1>6, <1>7, <1>8

-----------------------------------------------------------------------------
(* Stakes.                                                                     *)

LEMMA MinMaxOfTwo ==
    ASSUME NEW a \in Int, NEW b \in Int
    PROVE  /\ Min({a, b}) = IF a <= b THEN a ELSE b
           /\ Max({a, b}) = IF a >= b THEN a ELSE b
<1>1. PICK m : m = IF a <= b THEN a ELSE b
  OBVIOUS
<1>2. PICK x : x = IF a >= b THEN a ELSE b
  OBVIOUS
<1>3. Min({a, b}) = m
  <2>1. m \in {a, b} /\ \A y \in {a, b} : m <= y
    BY <1>1
  <2>2. ASSUME NEW z \in {a, b}, \A y \in {a, b} : z <= y PROVE z = m
    <3>1. z <= m /\ m <= z /\ z \in Int /\ m \in Int
      BY <2>1, <2>2
    <3> QED
      BY <3>1
  <2>3. Min({a, b}) = CHOOSE z \in {a, b} : \A y \in {a, b} : z <= y
    BY DEF Min
  <2> QED
    BY <2>1, <2>2, <2>3, Zenon
<1>4. Max({a, b}) = x
  <2>1. x \in {a, b} /\ \A y \in {a, b} : x >= y
    BY <1>2
  <2>2. ASSUME NEW z \in {a, b}, \A y \in {a, b} : z >= y PROVE z = x
    <3>1. z >= x /\ x >= z /\ z \in Int /\ x \in Int
      BY <2>1, <2>2
    <3> QED
      BY <3>1
  <2>3. Max({a, b}) = CHOOSE z \in {a, b} : \A y \in {a, b} : z >= y
    BY DEF Max
  <2> QED
    BY <2>1, <2>2, <2>3, Zenon
<1> QED
  BY <1>1, <1>2, <1>3, <1>4

LEMMA ConfigTyped ==
    ASSUME config \in Config
    PROVE  /\ config.ratio \in Nat /\ config.available \in Nat \cup {Unset}
           /\ config.stake \in Nat \cup {Unset} /\ config.market \in BOOLEAN
BY WalletsAssumption

\* The figures that stakes are computed from, and the stakes, are integers; what is available
\* is at most the tradable balance less what is tied up, and at most what is free.
LEMMA AvailableFacts ==
    ASSUME config \in Config, NEW ts, Typable(ts), NEW free \in Int
    PROVE  /\ TotalStake(ts, free) \in Int /\ Available(ts, free) \in Int
           /\ Available(ts, free) <= TotalStake(ts, free) - TiedUp(ts)
           /\ Available(ts, free) <= free
           /\ TradeStake(ts, free) \in Nat \cup {Unset}
<1>1. TiedUp(ts) \in Int /\ ClosedProfit(ts) \in Int
  BY AccountSums
<1>2. TotalStake(ts, free) \in Int
  <2>1. CASE config.available # Unset
    BY <1>1, <2>1, ConfigTyped DEF TotalStake
  <2>2. CASE config.available = Unset
    <3>1. config.ratio \in Nat /\ TiedUp(ts) + free \in Int
      BY <1>1, ConfigTyped
    <3>2. (TiedUp(ts) + free) * config.ratio \in Int
      BY <3>1, SMT
    <3>3. ((TiedUp(ts) + free) * config.ratio) \div 100 \in Int
      BY <3>2, DivType
    <3> QED
      BY <2>2, <3>3 DEF TotalStake
  <2> QED
    BY <2>1, <2>2
<1>3. /\ Available(ts, free) \in Int /\ Available(ts, free) <= TotalStake(ts, free) - TiedUp(ts)
      /\ Available(ts, free) <= free
  BY <1>1, <1>2, MinMaxOfTwo DEF Available
<1>4. Unlimited(ts, free) \in Int
  <2>1. MaxOpen \in Nat \ {0} /\ Available(ts, free) + TiedUp(ts) \in Int
    BY <1>1, <1>3, WalletsAssumption
  <2>2. (Available(ts, free) + TiedUp(ts)) \div MaxOpen \in Int
    BY <2>1, DivType
  <2> QED
    BY <1>3, <2>2, MinMaxOfTwo DEF Unlimited
<1>5. TradeStake(ts, free) \in Nat \cup {Unset}
  <2>1. PICK s \in Int : s = IF config.stake = Unset THEN Unlimited(ts, free) ELSE config.stake
    BY <1>4, ConfigTyped
  <2>2. Max({s, 0}) \in Nat
    <3>1. Max({s, 0}) = IF s >= 0 THEN s ELSE 0
      BY MinMaxOfTwo
    <3> QED
      BY <3>1
  <2>3. TradeStake(ts, free) = IF Available(ts, free) < s THEN Unset ELSE Max({s, 0})
    BY <2>1 DEF TradeStake
  <2> QED
    BY <2>2, <2>3
<1> QED
  BY <1>2, <1>3, <1>5

\* A minimum is at least the price of one lot.
LEMMA MinStakeFacts ==
    ASSUME NEW price \in Prices
    PROVE  /\ price * Unit \in Nat \ {0}
           /\ MinCost = Unset => MinStake(price) = Unset
           /\ MinCost # Unset => MinStake(price) \in Int /\ MinStake(price) >= price * Unit
<1>1. price \in Nat \ {0} /\ Unit \in Nat \ {0} /\ Reserve \in Nat
  BY WalletsAssumption
<1>2. price * Unit \in Nat \ {0}
  BY <1>1, SMT
<1>3. SUFFICES ASSUME NEW x, x = price * Unit, MinCost # Unset
               PROVE  MinStake(price) \in Int /\ MinStake(price) >= x
  BY <1>2 DEF MinStake
<1>4. x \in Nat
  BY <1>2, <1>3
<1>5. x * (100 + Reserve) \in Int /\ 100 * x <= x * (100 + Reserve)
  <2>1. x * Reserve \in Nat
    BY <1>1, <1>4, SMT
  <2>2. x * (100 + Reserve) = 100 * x + x * Reserve
    BY <1>1, <1>4, SMT
  <2> QED
    BY <1>4, <2>1, <2>2
<1>6. (100 * x) \div 100 <= (x * (100 + Reserve)) \div 100
  BY <1>4, <1>5, DivMono
<1>7. (100 * x) \div 100 = x
  BY <1>4, DivMultiple
<1>8. PICK y : y = (x * (100 + Reserve)) \div 100
  OBVIOUS
<1>9. y \in Int /\ x <= y
  <2>1. y \in Int
    BY <1>5, <1>8, DivType
  <2> QED
    BY <1>6, <1>7, <1>8, <2>1
<1>10. MinStake(price) = Max({MinCost, y})
  BY <1>3, <1>8 DEF MinStake
<1>11. MinCost \in Int
  BY <1>3, WalletsAssumption
<1> QED
  BY <1>4, <1>9, <1>10, <1>11, MinMaxOfTwo

\* A stake that validate_stake_amount lets through is available, and buys a lot at least if
\* the exchange has a minimum.  The lots that it buys cost at most the stake.
LEMMA StakeFacts ==
    ASSUME config \in Config, Typable(trades), NEW free \in Int, NEW tied \in Int,
           NEW asks \in SUBSET Int, NEW price \in Prices, NEW stake \in Stakes(asks, tied, price, free)
    PROVE  /\ stake \in Int /\ stake <= Available(trades, free)
           /\ Lots(stake, price) \in Int /\ price * Unit * Lots(stake, price) <= stake
           /\ MinCost # Unset => stake > 0 /\ Lots(stake, price) > 0
<1>1. PICK ask \in asks : stake = Validate(ask, tied, price, free) /\ stake # 0
  BY DEF Stakes
<1>2. PICK max : max = MaxAllowed(tied, price, free)
  OBVIOUS
<1>3. PICK min : min = MinStake(price)
  OBVIOUS
<1>4. PICK x : x = price * Unit
  OBVIOUS
<1>5. /\ x \in Nat \ {0} /\ (MinCost = Unset => min = Unset)
      /\ MinCost # Unset => min \in Int /\ min >= x
  BY <1>3, <1>4, MinStakeFacts
<1>6. Available(trades, free) \in Int
  BY AvailableFacts
<1>7. max \in Int /\ max <= Available(trades, free)
  <2>1. price \in Nat /\ Unit \in Nat /\ MaxLots \in Nat
    BY WalletsAssumption
  <2>2. MaxStake(price) \in Int
    BY <2>1, SMT DEF MaxStake
  <2>3. MaxStake(price) - tied \in Int
    BY <2>2
  <2> QED
    BY <1>2, <1>6, <2>3, MinMaxOfTwo DEF MaxAllowed
<1>8. /\ stake = Min({Max({ask, min}), max})
      /\ min # Unset => ~(min > max)
  BY <1>1, <1>2, <1>3 DEF Validate
<1>9. min \in Int
  <2>1. Unset \in Int
    BY DEF Unset
  <2> QED
    BY <1>5, <2>1
<1>10. stake \in Int /\ stake <= max /\ (max >= min => stake >= min)
  BY <1>7, <1>8, <1>9, MinMaxOfTwo
<1>11. MinCost # Unset => stake >= x
  <2>1. SUFFICES ASSUME MinCost # Unset PROVE stake >= x
    OBVIOUS
  <2>2. min >= x /\ x > 0 /\ min # Unset
    BY <1>5, <1>9, <2>1 DEF Unset
  <2> QED
    BY <1>5, <1>7, <1>8, <1>9, <1>10, <2>2
<1>12. PICK l : l = stake \div x
  OBVIOUS
<1>13. l \in Int /\ x * l <= stake
  BY <1>5, <1>10, <1>12, DivType, DivFact
<1>14. stake >= x => l > 0
  <2>1. SUFFICES ASSUME stake >= x PROVE l > 0
    OBVIOUS
  <2>2. (x * 1) \div x <= stake \div x
    BY <1>5, <1>10, <2>1, DivMono
  <2>3. (x * 1) \div x = 1
    BY <1>5, DivMultiple
  <2> QED
    BY <1>12, <1>13, <2>2, <2>3
<1>15. Lots(stake, price) = l
  BY <1>4, <1>12 DEF Lots
<1> QED
  BY <1>4, <1>5, <1>6, <1>7, <1>10, <1>11, <1>13, <1>14, <1>15

-----------------------------------------------------------------------------
(* What the fills left of the money, and what the wallet says.                 *)

WaitOf(t) == IF t.st = "open" /\ ~HasFilled(t) THEN t.stake ELSE 0
StaleOf(t) == IF t.st = "open" THEN t.realized - Position(t.orders).profit ELSE 0
RoundOf(t) == IF t.st = "closed" THEN Bought(t) ELSE 0

CashFlowsOf(ts) == [i \in Ids |-> CashFlow(ts[i])]
WaitsOf(ts) == [i \in Ids |-> WaitOf(ts[i])]
StalesOf(ts) == [i \in Ids |-> StaleOf(ts[i])]
RoundsOf(ts) == [i \in Ids |-> RoundOf(ts[i])]

\* One row: its figures are the money that its fills moved, up to the rounding of a closed one.
LEMMA RowBalance ==
    ASSUME NEW t, Row(t)
    PROVE  /\ CashFlow(t) \in Int /\ WaitOf(t) \in Int /\ StaleOf(t) \in Int /\ RoundOf(t) \in Nat
           /\ StakeOf(t) \in Int /\ ProfitOf(t) \in Int /\ RealizedOf(t) \in Int
           /\ MinCost # Unset => WaitOf(t) \in Nat
           /\ CashFlow(t) + StaleOf(t) + StakeOf(t) <= ProfitOf(t) + RealizedOf(t) + WaitOf(t)
           /\ ProfitOf(t) + RealizedOf(t) + WaitOf(t)
                <= CashFlow(t) + StaleOf(t) + StakeOf(t) + RoundOf(t)
           /\ t.st = "closed" => /\ 0 <= t.profit - CashFlow(t)
                                 /\ t.profit - CashFlow(t) < Bought(t)
<1> DEFINE p == Position(t.orders)
<1>1. /\ t.stake \in Int /\ t.realized \in Int /\ t.profit \in Int /\ CashFlow(t) \in Int
      /\ Bought(t) \in Nat /\ t.st \in {"none", "open", "closed"} /\ p \in PositionType
  BY RowTyped DEF TradeRow
<1>2. p.profit \in Int /\ p.cost \in Int /\ p.amount \in Nat /\ p.avg \in Nat
  BY <1>1 DEF PositionType
<1>3. /\ CashFlow(t) = p.profit - p.cost /\ 0 <= Residue(p)
      /\ Bought(t) > 0 => Residue(p) < Bought(t)
      /\ Bought(t) = 0 => p = NoPosition
      /\ Bought(t) > 0 <=> HasFilled(t)
  BY DEF Row, Figured, Sound
<1> HIDE DEF p
<1>4. CASE t.st = "none"
  <2>1. t = NoTrade
    BY <1>4 DEF Row
  <2>2. t.orders = <<>>
    BY <2>1 DEF NoTrade
  <2>3. CashFlow(t) = 0
    BY <2>2, WithoutOrders
  <2>4. /\ WaitOf(t) = 0 /\ StaleOf(t) = 0 /\ RoundOf(t) = 0
        /\ StakeOf(t) = 0 /\ ProfitOf(t) = 0 /\ RealizedOf(t) = 0
    BY <1>4 DEF WaitOf, StaleOf, RoundOf, StakeOf, ProfitOf, RealizedOf
  <2> QED
    BY <1>4, <2>3, <2>4
<1>5. CASE t.st = "open"
  <2>1. /\ StaleOf(t) = t.realized - p.profit /\ RoundOf(t) = 0
        /\ StakeOf(t) = t.stake /\ ProfitOf(t) = 0 /\ RealizedOf(t) = t.realized
    BY <1>5 DEF StaleOf, RoundOf, StakeOf, ProfitOf, RealizedOf, p
  <2>2. CASE HasFilled(t)
    <3>1. WaitOf(t) = 0 /\ t.stake = p.cost
      BY <1>5, <2>2 DEF WaitOf, Row, Current, p
    <3> QED
      BY <1>1, <1>2, <1>3, <1>5, <2>1, <3>1
  <2>3. CASE ~HasFilled(t)
    <3>1. WaitOf(t) = t.stake /\ (MinCost # Unset => t.stake > 0)
      BY <1>5, <2>3 DEF WaitOf, Row, Waiting
    <3>2. p.profit = 0 /\ p.cost = 0
      BY <1>1, <1>3, <2>3 DEF NoPosition
    <3> QED
      BY <1>1, <1>3, <1>5, <2>1, <3>1, <3>2
  <2> QED
    BY <2>2, <2>3
<1>6. CASE t.st = "closed"
  <2>1. /\ WaitOf(t) = 0 /\ StaleOf(t) = 0 /\ RoundOf(t) = Bought(t)
        /\ StakeOf(t) = 0 /\ ProfitOf(t) = t.profit /\ RealizedOf(t) = 0
    BY <1>6 DEF WaitOf, StaleOf, RoundOf, StakeOf, ProfitOf, RealizedOf
  <2>2. HasFilled(t) /\ t.profit = p.profit /\ p.amount = 0
    BY <1>6 DEF Row, Settled, p
  <2>3. Residue(p) = p.cost
    <3>1. p.avg * p.amount = 0
      BY <1>2, <2>2, SMT
    <3> QED
      BY <1>2, <3>1 DEF Residue
  <2> QED
    BY <1>1, <1>2, <1>3, <1>6, <2>1, <2>2, <2>3
<1> QED
  BY <1>1, <1>4, <1>5, <1>6

Rows(ts) == ts = [i \in Ids |-> ts[i]] /\ \A i \in Ids : Row(ts[i])

LEMMA RowsTypable == ASSUME NEW ts, Rows(ts) PROVE Typable(ts)
BY RowTyped DEF Rows, Typable

\* WalletExplained, for any rows.
Waited(ts) ==
    SumFunctionOnSet([i \in Ids |-> ts[i].stake], {i \in OpenIds(ts) : ~HasFilled(ts[i])})
StaleAt(ts) == {i \in OpenIds(ts) : Position(ts[i].orders).profit # ts[i].realized}
Stale(ts) ==
    SumFunctionOnSet([i \in Ids |-> ts[i].realized - Position(ts[i].orders).profit], StaleAt(ts))
CashOf(ts) == Capital + SumFunctionOnSet([i \in Ids |-> CashFlow(ts[i])], Ids)

LEMMA Explained ==
    ASSUME NEW ts, Rows(ts)
    PROVE  /\ CashOf(ts) \in Int /\ Waited(ts) \in Int /\ Stale(ts) \in Int
           /\ BoughtByClosed(ts) \in Nat
           /\ MinCost # Unset => Waited(ts) \in Nat
           /\ StaleAt(ts) = {} => Stale(ts) = 0
           /\ 0 <= UpdateDry(ts) - (CashOf(ts) - Waited(ts) + Stale(ts))
           /\ UpdateDry(ts) - (CashOf(ts) - Waited(ts) + Stale(ts)) <= BoughtByClosed(ts)
<1> DEFINE f == CashFlowsOf(ts)
           w == WaitsOf(ts)
           s == StalesOf(ts)
           b == RoundsOf(ts)
           k == StakesOf(ts)
           p == ProfitsOf(ts)
           r == RealizedsOf(ts)
<1>1. Typable(ts) /\ \A i \in Ids : Row(ts[i])
  BY RowsTypable DEF Rows
<1>2. \A i \in Ids : /\ f[i] \in Int /\ w[i] \in Int /\ s[i] \in Int /\ b[i] \in Nat
                     /\ k[i] \in Int /\ p[i] \in Int /\ r[i] \in Int
                     /\ MinCost # Unset => w[i] \in Nat
                     /\ f[i] + s[i] + k[i] <= p[i] + r[i] + w[i]
                     /\ p[i] + r[i] + w[i] <= f[i] + s[i] + k[i] + b[i]
  BY <1>1, RowBalance DEF CashFlowsOf, WaitsOf, StalesOf, RoundsOf, StakesOf, ProfitsOf, RealizedsOf
<1>3. IsFiniteSet(Ids)
  BY IdsFinite
<1>4. \A i \in Ids : /\ ts[i].stake \in Int /\ ts[i].realized - Position(ts[i].orders).profit \in Int
                     /\ Bought(ts[i]) \in Int
  <2>1. SUFFICES ASSUME NEW i \in Ids
                 PROVE  /\ ts[i].stake \in Int
                        /\ ts[i].realized - Position(ts[i].orders).profit \in Int
                        /\ Bought(ts[i]) \in Int
    OBVIOUS
  <2>2. /\ ts[i].stake \in Int /\ ts[i].realized \in Int /\ Bought(ts[i]) \in Nat
        /\ Position(ts[i].orders) \in PositionType
    BY <1>1, RowTyped
  <2>3. \A q \in PositionType : q.profit \in Int
    BY DEF PositionType
  <2> QED
    BY <2>2, <2>3
<1>5. Waited(ts) = SumFunctionOnSet(w, Ids)
  <2> DEFINE g == [i \in Ids |-> ts[i].stake]
             W == {i \in OpenIds(ts) : ~HasFilled(ts[i])}
  <2>1. W \in SUBSET Ids /\ \A i \in Ids : g[i] \in Int /\ w[i] = IF i \in W THEN g[i] ELSE 0
    BY <1>4 DEF OpenIds, WaitsOf, WaitOf
  <2>2. Waited(ts) = SumFunctionOnSet(g, W)
    BY DEF Waited
  <2> HIDE DEF g, W, w
  <2> QED
    BY <1>3, <2>1, <2>2, SumOfPart
<1>6. Stale(ts) = SumFunctionOnSet(s, Ids)
  <2> DEFINE g == [i \in Ids |-> ts[i].realized - Position(ts[i].orders).profit]
             W == StaleAt(ts)
  <2>1. W \in SUBSET Ids /\ \A i \in Ids : g[i] \in Int /\ s[i] = IF i \in W THEN g[i] ELSE 0
    <3>1. W \in SUBSET Ids
      BY DEF StaleAt, OpenIds
    <3>2. ASSUME NEW i \in Ids PROVE g[i] \in Int /\ s[i] = IF i \in W THEN g[i] ELSE 0
      <4>1. /\ ts[i].realized \in Int /\ Position(ts[i].orders) \in PositionType
        BY <1>1, RowTyped
      <4>2. Position(ts[i].orders).profit \in Int
        BY <4>1 DEF PositionType
      <4>3. i \in W <=> ts[i].st = "open" /\ Position(ts[i].orders).profit # ts[i].realized
        BY DEF StaleAt, OpenIds
      <4>4. g[i] \in Int /\ g[i] = ts[i].realized - Position(ts[i].orders).profit
        BY <4>1, <4>2
      <4>5. s[i] = IF ts[i].st = "open" THEN g[i] ELSE 0
        BY <4>4 DEF StalesOf, StaleOf
      <4> HIDE DEF g, W, s
      <4> QED
        BY <4>1, <4>2, <4>3, <4>4, <4>5
    <3> QED
      BY <3>1, <3>2
  <2>2. Stale(ts) = SumFunctionOnSet(g, W)
    BY DEF Stale
  <2> HIDE DEF g, W, s
  <2> QED
    BY <1>3, <2>1, <2>2, SumOfPart
<1>7. BoughtByClosed(ts) = SumFunctionOnSet(b, Ids)
  <2> DEFINE g == [i \in Ids |-> Bought(ts[i])]
             W == ClosedIds(ts)
  <2>1. W \in SUBSET Ids /\ \A i \in Ids : g[i] \in Int /\ b[i] = IF i \in W THEN g[i] ELSE 0
    BY <1>4 DEF ClosedIds, RoundsOf, RoundOf
  <2>2. BoughtByClosed(ts) = SumFunctionOnSet(g, W)
    BY DEF BoughtByClosed
  <2> HIDE DEF g, W, b
  <2> QED
    BY <1>3, <2>1, <2>2, SumOfPart
<1>8. CashOf(ts) = Capital + SumFunctionOnSet(f, Ids)
  BY DEF CashOf, CashFlowsOf
<1>9. UpdateDry(ts) = Capital + SumFunctionOnSet(p, Ids) + SumFunctionOnSet(r, Ids)
                        - SumFunctionOnSet(k, Ids)
  BY <1>1, AccountSums
<1>10. StaleAt(ts) = {} => Stale(ts) = 0
  BY SumOfNothing DEF Stale
<1> HIDE DEF f, w, s, b, k, p, r
<1>11. /\ SumFunctionOnSet(f, Ids) \in Int /\ SumFunctionOnSet(w, Ids) \in Int
       /\ SumFunctionOnSet(s, Ids) \in Int /\ SumFunctionOnSet(k, Ids) \in Int
       /\ SumFunctionOnSet(p, Ids) \in Int /\ SumFunctionOnSet(r, Ids) \in Int
  BY <1>2, <1>3, SumIsInteger
<1>12. SumFunctionOnSet(b, Ids) \in Nat /\ (MinCost # Unset => SumFunctionOnSet(w, Ids) \in Nat)
  BY <1>2, <1>3, SumOfNaturals
<1>13. PICK fs : fs = [i \in Ids |-> f[i] + s[i]]
  OBVIOUS
<1>14. PICK fsk : fsk = [i \in Ids |-> fs[i] + k[i]]
  OBVIOUS
<1>15. PICK fskb : fskb = [i \in Ids |-> fsk[i] + b[i]]
  OBVIOUS
<1>16. PICK pr : pr = [i \in Ids |-> p[i] + r[i]]
  OBVIOUS
<1>17. PICK prw : prw = [i \in Ids |-> pr[i] + w[i]]
  OBVIOUS
<1>18. /\ \A i \in Ids : fs[i] = f[i] + s[i] /\ fs[i] \in Int
       /\ \A i \in Ids : fsk[i] = fs[i] + k[i] /\ fsk[i] \in Int
       /\ \A i \in Ids : fskb[i] = fsk[i] + b[i] /\ fskb[i] \in Int
       /\ \A i \in Ids : pr[i] = p[i] + r[i] /\ pr[i] \in Int
       /\ \A i \in Ids : prw[i] = pr[i] + w[i] /\ prw[i] \in Int
  BY <1>2, <1>13, <1>14, <1>15, <1>16, <1>17
<1>19. \A i \in Ids : fsk[i] <= prw[i] /\ prw[i] <= fskb[i]
  BY <1>2, <1>18
<1>20. SumFunctionOnSet(fs, Ids) = SumFunctionOnSet(f, Ids) + SumFunctionOnSet(s, Ids)
  BY <1>2, <1>3, <1>18, SumOfSums
<1>21. SumFunctionOnSet(fsk, Ids) = SumFunctionOnSet(fs, Ids) + SumFunctionOnSet(k, Ids)
  BY <1>2, <1>3, <1>18, SumOfSums
<1>22. SumFunctionOnSet(fskb, Ids) = SumFunctionOnSet(fsk, Ids) + SumFunctionOnSet(b, Ids)
  BY <1>2, <1>3, <1>18, SumOfSums
<1>23. SumFunctionOnSet(pr, Ids) = SumFunctionOnSet(p, Ids) + SumFunctionOnSet(r, Ids)
  BY <1>2, <1>3, <1>18, SumOfSums
<1>24. SumFunctionOnSet(prw, Ids) = SumFunctionOnSet(pr, Ids) + SumFunctionOnSet(w, Ids)
  BY <1>2, <1>3, <1>18, SumOfSums
<1>25. SumFunctionOnSet(fsk, Ids) <= SumFunctionOnSet(prw, Ids)
  BY <1>3, <1>18, <1>19, SumGrows
<1>26. SumFunctionOnSet(prw, Ids) <= SumFunctionOnSet(fskb, Ids)
  BY <1>3, <1>18, <1>19, SumGrows
<1>27. Capital \in Int
  BY WalletsAssumption
<1>28. /\ 0 <= UpdateDry(ts) - (CashOf(ts) - Waited(ts) + Stale(ts))
       /\ UpdateDry(ts) - (CashOf(ts) - Waited(ts) + Stale(ts)) <= BoughtByClosed(ts)
  BY <1>5, <1>6, <1>7, <1>8, <1>9, <1>11, <1>12, <1>20, <1>21, <1>22, <1>23, <1>24, <1>25,
     <1>26, <1>27
<1> QED
  BY <1>5, <1>6, <1>7, <1>8, <1>10, <1>11, <1>12, <1>27, <1>28

-----------------------------------------------------------------------------
(* The inductive invariant of the account, and the steps.                      *)

Account ==
    /\ config \in Config /\ forced \in Nat \cup {Unset}
    /\ Rows(trades)
    /\ wallet = UpdateDry(trades)

\* One row changes, and the wallet is computed anew.
LEMMA RowChanges ==
    ASSUME Account, NEW i \in Ids, NEW u, Row(u), trades' = [trades EXCEPT ![i] = u],
           wallet' = UpdateDry(trades'), config' = config, forced' \in Nat \cup {Unset}
    PROVE  /\ Account' /\ trades'[i] = u /\ \A j \in Ids : j # i => trades'[j] = trades[j]
           /\ Typable(trades) /\ Typable(trades')
<1>1. Typable(trades) /\ \A j \in Ids : Row(trades[j])
  BY RowsTypable DEF Account, Rows
<1>2. u \in TradeRow
  BY RowTyped
<1>3. Typable(trades') /\ trades'[i] = u /\ \A j \in Ids : j # i => trades'[j] = trades[j]
  BY <1>1, <1>2 DEF Typable
<1>4. \A j \in Ids : Row(trades'[j])
  BY <1>1, <1>3
<1>5. Rows(trades')
  BY <1>3, <1>4 DEF Rows, Typable
<1> QED
  BY <1>1, <1>3, <1>5 DEF Account

\* A new order on a row without an open one.
LEMMA PlacedIsMore ==
    ASSUME NEW t, Row(t), ~HasOpenOrder(t), Len(t.orders) < MaxOrders, NEW o \in OrderType,
           MinCost # Unset => o.lots > 0, ~o.entry => HasFilled(t) /\ o.lots \in 1 .. t.amount,
           NEW v, v = [t EXCEPT !.orders = Append(@, o)]
    PROVE  More(t, v, o) /\ v.orders = Append(t.orders, o) /\ Len(v.orders) = Len(t.orders) + 1
<1>1. t \in TradeRow /\ t.orders \in Seq(OrderType) /\ Len(t.orders) \in Nat
  BY RowTyped
<1>2. PICK s : s = t.orders
  OBVIOUS
<1>3. PICK r : r = Append(s, o)
  OBVIOUS
<1>4. OneMore(s, r, o) /\ r \in Seq(OrderType) /\ Len(r) = Len(s) + 1
  BY <1>1, <1>2, <1>3, AppendedIsMore
<1>5. v = [t EXCEPT !.orders = r]
  BY <1>2, <1>3
<1>6. v.orders = r
  BY <1>1, <1>5 DEF TradeRow
<1>7. MaxOrders \in Nat
  BY WalletsAssumption
<1>8. Len(r) <= MaxOrders
  BY <1>1, <1>2, <1>4, <1>7
<1> QED
  BY <1>2, <1>3, <1>4, <1>5, <1>6, <1>8 DEF More

LEMMA OrderTyped ==
    ASSUME config \in Config, NEW isEntry \in BOOLEAN, NEW lots \in Int, NEW price \in Prices
    PROVE  LET o == Order(isEntry, lots, price)
           IN  /\ o \in OrderType /\ o.entry = isEntry /\ o.lots = lots /\ o.price = price
               /\ o.st \in {"open", "closed"}
BY DEF Order, OrderType

\* An entry that is placed: its row, and what it takes of the account.
LEMMA PlacedEntry ==
    ASSUME NEW t, Row(t), t.st = "open", ~HasOpenOrder(t), Len(t.orders) < MaxOrders,
           NEW o \in OrderType, o.entry, o.st \in {"open", "closed"}, MinCost # Unset => o.lots > 0
    PROVE  LET u == Placed(t, o)
           IN  /\ Row(u) /\ u.st = "open" /\ u.realized = t.realized
               /\ Position(u.orders).profit = Position(t.orders).profit
               /\ \/ u.stake = t.stake
                  \/ u.stake = Cost(o) + IF HasFilled(t) THEN t.stake ELSE 0
<1>1. PICK v : v = [t EXCEPT !.orders = Append(@, o)]
  OBVIOUS
<1>2. More(t, v, o)
  BY <1>1, PlacedIsMore
<1>3. v.st = t.st /\ v.stake = t.stake /\ v.realized = t.realized
  BY <1>2, FieldsOfMore
<1>4. CASE o.st = "open"
  <2>1. Placed(t, o) = v
    BY <1>1, <1>4 DEF Placed
  <2>2. ~Filled(o)
    BY <1>4 DEF Filled
  <2> QED
    BY <1>2, <1>3, <2>1, <2>2, UnfilledMore
<1>5. CASE o.st = "closed"
  <2>1. Placed(t, o) = UpdateTrade(v, o)
    BY <1>1, <1>5 DEF Placed
  <2>2. CASE ~Filled(o)
    BY <1>2, <1>3, <1>5, <2>1, <2>2, UnfilledMore, BookedNothing
  <2>3. CASE Filled(o)
    BY <1>2, <1>3, <1>5, <2>1, <2>3, BookedEntry
  <2> QED
    BY <2>2, <2>3
<1> QED
  BY <1>4, <1>5

LEMMA PlacedExit ==
    ASSUME NEW t, Row(t), t.st = "open", ~HasOpenOrder(t), Len(t.orders) < MaxOrders, HasFilled(t),
           NEW o \in OrderType, ~o.entry, o.st \in {"open", "closed"}, o.lots \in 1 .. t.amount
    PROVE  /\ Row(Placed(t, o)) /\ Placed(t, o).orders = Append(t.orders, o)
<1>1. PICK v : v = [t EXCEPT !.orders = Append(@, o)]
  OBVIOUS
<1>2. More(t, v, o) /\ v.orders = Append(t.orders, o)
  <2>1. o.lots > 0
    <3>1. t.amount \in Nat
      BY RowTyped
    <3> QED
      BY <3>1
  <2> QED
    BY <1>1, <2>1, PlacedIsMore
<1>3. CASE o.st = "open"
  <2>1. Placed(t, o) = v /\ ~Filled(o)
    BY <1>1, <1>3 DEF Placed, Filled
  <2> QED
    BY <1>2, <2>1, UnfilledMore
<1>4. CASE o.st = "closed"
  <2>1. Placed(t, o) = UpdateTrade(v, o)
    BY <1>1, <1>4 DEF Placed
  <2>2. Filled(o)
    <3>1. t.amount \in Nat
      BY RowTyped
    <3> QED
      BY <1>4, <3>1 DEF Filled
  <2> QED
    BY <1>2, <1>4, <2>1, <2>2, BookedExit
<1> QED
  BY <1>3, <1>4

\* The row that an entry is placed on: the one there is, or a new one that waits for the stake.
Base(id, t, stake) ==
    /\ Row(t) /\ t.st = "open" /\ ~HasOpenOrder(t)
    /\ \/ t = trades[id] /\ HasFilled(t)
       \/ trades[id] = NoTrade /\ t = Opened(stake)

\* What an entry leaves of the account.
WithinBudget ==
    /\ TiedUp(trades') <= TotalStake(trades', UpdateDry(trades'))
    /\ UpdateDry(trades') >= 0
    /\ StaleAt(trades') = StaleAt(trades) /\ BoughtByClosed(trades') = BoughtByClosed(trades)

LEMMA EnterFacts ==
    ASSUME Account, NEW id \in Ids, NEW t, NEW tied \in Int, NEW asks \in SUBSET Int,
           NEW price \in Prices, NEW stake \in Stakes(asks, tied, price, UpdateDry(trades)),
           Base(id, t, stake), Enter(id, t, stake, price),
           config' = config, forced' \in Nat \cup {Unset}
    PROVE  Account' /\ (MinCost # Unset => WithinBudget)
<1>1. config \in Config /\ Typable(trades) /\ \A j \in Ids : Row(trades[j])
  BY RowsTypable DEF Account, Rows
<1>2. PICK free : free = UpdateDry(trades)
  OBVIOUS
<1>3. free \in Int
  BY <1>1, <1>2, AccountSums
<1>4. /\ stake \in Int /\ stake <= Available(trades, free) /\ Lots(stake, price) \in Int
      /\ price * Unit * Lots(stake, price) <= stake
      /\ MinCost # Unset => stake > 0 /\ Lots(stake, price) > 0
  BY <1>1, <1>2, <1>3, StakeFacts
<1>5. PICK o : o = Order(TRUE, Lots(stake, price), price)
  OBVIOUS
<1>6. /\ o \in OrderType /\ o.entry /\ o.lots = Lots(stake, price) /\ o.price = price
      /\ o.st \in {"open", "closed"}
  <2>1. /\ o \in OrderType /\ o.entry = TRUE /\ o.lots = Lots(stake, price) /\ o.price = price
        /\ o.st \in {"open", "closed"}
    BY <1>1, <1>4, <1>5, OrderTyped
  <2> QED
    BY <2>1
<1>7. Cost(o) \in Int /\ Cost(o) <= stake
  BY <1>4, <1>6, OrderFacts DEF Cost
<1>8. Row(t) /\ t.st = "open" /\ ~HasOpenOrder(t) /\ Len(t.orders) < MaxOrders
  BY DEF Base, Enter
<1>9. PICK u : u = Placed(t, o)
  OBVIOUS
<1>10. /\ Row(u) /\ u.st = "open" /\ u.realized = t.realized
       /\ Position(u.orders).profit = Position(t.orders).profit
       /\ u.stake = t.stake \/ u.stake = Cost(o) + IF HasFilled(t) THEN t.stake ELSE 0
  BY <1>4, <1>6, <1>8, <1>9, PlacedEntry
<1>11. trades' = [trades EXCEPT ![id] = u] /\ wallet' = UpdateDry(trades')
  BY <1>5, <1>9 DEF Enter
<1>12. /\ Account' /\ trades'[id] = u /\ \A j \in Ids : j # id => trades'[j] = trades[j]
       /\ Typable(trades')
  BY <1>10, <1>11, RowChanges
<1>13. ASSUME MinCost # Unset PROVE WithinBudget
  <2>1. stake > 0 /\ t.stake \in Int /\ u.stake \in Int /\ t.realized \in Int
    BY <1>4, <1>8, <1>10, <1>13, RowTyped
  <2>2. /\ TiedUp(trades') = TiedUp(trades) - StakeOf(trades[id]) + StakeOf(u)
        /\ ClosedProfit(trades') = ClosedProfit(trades) - ProfitOf(trades[id]) + ProfitOf(u)
        /\ SumFunctionOnSet(RealizedsOf(trades'), Ids)
             = SumFunctionOnSet(RealizedsOf(trades), Ids) - RealizedOf(trades[id]) + RealizedOf(u)
    BY <1>1, <1>12, SumsOfOneTrade
  <2>3. /\ StakeOf(u) = u.stake /\ ProfitOf(u) = 0 /\ RealizedOf(u) = t.realized
    BY <1>10 DEF StakeOf, ProfitOf, RealizedOf
  <2>4. /\ u.stake <= StakeOf(trades[id]) + stake /\ StakeOf(trades[id]) \in Int
        /\ ProfitOf(trades[id]) = 0 /\ RealizedOf(trades[id]) = t.realized
        /\ trades[id].st # "closed"
        /\ trades[id].st = "open" => t = trades[id]
        /\ trades[id].st # "open" => t.realized = Position(t.orders).profit
    <3>1. CASE t = trades[id] /\ HasFilled(t)
      <4>1. StakeOf(trades[id]) = t.stake
        BY <1>8, <3>1 DEF StakeOf
      <4>2. u.stake <= t.stake + stake
        BY <1>4, <1>7, <1>10, <2>1, <3>1
      <4>3. ProfitOf(trades[id]) = 0 /\ RealizedOf(trades[id]) = t.realized
        BY <1>8, <3>1 DEF ProfitOf, RealizedOf
      <4> QED
        BY <1>8, <2>1, <3>1, <4>1, <4>2, <4>3
    <3>2. CASE trades[id] = NoTrade /\ t = Opened(stake)
      <4>1. trades[id].st = "none" /\ NoTrade.orders = <<>>
        BY <3>2 DEF NoTrade
      <4>2. /\ t.stake = stake /\ t.realized = 0 /\ t.orders = <<>>
        BY <1>4, <3>2, RowOfOpened
      <4>3. ~HasFilled(t) /\ Position(t.orders) = NoPosition
        BY <4>2, WithoutOrders
      <4>4. Position(t.orders).profit = 0
        BY <4>3 DEF NoPosition
      <4>5. StakeOf(trades[id]) = 0 /\ ProfitOf(trades[id]) = 0 /\ RealizedOf(trades[id]) = 0
        BY <4>1 DEF StakeOf, ProfitOf, RealizedOf
      <4>6. u.stake <= stake
        BY <1>4, <1>7, <1>10, <4>2, <4>3
      <4> QED
        BY <1>4, <2>1, <4>1, <4>2, <4>4, <4>5, <4>6
    <3> QED
      BY <3>1, <3>2 DEF Base
  <2>5. /\ TiedUp(trades) \in Int /\ ClosedProfit(trades) \in Int
        /\ SumFunctionOnSet(RealizedsOf(trades), Ids) \in Int
        /\ UpdateDry(trades) = Capital + ClosedProfit(trades)
                                 + SumFunctionOnSet(RealizedsOf(trades), Ids) - TiedUp(trades)
        /\ UpdateDry(trades') = Capital + ClosedProfit(trades')
                                  + SumFunctionOnSet(RealizedsOf(trades'), Ids) - TiedUp(trades')
        /\ Capital \in Int
    <3>1. Capital \in Int
      BY WalletsAssumption
    <3> QED
      BY <1>1, <1>12, <3>1, AccountSums
  <2>6. /\ TiedUp(trades') \in Int /\ TiedUp(trades') <= TiedUp(trades) + stake
        /\ ClosedProfit(trades') = ClosedProfit(trades)
        /\ UpdateDry(trades') \in Int
        /\ UpdateDry(trades') + TiedUp(trades') = free + TiedUp(trades)
    BY <1>2, <1>4, <2>1, <2>2, <2>3, <2>4, <2>5
  <2>7. TotalStake(trades', UpdateDry(trades')) = TotalStake(trades, free)
    <3>1. TiedUp(trades') + UpdateDry(trades') = TiedUp(trades) + free
      BY <1>3, <2>5, <2>6
    <3> QED
      BY <2>6, <3>1 DEF TotalStake
  <2>8. /\ TotalStake(trades, free) \in Int /\ Available(trades, free) \in Int
        /\ Available(trades, free) <= TotalStake(trades, free) - TiedUp(trades)
        /\ Available(trades, free) <= free
    BY <1>1, <1>3, AvailableFacts
  <2>9. TiedUp(trades') <= TotalStake(trades', UpdateDry(trades')) /\ UpdateDry(trades') >= 0
    BY <1>3, <1>4, <2>5, <2>6, <2>7, <2>8
  <2>10. StaleAt(trades') = StaleAt(trades)
    <3>1. ASSUME NEW j \in Ids PROVE j \in StaleAt(trades') <=> j \in StaleAt(trades)
      <4>1. CASE j # id
        BY <1>12, <4>1 DEF StaleAt, OpenIds
      <4>2. CASE j = id
        <5>1. j \in StaleAt(trades') <=> Position(t.orders).profit # t.realized
          BY <1>10, <1>12, <4>2 DEF StaleAt, OpenIds
        <5>2. CASE trades[id].st = "open"
          BY <2>4, <4>2, <5>1, <5>2 DEF StaleAt, OpenIds
        <5>3. CASE trades[id].st # "open"
          BY <2>4, <4>2, <5>1, <5>3 DEF StaleAt, OpenIds
        <5> QED
          BY <5>2, <5>3
      <4> QED
        BY <4>1, <4>2
    <3>2. StaleAt(trades) \in SUBSET Ids /\ StaleAt(trades') \in SUBSET Ids
      BY DEF StaleAt, OpenIds
    <3> QED
      BY <3>1, <3>2
  <2>11. BoughtByClosed(trades') = BoughtByClosed(trades)
    <3>1. ClosedIds(trades') = ClosedIds(trades)
      BY <1>10, <1>12, <2>4 DEF ClosedIds
    <3>2. /\ ClosedIds(trades) \in SUBSET Ids
          /\ \A j \in ClosedIds(trades) : trades'[j] = trades[j]
      BY <1>12, <2>4 DEF ClosedIds
    <3> DEFINE g == [j \in Ids |-> Bought(trades'[j])]
               h == [j \in Ids |-> Bought(trades[j])]
    <3>3. \A j \in ClosedIds(trades) : g[j] = h[j]
      BY <3>2
    <3>4. IsFiniteSet(ClosedIds(trades))
      BY <3>2, IdsFinite, FS_Subset
    <3>5. /\ BoughtByClosed(trades') = SumFunctionOnSet(g, ClosedIds(trades))
          /\ BoughtByClosed(trades) = SumFunctionOnSet(h, ClosedIds(trades))
      BY <3>1 DEF BoughtByClosed
    <3> HIDE DEF g, h
    <3> QED
      BY <3>3, <3>4, <3>5, SumSame
  <2> QED
    BY <2>9, <2>10, <2>11 DEF WithinBudget
<1> QED
  BY <1>12, <1>13

\* Two trades have another number of orders only if the step placed an order on the first.
OnlyEntry(P) ==
    \A i \in Ids :
      Len(trades'[i].orders) > Len(trades[i].orders) /\ Last(trades'[i].orders).entry => P

LEMMA FreeIdFacts ==
    ASSUME CanOpen, Rows(trades)
    PROVE  FreeId \in Ids /\ trades[FreeId] = NoTrade
<1> DEFINE S == {i \in Ids : trades[i].st = "none"}
<1>1. S \in SUBSET Nat /\ S # {}
  BY WalletsAssumption DEF CanOpen, Ids
<1>2. PICK n \in S : \A m \in S : n <= m
  <2> HIDE DEF S
  <2> QED
    BY <1>1, SmallestExists
<1>3. FreeId \in S
  <2>1. FreeId = CHOOSE k \in S : \A m \in S : k <= m
    BY DEF FreeId, Min
  <2> HIDE DEF S
  <2> QED
    BY <1>2, <2>1
<1> QED
  BY <1>3 DEF Rows, Row

LEMMA BaseOfNew ==
    ASSUME Account, CanOpen, NEW stake \in Int, MinCost # Unset => stake > 0
    PROVE  FreeId \in Ids /\ Base(FreeId, Opened(stake), stake)
<1>1. FreeId \in Ids /\ trades[FreeId] = NoTrade
  BY FreeIdFacts DEF Account
<1>2. PICK t : t = Opened(stake)
  OBVIOUS
<1>3. Row(t) /\ t.st = "open" /\ t.orders = <<>>
  BY <1>2, RowOfOpened
<1>4. ~HasOpenOrder(t)
  BY <1>3, WithoutOrders
<1> QED
  BY <1>1, <1>2, <1>3, <1>4 DEF Base

\* What every step does: it keeps the invariant, and an entry keeps within the budget.
Keeps == Account' /\ (MinCost # Unset => OnlyEntry(WithinBudget))

LEMMA StakesAsked ==
    ASSUME Account
    PROVE  /\ Asks \in SUBSET Int /\ UpdateDry(trades) \in Int
           /\ \A s \in Int : Asks \cup {s} \in SUBSET Int
           /\ TradeStake(trades, UpdateDry(trades)) \in Nat \cup {Unset}
<1>1. config \in Config /\ Typable(trades)
  BY RowsTypable DEF Account
<1>2. UpdateDry(trades) \in Int
  BY <1>1, AccountSums
<1>3. TradeStake(trades, UpdateDry(trades)) \in Nat \cup {Unset}
  BY <1>1, <1>2, AvailableFacts
<1> QED
  BY <1>2, <1>3, WalletsAssumption

LEMMA StakesTyped ==
    ASSUME Account, NEW tied \in Int, NEW asks \in SUBSET Int, NEW price \in Prices,
           NEW stake \in Stakes(asks, tied, price, UpdateDry(trades))
    PROVE  stake \in Int /\ (MinCost # Unset => stake > 0)
<1>1. config \in Config /\ Typable(trades) /\ UpdateDry(trades) \in Int
  BY RowsTypable, StakesAsked DEF Account
<1> QED
  BY <1>1, StakeFacts

LEMMA CreateTradeFacts == ASSUME Account, CreateTrade PROVE Keeps
<1>1. PICK proposed : proposed = TradeStake(trades, UpdateDry(trades))
  OBVIOUS
<1>2. /\ CanOpen /\ proposed # Unset /\ UNCHANGED <<config, forced>>
      /\ \E price \in Prices :
           \E stake \in Stakes(Asks \cup {proposed}, 0, price, UpdateDry(trades)) :
             Enter(FreeId, Opened(stake), stake, price)
  BY <1>1 DEF CreateTrade
<1>3. PICK price \in Prices :
        \E stake \in Stakes(Asks \cup {proposed}, 0, price, UpdateDry(trades)) :
          Enter(FreeId, Opened(stake), stake, price)
  BY <1>2
<1>31. PICK stake \in Stakes(Asks \cup {proposed}, 0, price, UpdateDry(trades)) :
         Enter(FreeId, Opened(stake), stake, price)
  BY <1>3
<1>4. proposed \in Int
  BY <1>1, <1>2, StakesAsked
<1>5. Asks \cup {proposed} \in SUBSET Int /\ 0 \in Int
  BY <1>4, StakesAsked
<1>6. stake \in Int /\ (MinCost # Unset => stake > 0)
  BY <1>31, <1>5, StakesTyped
<1>7. FreeId \in Ids /\ Base(FreeId, Opened(stake), stake)
  BY <1>2, <1>6, BaseOfNew
<1>8. config' = config /\ forced' \in Nat \cup {Unset}
  BY <1>2 DEF Account
<1>9. Account' /\ (MinCost # Unset => WithinBudget)
  BY <1>31, <1>5, <1>7, <1>8, EnterFacts
<1> QED
  BY <1>9 DEF Keeps, OnlyEntry

LEMMA ForceEntryFacts == ASSUME Account, ForceEntry PROVE Keeps
<1>1. config' = config /\ forced' = Unset /\ forced # Unset
  BY DEF ForceEntry
<1>2. CASE UNCHANGED <<trades, wallet>>
  <2>1. Account'
    BY <1>1, <1>2 DEF Account
  <2>2. ASSUME NEW i \in Ids PROVE ~(Len(trades'[i].orders) > Len(trades[i].orders))
    <3>1. Len(trades[i].orders) \in Nat /\ trades' = trades
      BY <1>2, RowTyped DEF Account, Rows
    <3> QED
      BY <3>1
  <2> QED
    BY <2>1, <2>2 DEF Keeps, OnlyEntry
<1>3. CASE CanOpen /\ \E price \in Prices :
                        \E stake \in Stakes(Asks \cup {forced}, 0, price, wallet) :
                          Enter(FreeId, Opened(stake), stake, price)
  <2>1. wallet = UpdateDry(trades) /\ forced \in Int
    BY <1>1 DEF Account
  <2>2. PICK price \in Prices :
          \E stake \in Stakes(Asks \cup {forced}, 0, price, UpdateDry(trades)) :
            Enter(FreeId, Opened(stake), stake, price)
    BY <1>3, <2>1
  <2>21. PICK stake \in Stakes(Asks \cup {forced}, 0, price, UpdateDry(trades)) :
           Enter(FreeId, Opened(stake), stake, price)
    BY <2>2
  <2>3. Asks \cup {forced} \in SUBSET Int /\ 0 \in Int
    BY <2>1, StakesAsked
  <2>4. stake \in Int /\ (MinCost # Unset => stake > 0)
    BY <2>21, <2>3, StakesTyped
  <2>5. FreeId \in Ids /\ Base(FreeId, Opened(stake), stake)
    BY <1>3, <2>4, BaseOfNew
  <2>6. Account' /\ (MinCost # Unset => WithinBudget)
    BY <1>1, <2>21, <2>3, <2>5, EnterFacts
  <2> QED
    BY <2>6 DEF Keeps, OnlyEntry
<1> QED
  BY <1>2, <1>3 DEF ForceEntry

LEMMA AddToPositionFacts == ASSUME Account, NEW i \in Ids, AddToPosition(i) PROVE Keeps
<1>1. /\ trades[i].st = "open" /\ HasFilled(trades[i]) /\ ~HasOpenOrder(trades[i])
      /\ UNCHANGED <<config, forced>>
      /\ \E price \in Prices : \E stake \in Stakes(Asks, trades[i].stake, price, wallet) :
           Enter(i, trades[i], stake, price)
  BY DEF AddToPosition
<1>2. wallet = UpdateDry(trades) /\ Row(trades[i])
  BY DEF Account, Rows
<1>3. PICK price \in Prices :
        \E stake \in Stakes(Asks, trades[i].stake, price, UpdateDry(trades)) :
          Enter(i, trades[i], stake, price)
  BY <1>1, <1>2
<1>31. PICK stake \in Stakes(Asks, trades[i].stake, price, UpdateDry(trades)) :
         Enter(i, trades[i], stake, price)
  BY <1>3
<1>4. Asks \in SUBSET Int /\ trades[i].stake \in Int
  BY <1>2, StakesAsked, RowTyped
<1>5. Base(i, trades[i], stake)
  BY <1>1, <1>2 DEF Base
<1>6. config' = config /\ forced' \in Nat \cup {Unset}
  BY <1>1 DEF Account
<1>7. Account' /\ (MinCost # Unset => WithinBudget)
  BY <1>31, <1>4, <1>5, <1>6, EnterFacts
<1> QED
  BY <1>7 DEF Keeps, OnlyEntry

\* A step that changes one row and places no entry.
LEMMA NoEntry ==
    ASSUME Account, NEW i \in Ids, \A j \in Ids : j # i => trades'[j] = trades[j], Account',
           Len(trades'[i].orders) > Len(trades[i].orders) => ~Last(trades'[i].orders).entry
    PROVE  Keeps
<1>1. ASSUME NEW j \in Ids, Len(trades'[j].orders) > Len(trades[j].orders)
      PROVE  ~Last(trades'[j].orders).entry
  <2>1. Len(trades[j].orders) \in Nat
    BY RowTyped DEF Account, Rows
  <2> QED
    BY <1>1, <2>1
<1> QED
  BY <1>1 DEF Keeps, OnlyEntry

LEMMA ForceEntryStakeFacts == ASSUME Account, ForceEntryStake PROVE Keeps
<1>1. /\ trades' = trades /\ config' = config /\ wallet' = UpdateDry(trades)
      /\ forced' = TradeStake(trades, wallet')
  BY DEF ForceEntryStake
<1>2. Account'
  BY <1>1, StakesAsked DEF Account
<1>3. ASSUME NEW i \in Ids PROVE ~(Len(trades'[i].orders) > Len(trades[i].orders))
  <2>1. Len(trades[i].orders) \in Nat
    BY RowTyped DEF Account, Rows
  <2> QED
    BY <1>1, <2>1
<1> QED
  BY <1>2, <1>3 DEF Keeps, OnlyEntry

LEMMA PlaceExitFacts == ASSUME Account, NEW i \in Ids, PlaceExit(i) PROVE Keeps
<1>1. PICK price \in Prices, lots \in 1 .. trades[i].amount :
        trades' = [trades EXCEPT ![i] = Placed(@, Order(FALSE, lots, price))]
  BY DEF PlaceExit
<1>2. PICK t : t = trades[i]
  OBVIOUS
<1>3. /\ Row(t) /\ t.st = "open" /\ HasFilled(t) /\ ~HasOpenOrder(t) /\ Len(t.orders) < MaxOrders
      /\ config \in Config /\ t.amount \in Nat
  BY <1>2, RowTyped DEF PlaceExit, Account, Rows
<1>4. PICK o : o = Order(FALSE, lots, price)
  OBVIOUS
<1>5. /\ o \in OrderType /\ ~o.entry /\ o.lots \in 1 .. t.amount /\ o.st \in {"open", "closed"}
  <2>1. lots \in Int
    BY <1>2, <1>3
  <2>2. o \in OrderType /\ o.entry = FALSE /\ o.lots = lots /\ o.st \in {"open", "closed"}
    <3>1. config \in Config /\ FALSE \in BOOLEAN /\ price \in Prices
      BY <1>3
    <3> QED
      BY <1>4, <2>1, <3>1, OrderTyped
  <2> QED
    BY <1>2, <2>2
<1>6. PICK u : u = Placed(t, o)
  OBVIOUS
<1>7. Row(u) /\ u.orders = Append(t.orders, o)
  BY <1>3, <1>5, <1>6, PlacedExit
<1>8. trades' = [trades EXCEPT ![i] = u]
  BY <1>1, <1>2, <1>4, <1>6
<1>9. wallet' = UpdateDry(trades') /\ config' = config /\ forced' \in Nat \cup {Unset}
  BY DEF PlaceExit, Account
<1>10. Account' /\ trades'[i] = u /\ \A j \in Ids : j # i => trades'[j] = trades[j]
  BY <1>7, <1>8, <1>9, RowChanges
<1>11. ~Last(trades'[i].orders).entry
  <2>1. t.orders \in Seq(OrderType)
    BY <1>3, RowTyped
  <2>2. Last(Append(t.orders, o)) = o
    BY <1>5, <2>1 DEF Last
  <2> QED
    BY <1>5, <1>7, <1>10, <2>2
<1> QED
  BY <1>10, <1>11, NoEntry

\* The end of an open order.
LEMMA WithLastIsMore ==
    ASSUME NEW t, Row(t), HasOpenOrder(t), NEW st \in {"closed", "canceled"}
    PROVE  LET o == [Last(t.orders) EXCEPT !.st = st]
               v == WithLast(t, st)
           IN  /\ More(t, v, o) /\ t.st = "open" /\ Len(v.orders) = Len(t.orders)
               /\ o.st = st /\ o.lots = Last(t.orders).lots /\ o.entry = Last(t.orders).entry
<1>1. /\ t \in TradeRow /\ t.orders \in Seq(OrderType) /\ Len(t.orders) \in Nat
      /\ DOMAIN t.orders = 1 .. Len(t.orders)
  BY RowTyped
<1>2. PICK s : s = t.orders
  OBVIOUS
<1>3. PICK k \in DOMAIN s : s[k].st = "open"
  BY <1>2 DEF HasOpenOrder
<1>4. k = Len(s)
  BY <1>2, <1>3 DEF Row, Ordered
<1>5. /\ s \in Seq(OrderType) /\ s # <<>> /\ s[Len(s)].st = "open"
      /\ ~s[Len(s)].entry => HasFilled(t) /\ s[Len(s)].lots \in 1 .. t.amount
      /\ MinCost # Unset => s[Len(s)].lots > 0
      /\ Len(s) <= MaxOrders
  <2>1. s # <<>>
    BY <1>3
  <2> QED
    BY <1>1, <1>2, <1>3, <1>4, <2>1 DEF Row, Ordered
<1>6. PICK r : r = [s EXCEPT ![Len(s)].st = st]
  OBVIOUS
<1>7. PICK o : o = [s[Len(s)] EXCEPT !.st = st]
  OBVIOUS
<1>8. /\ OneMore(s, r, o) /\ r \in Seq(OrderType) /\ Len(r) = Len(s) /\ o \in OrderType
      /\ o.st = st /\ o.lots = s[Len(s)].lots /\ o.entry = s[Len(s)].entry
  BY <1>5, <1>6, <1>7, EndedIsMore
<1>9. PICK v : v = WithLast(t, st)
  OBVIOUS
<1>10. v = [t EXCEPT !.orders = r] /\ v.orders = r
  BY <1>1, <1>2, <1>6, <1>9 DEF WithLast, TradeRow
<1>11. More(t, v, o)
  BY <1>2, <1>5, <1>8, <1>10 DEF More
<1>12. t.st = "open"
  <2>1. t.st # "none"
    <3>1. NoTrade.orders = <<>>
      BY DEF NoTrade
    <3> QED
      BY <1>2, <1>5, <3>1 DEF Row
  <2>2. t.st # "closed"
    BY DEF Row, Settled
  <2> QED
    BY <1>1, <2>1, <2>2 DEF TradeRow
<1>13. Last(t.orders) = s[Len(s)]
  BY <1>2 DEF Last
<1> QED
  BY <1>2, <1>7, <1>8, <1>9, <1>10, <1>11, <1>12, <1>13

\* The booking looks at the side and the amount of the order only.
LEMMA UpdateLooksAt ==
    ASSUME NEW v, NEW o, NEW q, o.entry = q.entry, o.lots = q.lots
    PROVE  UpdateTrade(v, o) = UpdateTrade(v, q)
BY DEF UpdateTrade

LEMMA FillOrderFacts == ASSUME Account, NEW i \in Ids, FillOrder(i) PROVE Keeps
<1>1. PICK t : t = trades[i]
  OBVIOUS
<1>2. Row(t) /\ HasOpenOrder(t)
  BY <1>1 DEF FillOrder, Account, Rows
<1>3. PICK v : v = WithLast(t, "closed")
  OBVIOUS
<1>4. PICK o : o = [Last(t.orders) EXCEPT !.st = "closed"]
  OBVIOUS
<1>5. /\ More(t, v, o) /\ t.st = "open" /\ Len(v.orders) = Len(t.orders)
      /\ o.st = "closed" /\ o.lots = Last(t.orders).lots /\ o.entry = Last(t.orders).entry
  BY <1>2, <1>3, <1>4, WithLastIsMore
<1>6. PICK u : u = UpdateTrade(v, o)
  OBVIOUS
<1>7. trades' = [trades EXCEPT ![i] = u]
  <2>1. u = UpdateTrade(v, Last(t.orders))
    BY <1>5, <1>6, UpdateLooksAt
  <2> QED
    BY <1>1, <1>3, <2>1 DEF FillOrder
<1>8. Row(u) /\ u.orders = v.orders
  <2>1. CASE ~Filled(o)
    BY <1>2, <1>5, <1>6, <2>1, BookedNothing
  <2>2. CASE Filled(o) /\ o.entry
    BY <1>2, <1>5, <1>6, <2>2, BookedEntry
  <2>3. CASE Filled(o) /\ ~o.entry
    BY <1>2, <1>5, <1>6, <2>3, BookedExit
  <2> QED
    BY <2>1, <2>2, <2>3
<1>9. wallet' = UpdateDry(trades') /\ config' = config /\ forced' \in Nat \cup {Unset}
  BY DEF FillOrder, Account
<1>10. Account' /\ trades'[i] = u /\ \A j \in Ids : j # i => trades'[j] = trades[j]
  BY <1>7, <1>8, <1>9, RowChanges
<1>11. ~(Len(trades'[i].orders) > Len(trades[i].orders))
  <2>1. Len(t.orders) \in Nat
    BY <1>2, RowTyped
  <2> QED
    BY <1>1, <1>5, <1>8, <1>10, <2>1
<1> QED
  BY <1>10, <1>11, NoEntry

LEMMA CancelFacts == ASSUME Account, NEW i \in Ids, Cancel(i) PROVE Keeps
<1>1. PICK t : t = trades[i]
  OBVIOUS
<1>2. Row(t) /\ HasOpenOrder(t) /\ config' = config /\ forced' \in Nat \cup {Unset}
  BY <1>1 DEF Cancel, Account, Rows
<1>3. PICK v : v = WithLast(t, "canceled")
  OBVIOUS
<1>4. PICK o : o = [Last(t.orders) EXCEPT !.st = "canceled"]
  OBVIOUS
<1>5. /\ More(t, v, o) /\ t.st = "open" /\ Len(v.orders) = Len(t.orders)
      /\ o.st = "canceled" /\ o.lots = Last(t.orders).lots /\ o.entry = Last(t.orders).entry
  BY <1>2, <1>3, <1>4, WithLastIsMore
<1>6. Row(v) /\ v.st = t.st /\ v.stake = t.stake /\ v.realized = t.realized
  <2>1. ~Filled(o)
    BY <1>5 DEF Filled
  <2> QED
    BY <1>2, <1>5, <2>1, UnfilledMore, FieldsOfMore
<1>7. PICK u : u = IF HasFilled(t) THEN v ELSE NoTrade
  OBVIOUS
<1>8. trades' = [trades EXCEPT ![i] = u]
  BY <1>1, <1>3, <1>7 DEF Cancel
<1>9. Row(u) /\ Len(u.orders) <= Len(t.orders)
  <2>1. Len(NoTrade.orders) = 0 /\ Len(t.orders) \in Nat
    BY <1>2, RowTyped DEF NoTrade
  <2> QED
    BY <1>5, <1>6, <1>7, <2>1, RowOfNoTrade
<1>10. Typable(trades) /\ Typable(trades') /\ trades'[i] = u /\ \A j \in Ids : j # i => trades'[j] = trades[j]
  <2>1. Typable(trades)
    BY RowsTypable DEF Account
  <2>2. u \in TradeRow
    BY <1>9, RowTyped
  <2> QED
    BY <1>8, <2>1, <2>2 DEF Typable
<1>11. wallet' = UpdateDry(trades')
  <2>1. CASE o.entry
    BY <1>1, <1>5, <2>1 DEF Cancel
  <2>2. CASE ~o.entry
    <3>1. wallet' = UpdateDry(trades) /\ u = v
      BY <1>1, <1>5, <1>7, <2>2 DEF Cancel, Account, More
    <3>2. /\ StakeOf(trades'[i]) = StakeOf(t) /\ ProfitOf(trades'[i]) = ProfitOf(t)
          /\ RealizedOf(trades'[i]) = RealizedOf(t)
      BY <1>5, <1>6, <1>10, <3>1 DEF StakeOf, ProfitOf, RealizedOf
    <3>3. /\ TiedUp(trades') = TiedUp(trades) - StakeOf(t) + StakeOf(trades'[i])
          /\ ClosedProfit(trades') = ClosedProfit(trades) - ProfitOf(t) + ProfitOf(trades'[i])
          /\ SumFunctionOnSet(RealizedsOf(trades'), Ids)
               = SumFunctionOnSet(RealizedsOf(trades), Ids) - RealizedOf(t) + RealizedOf(trades'[i])
      BY <1>1, <1>10, SumsOfOneTrade
    <3>4. StakeOf(t) \in Int /\ ProfitOf(t) \in Int /\ RealizedOf(t) \in Int
      BY <1>1, <1>10, AccountSums
    <3>5. /\ TiedUp(trades) \in Int /\ ClosedProfit(trades) \in Int
          /\ SumFunctionOnSet(RealizedsOf(trades), Ids) \in Int
      BY <1>10, AccountSums
    <3>6. /\ TiedUp(trades') = TiedUp(trades) /\ ClosedProfit(trades') = ClosedProfit(trades)
          /\ SumFunctionOnSet(RealizedsOf(trades'), Ids) = SumFunctionOnSet(RealizedsOf(trades), Ids)
      BY <3>2, <3>3, <3>4, <3>5
    <3>7. UpdateDry(trades') = UpdateDry(trades)
      BY <1>10, <3>6, AccountSums
    <3> QED
      BY <3>1, <3>7
  <2> QED
    BY <2>1, <2>2
<1>12. Account'
  BY <1>2, <1>8, <1>9, <1>11, RowChanges
<1>13. ~(Len(trades'[i].orders) > Len(trades[i].orders))
  <2>1. Len(t.orders) \in Nat /\ Len(u.orders) \in Nat
    BY <1>2, <1>9, RowTyped
  <2> QED
    BY <1>1, <1>9, <1>10, <2>1
<1> QED
  BY <1>10, <1>12, <1>13, NoEntry

LEMMA AccountStep == ASSUME Account, [WNext]_wvars PROVE Account' /\ (~UNCHANGED wvars => Keeps)
<1>1. CASE UNCHANGED wvars
  BY <1>1 DEF wvars, Account
<1>2. CASE WNext
  <2>1. ASSUME NEW i \in Ids, AddToPosition(i) \/ PlaceExit(i) \/ FillOrder(i) \/ Cancel(i)
        PROVE  Keeps
    BY <2>1, AddToPositionFacts, PlaceExitFacts, FillOrderFacts, CancelFacts
  <2>2. Keeps
    BY <1>2, <2>1, CreateTradeFacts, ForceEntryStakeFacts, ForceEntryFacts DEF WNext
  <2> QED
    BY <2>2 DEF Keeps
<1> QED
  BY <1>1, <1>2

LEMMA AccountInit == ASSUME WInit PROVE Account
<1>1. /\ trades = [i \in Ids |-> NoTrade] /\ wallet = Capital /\ config \in Config /\ forced = Unset
  BY DEF WInit
<1>2. Rows(trades)
  BY <1>1, RowOfNoTrade DEF Rows
<1>3. Typable(trades)
  BY <1>2, RowsTypable
<1>4. \A i \in Ids : trades[i].st = "none"
  BY <1>1 DEF NoTrade
<1>5. OpenIds(trades) = {} /\ ClosedIds(trades) = {}
  BY <1>4 DEF OpenIds, ClosedIds
<1>6. TiedUp(trades) = 0 /\ ClosedProfit(trades) = 0
  BY <1>5, SumOfNothing DEF TiedUp, ClosedProfit
<1>7. SumFunctionOnSet([i \in Ids |-> trades[i].realized], OpenIds(trades)) = 0
  BY <1>5, SumOfNothing
<1>8. UpdateDry(trades) = Capital
  <2>1. Capital \in Int
    BY WalletsAssumption
  <2> QED
    BY <1>6, <1>7, <2>1 DEF UpdateDry
<1> QED
  BY <1>1, <1>2, <1>8 DEF Account

LEMMA AccountAlways == WSpec => []Account
<1>1. WInit => Account
  BY AccountInit
<1>2. Account /\ [WNext]_wvars => Account'
  BY AccountStep
<1> QED
  BY <1>1, <1>2, PTL DEF WSpec

-----------------------------------------------------------------------------
(* The properties.                                                             *)

\* The variables of the account always have their types, and a trade that was given up
\* has no figures (handle_cancel_enter deletes its row).
THEOREM AccountTyped == WSpec => []AccountTypeOK
<1>1. ASSUME Account PROVE AccountTypeOK
  <2>1. ASSUME NEW i \in Ids
        PROVE  /\ trades[i].st \in {"none", "open", "closed"}
               /\ trades[i].amount \in Nat
               /\ {trades[i].stake, trades[i].realized, trades[i].profit} \subseteq Int
               /\ Len(trades[i].orders) <= MaxOrders
               /\ \A k \in DOMAIN trades[i].orders : trades[i].orders[k] \in OrderType
               /\ trades[i].st = "none" => trades[i] = NoTrade
    <3>1. Row(trades[i])
      BY <1>1 DEF Account, Rows
    <3>2. trades[i] \in TradeRow /\ Typed(trades[i].orders)
      BY <3>1, RowTyped
    <3> QED
      BY <3>1, <3>2 DEF TradeRow, Typed, Row, Ordered
  <2>2. wallet \in Int
    BY <1>1, RowsTypable, AccountSums DEF Account
  <2> QED
    BY <1>1, <2>1, <2>2 DEF AccountTypeOK, Account
<1> QED
  BY <1>1, AccountAlways, PTL

\* The profit that Close writes, averaged over any entries and partial exits, is what the
\* trade's fills brought in less what they cost, to less than one unit for each lot.
THEOREM ProfitAlwaysCash == WSpec => []ProfitIsCash
<1>1. ASSUME Account PROVE ProfitIsCash
  <2>1. ASSUME NEW i \in ClosedIds(trades)
        PROVE  /\ 0 <= trades[i].profit - CashFlow(trades[i])
               /\ trades[i].profit - CashFlow(trades[i]) < Bought(trades[i])
    <3>1. i \in Ids /\ trades[i].st = "closed" /\ Row(trades[i])
      BY <1>1 DEF ClosedIds, Account, Rows
    <3> QED
      BY <3>1, RowBalance
  <2> QED
    BY <2>1 DEF ProfitIsCash
<1> QED
  BY <1>1, AccountAlways, PTL

\* The free stake currency that _update_dry computes is always the money that the fills left,
\* less the stakes that wait, up to what recalc_trade_from_orders got wrong.
THEOREM WalletAlwaysExplained == WSpec => []WalletExplained
<1>1. ASSUME Account PROVE WalletExplained
  <2>1. /\ 0 <= UpdateDry(trades) - (CashOf(trades) - Waited(trades) + Stale(trades))
        /\ UpdateDry(trades) - (CashOf(trades) - Waited(trades) + Stale(trades))
             <= BoughtByClosed(trades)
    BY <1>1, Explained DEF Account
  <2>2. wallet = UpdateDry(trades)
    BY <1>1 DEF Account
  <2> QED
    BY <2>1, <2>2, Zenon DEF WalletExplained, CashOf, Cash, Waited, Stale, StaleAt, StaleIds
<1> QED
  BY <1>1, AccountAlways, PTL

\* With a minimum of the exchange, every order that is ever placed has an amount.
THEOREM OrdersAlwaysBuy == WSpec => []OrdersBuy
<1>1. ASSUME Account PROVE OrdersBuy
  BY <1>1 DEF OrdersBuy, Account, Rows, Row, Ordered
<1> QED
  BY <1>1, AccountAlways, PTL

\* Every entry, also one forced beside the bot with a stake computed before the lock, leaves
\* what is tied up within the tradable balance, and is paid from money that is there.
THEOREM EntriesAlwaysWithinBudget == WSpec => EntriesWithinBudget
<1>1. ASSUME Account, [WNext]_wvars PROVE [EntersWithinBudget]_wvars
  <2>1. Account' /\ (~UNCHANGED wvars => Keeps)
    BY <1>1, AccountStep
  <2>2. SUFFICES ASSUME ~UNCHANGED wvars, MinCost # Unset, NEW i \in Ids,
                        Len(trades'[i].orders) > Len(trades[i].orders),
                        Last(trades'[i].orders).entry
                 PROVE  /\ TiedUp(trades') <= TotalStake(trades', UpdateDry(trades'))
                        /\ StaleIds = {} => Cash' + BoughtByClosed(trades) >= 0
    BY DEF EntersWithinBudget
  <2>3. WithinBudget
    BY <2>1, <2>2 DEF Keeps, OnlyEntry
  <2>4. ASSUME StaleIds = {} PROVE Cash' + BoughtByClosed(trades) >= 0
    <3>1. StaleAt(trades') = {}
      BY <2>3, <2>4 DEF WithinBudget, StaleAt, StaleIds
    <3>2. /\ CashOf(trades') \in Int /\ Waited(trades') \in Nat /\ Stale(trades') = 0
          /\ BoughtByClosed(trades') \in Nat
          /\ UpdateDry(trades') - (CashOf(trades') - Waited(trades') + Stale(trades'))
               <= BoughtByClosed(trades')
      <4>1. Rows(trades')
        BY <2>1 DEF Account
      <4> QED
        BY <2>2, <3>1, <4>1, Explained
    <3>3. UpdateDry(trades') \in Int
      <4>1. Typable(trades')
        BY <2>1, RowsTypable DEF Account
      <4> QED
        BY <4>1, AccountSums
    <3>4. UpdateDry(trades') >= 0 /\ BoughtByClosed(trades') = BoughtByClosed(trades)
      BY <2>3 DEF WithinBudget
    <3>5. CashOf(trades') + BoughtByClosed(trades) >= 0
      BY <3>2, <3>3, <3>4
    <3> QED
      BY <3>5, Zenon DEF CashOf, Cash
  <2> QED
    BY <2>3, <2>4 DEF WithinBudget
<1> QED
  BY <1>1, AccountAlways, PTL DEF WSpec, EntriesWithinBudget

=============================================================================
