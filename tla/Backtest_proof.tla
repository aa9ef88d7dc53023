--------------------------- MODULE Backtest_proof ---------------------------
(***************************************************************************)
(* Proofs about Backtest, for any pairs, candles, limits and amounts: the  *)
(* counter of open trades is exact, and with it the simulation implements  *)
(* TradeSlots.                                                             *)
(***************************************************************************)
EXTENDS Backtest, FiniteSetTheorems, SequenceTheorems, WellFoundedInduction, TLAPS

-----------------------------------------------------------------------------
(* The inductive invariant *)

\* Fields of a trade and of a visit.
Fields == {"pair", "dir", "st", "amount", "entries", "bought", "orders"}
VisitFields == {"pc", "pair", "dir", "exiting", "again", "rest"}

\* What TradeSlots calls held.
Slot(i) == [id |-> i, pair |-> trades[i].pair]
Held == {Slot(i) : i \in Open}

\* A side of the market, or none.
Sides == Directions \cup {"none"}

\* An open trade has a pair and a direction.
Tagged(t) ==
    /\ t.st \in {"none", "open", "closed", "removed"}
    /\ t.pair \in Pairs \cup {"none"} /\ t.dir \in Sides
    /\ t.st = "open" => t.pair \in Pairs /\ t.dir # "none"

TradesShaped ==
    /\ DOMAIN trades = Ids
    /\ \A i \in Ids : DOMAIN trades[i] = Fields /\ Tagged(trades[i])

\* The visit is of a pair, and has a trade in hand where the code works on one.
Phases == {"manage", "enter", "entered", "fill", "adjust", "exit", "exit_order"}
VisitShaped ==
    /\ DOMAIN visit = VisitFields
    /\ visit.pc \in Phases \cup {"idle"} /\ visit.dir \in Sides
    /\ visit.rest \subseteq Ids
    /\ visit.pc # "idle" => visit.pair \in Pairs
    /\ visit.pc \in {"adjust", "exit", "exit_order"} => visit.rest # {}

Counted ==
    /\ IsFiniteSet(Open) /\ count = Cardinality(Open)
    /\ IsFiniteSet(Held) /\ count = Cardinality(Held)

LoopShaped ==
    /\ time \in (1..Candles) \X (1..Details)
    /\ todo \subseteq Pairs /\ active \subseteq Pairs /\ cached \subseteq Pairs
    /\ signal \in [Pairs -> Sides]

Exact == TradesShaped /\ VisitShaped /\ LoopShaped /\ Counted

-----------------------------------------------------------------------------
(* What may become of one trade *)

\* u is t with other orders and amounts, or it has ended.
Kept(t, u) ==
    /\ DOMAIN u = Fields
    /\ \/ u.st = t.st /\ u.pair = t.pair /\ u.dir = t.dir
       \/ u.st \in {"closed", "removed"} /\ u.pair = "none" /\ u.dir = "none"

\* The smallest of some natural numbers is one of them.
LEMMA SmallestIsMember ==
    ASSUME NEW S \in SUBSET Nat, S # {}
    PROVE  Min(S) \in S
<1>1. IsWellFoundedOn(OpToRel(<, Nat), Nat)
  BY NatLessThanWellFounded
<1>2. PICK x \in S : \A y \in S : ~(<<y, x>> \in OpToRel(<, Nat))
  BY <1>1, WFMin
<1>3. ASSUME NEW y \in S, y < x
      PROVE  FALSE
  <2>1. <<y, x>> \in Nat \X Nat /\ <<y, x>>[1] < <<y, x>>[2]
    BY <1>3
  <2>2. <<y, x>> \in OpToRel(<, Nat)
    BY <2>1 DEF OpToRel
  <2> QED
    BY <1>2, <2>2
<1>4. \A y \in S : x <= y
  BY <1>3
<1> QED
  BY <1>2, <1>4 DEF Min

LEMMA IdsNatural == Ids \subseteq Nat
  BY BacktestAssumption DEF Ids

\* The trade in hand.
LEMMA CurrentInHand ==
    ASSUME VisitShaped, visit.rest # {}
    PROVE  Current \in Ids
  BY IdsNatural, SmallestIsMember DEF VisitShaped, Current

\* A trade is kept by itself, and Kept is transitive.
LEMMA KeptReflexive ==
    ASSUME NEW t, DOMAIN t = Fields
    PROVE  Kept(t, t)
  BY DEF Kept

LEMMA KeptTransitive ==
    ASSUME NEW t, NEW u, NEW v, Kept(t, u), Kept(u, v)
    PROVE  Kept(t, v)
  BY DEF Kept

\* A trade that ends has its fields.
LEMMA EndedKept ==
    ASSUME NEW t, NEW v, NEW st \in {"closed", "removed"}
    PROVE  Kept(v, Ended(t, st))
<1> DEFINE b == IF st = "closed" THEN t.bought ELSE 0
<1>1. Ended(t, st) = [NoTrade EXCEPT !.st = st, !.bought = b]
  BY DEF Ended
<1> HIDE DEF b
<1>2. DOMAIN NoTrade = Fields /\ NoTrade.pair = "none" /\ NoTrade.dir = "none"
  BY DEF NoTrade, Fields
<1>3. /\ DOMAIN Ended(t, st) = Fields /\ Ended(t, st).st = st
      /\ Ended(t, st).pair = "none" /\ Ended(t, st).dir = "none"
  BY <1>1, <1>2 DEF Fields
<1> QED
  BY <1>3 DEF Kept

\* Orders come and go, entries and exits fill.
LEMMA OrdersKept ==
    ASSUME NEW t, DOMAIN t = Fields, NEW orders
    PROVE  Kept(t, [t EXCEPT !.orders = orders])
  BY DEF Kept, Fields

LEMMA WithoutKept ==
    ASSUME NEW t, DOMAIN t = Fields, NEW side
    PROVE  Kept(t, Without(t, side))
  BY OrdersKept DEF Without

LEMMA PlaceKept ==
    ASSUME NEW t, DOMAIN t = Fields, NEW side, NEW amount
    PROVE  Kept(t, Place(t, side, amount))
  BY OrdersKept DEF Place

LEMMA ReplacedKept ==
    ASSUME NEW t, DOMAIN t = Fields, NEW side, NEW amount
    PROVE  Kept(t, Replaced(t, side, amount))
<1> DEFINE u == [t EXCEPT !.orders = <<>>]
<1>1. Kept(t, u)
  BY OrdersKept
<1> HIDE DEF u
<1>2. Kept(u, Place(u, side, amount))
  BY <1>1, PlaceKept DEF Kept
<1>3. Replaced(t, side, amount) = Place(u, side, amount)
  BY DEF Replaced, u
<1> QED
  BY <1>1, <1>2, <1>3, KeptTransitive

LEMMA AskedKept ==
    ASSUME NEW t, DOMAIN t = Fields, NEW side, NEW amount, NEW u \in Asked(t, side, amount)
    PROVE  Kept(t, u)
  BY ReplacedKept, KeptReflexive DEF Asked

LEMMA EntryFilledKept ==
    ASSUME NEW t, DOMAIN t = Fields
    PROVE  Kept(t, EntryFilled(t))
<1> DEFINE w == Without(t, "entry")
           a == w.amount + OrderOf(t, "entry").amount
           b == w.bought + OrderOf(t, "entry").amount
           e == w.entries + 1
<1>1. Kept(t, w)
  BY WithoutKept
<1>2. EntryFilled(t) = [w EXCEPT !.amount = a, !.bought = b, !.entries = e]
  BY DEF EntryFilled
<1> HIDE DEF w, a, b, e
<1>3. Kept(w, EntryFilled(t))
  BY <1>1, <1>2 DEF Kept, Fields
<1> QED
  BY <1>1, <1>3, KeptTransitive

LEMMA ExitFilledKept ==
    ASSUME NEW t, DOMAIN t = Fields
    PROVE  Kept(t, ExitFilled(t))
<1> DEFINE a == OrderOf(t, "exit").amount
           w == Without(t, "exit")
           b == w.bought - a
           u == [w EXCEPT !.bought = b]
           r == [u EXCEPT !.amount = u.bought]
<1>1. Kept(t, w)
  BY WithoutKept
<1>2. ExitFilled(t) \in {Ended(u, "closed"), r, u}
  BY DEF ExitFilled
<1> HIDE DEF a, w, b
<1>3. Kept(w, u)
  BY <1>1 DEF Kept, Fields
<1>4. Kept(t, u)
  BY <1>1, <1>3, KeptTransitive
<1> HIDE DEF u
<1>5. Kept(u, r)
  BY <1>4 DEF Kept, Fields
<1>6. Kept(t, r)
  BY <1>4, <1>5, KeptTransitive
<1>7. Kept(t, Ended(u, "closed"))
  BY EndedKept
<1> HIDE DEF r
<1> QED
  BY <1>2, <1>4, <1>6, <1>7

LEMMA EnteredKept ==
    ASSUME NEW t, DOMAIN t = Fields, NEW amount, NEW u \in Entered(t, amount)
    PROVE  Kept(t, u)
<1>1. Kept(t, t)
  BY KeptReflexive
<1>2. ASSUME NEW v \in Asked(t, "entry", amount)
      PROVE  Kept(t, v) /\ Kept(t, EntryFilled(v))
  <2>1. Kept(t, v)
    BY AskedKept
  <2>2. Kept(v, EntryFilled(v))
    BY <2>1, EntryFilledKept DEF Kept
  <2> QED
    BY <2>1, <2>2, KeptTransitive
<1> QED
  BY <1>1, <1>2 DEF Entered

LEMMA ManageOrderKept ==
    ASSUME NEW t, DOMAIN t = Fields, NEW u \in ManageOrder(t)
    PROVE  Kept(t, u)
<1> DEFINE side == t.orders[1].side
           amount == t.orders[1].amount
           w == Without(t, side)
<1>1. Kept(t, t) /\ Kept(t, w)
  BY KeptReflexive, WithoutKept
<1>2. \/ u = t \/ u = w \/ u = Ended(w, "removed")
      \/ u \in Entered(w, amount) \/ u = Place(w, side, amount)
  BY DEF ManageOrder
<1> HIDE DEF w, side, amount
<1>3. DOMAIN w = Fields
  BY <1>1 DEF Kept
<1>4. CASE u = Ended(w, "removed")
  BY <1>4, EndedKept
<1>5. CASE u \in Entered(w, amount)
  BY <1>1, <1>3, <1>5, EnteredKept, KeptTransitive
<1>6. CASE u = Place(w, side, amount)
  BY <1>1, <1>3, <1>6, PlaceKept, KeptTransitive
<1> QED
  BY <1>1, <1>2, <1>4, <1>5, <1>6

LEMMA ReducedKept ==
    ASSUME NEW t, DOMAIN t = Fields, NEW u \in Reduced(t)
    PROVE  Kept(t, u)
<1>1. PICK a : \/ u \in Asked(t, "exit", a)
               \/ \E w \in Asked(t, "exit", a) : u = ExitFilled(w)
  BY DEF Reduced
<1>2. ASSUME NEW w \in Asked(t, "exit", a)
      PROVE  Kept(t, w) /\ Kept(t, ExitFilled(w))
  <2>1. Kept(t, w)
    BY AskedKept
  <2>2. Kept(w, ExitFilled(w))
    BY <2>1, ExitFilledKept DEF Kept
  <2> QED
    BY <2>1, <2>2, KeptTransitive
<1> QED
  BY <1>1, <1>2

-----------------------------------------------------------------------------
(* The steps *)

\* One trade is put back as it is or has ended: a slot is free again, or nothing happens
\* to the slots.
FreesSlot ==
    \E i \in Open : /\ Open' = Open \ {i} /\ Held' = Held \ {Slot(i)}
                    /\ count' = count - 1

SameSlots == Open' = Open /\ Held' = Held /\ count' = count

LEMMA PutStep ==
    ASSUME TradesShaped, NEW i \in Ids, NEW u, Kept(trades[i], u), Put(i, u)
    PROVE  TradesShaped' /\ (SameSlots \/ FreesSlot)
<1>1. trades' = [trades EXCEPT ![i] = u]
  BY DEF Put
<1>2. TradesShaped'
  <2>1. DOMAIN trades[i] = Fields /\ Tagged(trades[i])
    BY DEF TradesShaped
  <2>2. DOMAIN u = Fields /\ Tagged(u)
    BY <2>1 DEF Kept, Tagged, Sides
  <2> QED
    BY <1>1, <2>2 DEF TradesShaped
<1>3. \A j \in Ids : trades'[j] = IF j = i THEN u ELSE trades[j]
  BY <1>1 DEF TradesShaped
<1>4. CASE trades[i].st = "open" /\ u.st # "open"
  <2>1. i \in Open /\ Open' = Open \ {i}
    BY <1>3, <1>4 DEF Open
  <2>2. \A j \in Open' : Slot(j)' = Slot(j)
    BY <1>3, <2>1 DEF Slot, Open
  <2>3. Held' = {Slot(j) : j \in Open \ {i}}
    BY <2>1, <2>2 DEF Held
  <2>4. \A j \in Open : Slot(j) = Slot(i) => j = i
    BY DEF Slot
  <2>5. Held' = Held \ {Slot(i)}
    BY <2>1, <2>3, <2>4 DEF Held
  <2>6. count' = count - 1
    BY <1>4 DEF Put
  <2> QED
    BY <1>2, <2>1, <2>5, <2>6 DEF FreesSlot
<1>5. CASE ~(trades[i].st = "open" /\ u.st # "open")
  <2>1. u.st = "open" => trades[i].st = "open" /\ u.pair = trades[i].pair
    BY DEF Kept
  <2>2. Open' = Open
    BY <1>3, <1>5, <2>1 DEF Open
  <2>3. \A j \in Open : trades'[j].pair = trades[j].pair
    BY <1>3, <1>5, <2>1 DEF Open
  <2>4. \A j \in Open : Slot(j)' = Slot(j)
    BY <2>3 DEF Slot
  <2>5. Held' = Held
    BY <2>2, <2>4 DEF Held
  <2>6. count' = count
    BY <1>5 DEF Put
  <2> QED
    BY <1>2, <2>2, <2>5, <2>6 DEF SameSlots
<1> QED
  BY <1>4, <1>5

\* A trade is opened: there is a free slot, and the pair has no other trade.
OpensSlot ==
    \E i \in Ids, p \in Pairs :
       /\ i \notin Open
       /\ Stacking \/ \A j \in Open : trades[j].pair # p
       /\ Limit = 0 \/ count < Limit
       /\ Open' = Open \cup {i} /\ Held' = Held \cup {[id |-> i, pair |-> p]}
       /\ count' = count + 1

LEMMA EnterStep ==
    ASSUME TradesShaped, VisitShaped, Enter
    PROVE  TradesShaped' /\ OpensSlot
<1> DEFINE i == Min(Unused)
           n == [NoTrade EXCEPT !.pair = visit.pair, !.dir = visit.dir, !.st = "open"]
           t == Place(n, "entry", EntryAmount)
<1>1. i \in Unused
  BY IdsNatural, SmallestIsMember DEF Enter, Unused
<1>2. i \in Ids /\ trades[i].st = "none"
  BY <1>1 DEF Unused
<1>3. visit.pair \in Pairs /\ visit.dir \in Sides
  BY DEF VisitShaped, Enter
<1>4. DOMAIN n = Fields /\ n.st = "open" /\ n.pair = visit.pair /\ n.dir = visit.dir
  BY DEF NoTrade, Fields
<1>5. PICK u \in {t, EntryFilled(t)} : trades' = [trades EXCEPT ![i] = u]
  BY DEF Enter
<1>6. MayEnter /\ count' = count + 1
  BY DEF Enter
<1> HIDE DEF i, n
<1>7. DOMAIN t = Fields /\ t.st = "open" /\ t.pair = visit.pair /\ t.dir = visit.dir
  BY <1>4 DEF Place, Fields
<1> HIDE DEF t
<1>8. /\ DOMAIN EntryFilled(t) = Fields /\ EntryFilled(t).st = "open"
      /\ EntryFilled(t).pair = visit.pair /\ EntryFilled(t).dir = visit.dir
  <2> DEFINE w == Without(t, "entry")
             a == w.amount + OrderOf(t, "entry").amount
             b == w.bought + OrderOf(t, "entry").amount
             e == w.entries + 1
  <2>1. DOMAIN w = Fields /\ w.st = "open" /\ w.pair = visit.pair /\ w.dir = visit.dir
    BY <1>7 DEF Without, Fields
  <2>2. EntryFilled(t) = [w EXCEPT !.amount = a, !.bought = b, !.entries = e]
    BY DEF EntryFilled
  <2> HIDE DEF w, a, b, e
  <2> QED
    BY <2>1, <2>2 DEF Fields
<1>9. DOMAIN u = Fields /\ u.st = "open" /\ u.pair = visit.pair /\ u.dir = visit.dir
  BY <1>5, <1>7, <1>8
<1>10. \A j \in Ids : trades'[j] = IF j = i THEN u ELSE trades[j]
  BY <1>5 DEF TradesShaped
<1>11. TradesShaped'
  <2>1. Tagged(u)
    BY <1>3, <1>6, <1>9 DEF Tagged, MayEnter
  <2> QED
    BY <1>2, <1>5, <1>9, <2>1 DEF TradesShaped
<1>12. i \notin Open /\ Open' = Open \cup {i}
  BY <1>2, <1>9, <1>10 DEF Open
<1>13. Held' = Held \cup {[id |-> i, pair |-> visit.pair]}
  <2>1. \A j \in Open : trades'[j].pair = trades[j].pair
    BY <1>10, <1>12 DEF Open
  <2>2. trades'[i].pair = visit.pair
    BY <1>2, <1>9, <1>10
  <2>3. Held' = {[id |-> j, pair |-> trades'[j].pair] : j \in Open \cup {i}}
    BY <1>12 DEF Held, Slot
  <2>4. Held = {[id |-> j, pair |-> trades[j].pair] : j \in Open}
    BY DEF Held, Slot
  <2> QED
    BY <2>1, <2>2, <2>3, <2>4
<1>14. Stacking \/ \A j \in Open : trades[j].pair # visit.pair
  BY <1>6 DEF MayEnter, OpenOf, Open
<1>15. Limit = 0 \/ count < Limit
  BY <1>6 DEF MayEnter, SlotAvailable
<1> QED
  BY <1>2, <1>3, <1>6, <1>11, <1>12, <1>13, <1>14, <1>15 DEF OpensSlot

\* What a step does to the slots, whichever it is.
SlotStep == SameSlots \/ FreesSlot \/ OpensSlot

\* What all steps do that open no trade.
NoneOpened == SameSlots \/ FreesSlot

\* Trades left alone keep their slots.
LEMMA TradesUnchanged ==
    ASSUME TradesShaped, UNCHANGED <<trades, count>>
    PROVE  TradesShaped' /\ SameSlots
  BY DEF TradesShaped, SameSlots, Open, Held, Slot

\* The phases of backtest_loop that work on one trade.
LEMMA WorkStep ==
    ASSUME TradesShaped, VisitShaped, Manage \/ FillEntry \/ Adjust \/ Exit \/ FillExit
    PROVE  TradesShaped' /\ NoneOpened
<1>1. visit.rest # {} => Current \in Ids /\ DOMAIN trades[Current] = Fields
  BY CurrentInHand DEF TradesShaped
<1>2. ASSUME visit.rest # {}, NEW u, Kept(trades[Current], u), Put(Current, u)
      PROVE  TradesShaped' /\ NoneOpened
  BY <1>1, <1>2, PutStep DEF NoneOpened
<1>3. CASE Manage
  <2>1. CASE visit.rest = {}
    BY <1>3, <2>1, TradesUnchanged DEF Manage, NoneOpened
  <2>2. CASE visit.rest # {}
    <3>1. PICK u \in IF trades[Current].orders = <<>> THEN {trades[Current]}
                     ELSE ManageOrder(trades[Current]) : Put(Current, u)
      BY <1>3, <2>2 DEF Manage
    <3>2. Kept(trades[Current], u)
      BY <1>1, <2>2, <3>1, KeptReflexive, ManageOrderKept
    <3> QED
      BY <1>2, <2>2, <3>1, <3>2
  <2> QED
    BY <2>1, <2>2
<1>4. CASE FillEntry
  <2>1. PICK u \in {trades[Current]} \cup (IF IsOpen(trades[Current], "entry")
                                           THEN {EntryFilled(trades[Current])} ELSE {}) :
           Put(Current, u)
    BY <1>4 DEF FillEntry
  <2>2. visit.rest # {}
    BY <1>4 DEF FillEntry
  <2>3. Kept(trades[Current], u)
    BY <1>1, <2>1, <2>2, KeptReflexive, EntryFilledKept
  <2> QED
    BY <1>2, <2>1, <2>2, <2>3
<1>5. CASE Adjust
  <2>1. PICK u \in {trades[Current]} \cup (IF AdjustAmount = 0 THEN {}
                          ELSE Entered(trades[Current], AdjustAmount) \cup Reduced(trades[Current])) :
           Put(Current, u)
    BY <1>5 DEF Adjust
  <2>2. visit.rest # {}
    BY <1>5 DEF Adjust, VisitShaped
  <2>3. Kept(trades[Current], u)
    BY <1>1, <2>1, <2>2, KeptReflexive, EnteredKept, ReducedKept
  <2> QED
    BY <1>2, <2>1, <2>2, <2>3
<1>6. CASE Exit
  <2>1. PICK u \in {trades[Current]} \cup (IF trades[Current].st = "open"
                          THEN Asked(trades[Current], "exit", trades[Current].amount) ELSE {}) :
           Put(Current, u)
    BY <1>6 DEF Exit
  <2>2. visit.rest # {}
    BY <1>6 DEF Exit, VisitShaped
  <2>3. Kept(trades[Current], u)
    BY <1>1, <2>1, <2>2, KeptReflexive, AskedKept
  <2> QED
    BY <1>2, <2>1, <2>2, <2>3
<1>7. CASE FillExit
  <2>1. PICK u \in {trades[Current]} \cup
                   (IF trades[Current].st = "open" /\ IsOpen(trades[Current], "exit")
                    THEN {ExitFilled(trades[Current])} ELSE {}) :
           Put(Current, u)
    BY <1>7 DEF FillExit
  <2>2. visit.rest # {}
    BY <1>7 DEF FillExit, VisitShaped
  <2>3. Kept(trades[Current], u)
    BY <1>1, <2>1, <2>2, KeptReflexive, ExitFilledKept
  <2> QED
    BY <1>2, <2>1, <2>2, <2>3
<1> QED
  BY <1>3, <1>4, <1>5, <1>6, <1>7

\* The end of the backtest closes or removes the trades one by one.
LEMMA LeftOpenStep ==
    ASSUME TradesShaped, LeftOpen
    PROVE  TradesShaped' /\ NoneOpened
<1> DEFINE i == Min(Open)
<1>1. i \in Ids /\ DOMAIN trades[i] = Fields
  BY IdsNatural, SmallestIsMember DEF LeftOpen, Open, TradesShaped
<1>2. PICK u : /\ \/ u = Ended(trades[i], "removed")
                  \/ \E w \in Asked(trades[i], "exit", trades[i].amount) : u = ExitFilled(w)
               /\ Put(i, u)
  BY DEF LeftOpen
<1> HIDE DEF i
<1>3. Kept(trades[i], u)
  <2>1. CASE u = Ended(trades[i], "removed")
    BY <2>1, EndedKept
  <2>2. ASSUME NEW w \in Asked(trades[i], "exit", trades[i].amount), u = ExitFilled(w)
        PROVE  Kept(trades[i], u)
    <3>1. Kept(trades[i], w)
      BY <1>1, AskedKept
    <3>2. Kept(w, u)
      BY <2>2, <3>1, ExitFilledKept DEF Kept
    <3> QED
      BY <3>1, <3>2, KeptTransitive
  <2> QED
    BY <1>2, <2>1, <2>2
<1> QED
  BY <1>1, <1>2, <1>3, PutStep DEF NoneOpened

\* Replaced orders are marked as old.
LEMMA NextTimeStep ==
    ASSUME TradesShaped, NextTime
    PROVE  TradesShaped' /\ NoneOpened
<1>1. trades' = [i \in Ids |-> [trades[i] EXCEPT !.orders = Aged(@)]] /\ count' = count
  BY DEF NextTime
<1>2. \A i \in Ids : /\ DOMAIN trades'[i] = Fields
                     /\ trades'[i].st = trades[i].st /\ trades'[i].pair = trades[i].pair
                     /\ trades'[i].dir = trades[i].dir
  BY <1>1 DEF TradesShaped, Fields
<1>3. TradesShaped'
  BY <1>1, <1>2 DEF TradesShaped, Tagged
<1>4. Open' = Open
  BY <1>2 DEF Open
<1>5. \A i \in Open : Slot(i)' = Slot(i)
  BY <1>2 DEF Slot, Open
<1>6. Held' = Held
  BY <1>4, <1>5 DEF Held
<1> QED
  BY <1>1, <1>3, <1>4, <1>6 DEF NoneOpened, SameSlots

\* Every step but an entry, and every step.
LEMMA OtherStep ==
    ASSUME TradesShaped, VisitShaped, Next, ~Enter
    PROVE  TradesShaped' /\ NoneOpened
<1>1. CASE \E p \in Pairs : NextPair(p)
  BY <1>1, TradesUnchanged DEF NextPair, NoneOpened
<1>2. CASE NoEntry \/ StartWork \/ EndVisit
  BY <1>2, TradesUnchanged DEF NoEntry, StartWork, EndVisit, NoneOpened
<1>3. CASE Finished
  BY <1>3, TradesUnchanged DEF Finished, vars, NoneOpened
<1> QED
  BY <1>1, <1>2, <1>3, WorkStep, LeftOpenStep, NextTimeStep DEF Next

LEMMA StepSlots ==
    ASSUME TradesShaped, VisitShaped, Next
    PROVE  TradesShaped' /\ SlotStep
  BY OtherStep, EnterStep DEF SlotStep, NoneOpened

-----------------------------------------------------------------------------
(* The visit *)

LEMMA CallShaped ==
    ASSUME NEW p \in Pairs, NEW dir \in Sides, NEW again, visit' = Call(p, dir, again)
    PROVE  VisitShaped'
<1>1. /\ DOMAIN visit' = VisitFields /\ visit'.rest = OpenOf(p)
      /\ visit'.pair = p /\ visit'.pc = "manage" /\ visit'.dir = dir
  BY DEF Call, VisitFields
<1> QED
  BY <1>1 DEF VisitShaped, OpenOf, Phases

LEMMA IdleShaped ==
    ASSUME visit' = Idle
    PROVE  VisitShaped'
  BY DEF VisitShaped, Idle, VisitFields, Sides

\* The place in the code moves on, and a trade may be done.
LEMMA MovedShaped ==
    ASSUME VisitShaped, visit.pc # "idle", NEW pc \in Phases, NEW rest, rest \subseteq Ids,
           visit' = [visit EXCEPT !.pc = pc, !.rest = rest],
           pc \in {"adjust", "exit", "exit_order"} => rest # {}
    PROVE  VisitShaped'
  BY DEF VisitShaped, VisitFields

\* The direction of a visit is that of the pair's signal, or none.
LEMMA NextPairLoop ==
    ASSUME LoopShaped, NEW p \in Pairs, NextPair(p)
    PROVE  /\ LoopShaped'
           /\ visit' = Idle \/ \E dir \in Sides : visit' = Call(p, dir, FALSE)
<1>1. /\ signal' = signal \/ \E d \in Sides : signal' = [signal EXCEPT ![p] = d]
      /\ cached' \in {cached, cached \cup {p}} /\ active' \in {active, active \cup {p}}
      /\ todo' = todo \ {p} /\ time' = time
      /\ visit' = Idle \/ \E dir \in {signal'[p], "none"} : visit' = Call(p, dir, FALSE)
  BY DEF NextPair, Sides
<1>2. signal' \in [Pairs -> Sides]
  BY <1>1 DEF LoopShaped
<1>3. signal'[p] \in Sides /\ "none" \in Sides
  BY <1>2 DEF Sides
<1> QED
  BY <1>1, <1>2, <1>3 DEF LoopShaped

\* The next candle begins with the pairs of the open trades and without signals.
LEMMA NextTimeLoop ==
    ASSUME TradesShaped, LoopShaped, NextTime
    PROVE  LoopShaped'
<1>1. time[1] \in 1..Candles /\ time[2] \in 1..Details /\ Candles \in Nat /\ Details \in Nat \ {0}
  BY BacktestAssumption DEF LoopShaped
<1>2. OpenPairs \subseteq Pairs
  BY DEF OpenPairs, Open, TradesShaped, Tagged
<1>3. todo' = Pairs
  BY DEF NextTime
<1>4. CASE time[2] < Details
  <2>1. time' = <<time[1], time[2] + 1>> /\ UNCHANGED <<active, signal, cached>>
    BY <1>4 DEF NextTime
  <2> QED
    BY <1>1, <1>3, <1>4, <2>1 DEF LoopShaped
<1>5. CASE ~(time[2] < Details)
  <2>1. /\ time[1] < Candles /\ time' = <<time[1] + 1, 1>> /\ active' = OpenPairs /\ cached' = {}
        /\ signal' = [p \in Pairs |-> "none"]
    BY <1>5 DEF NextTime
  <2> QED
    BY <1>1, <1>2, <1>3, <2>1 DEF LoopShaped, Sides
<1> QED
  BY <1>4, <1>5

\* No other step moves the clock.
LEMMA LoopStep ==
    ASSUME TradesShaped, LoopShaped, [Next]_vars
    PROVE  LoopShaped'
<1>1. CASE UNCHANGED loopVars
  BY <1>1 DEF LoopShaped, loopVars
<1> QED
  BY <1>1, NextPairLoop, NextTimeLoop
     DEF Next, Manage, Enter, NoEntry, StartWork, FillEntry, Adjust, Exit, FillExit, EndVisit,
         LeftOpen, Finished, vars, loopVars

LEMMA VisitStep ==
    ASSUME LoopShaped, VisitShaped, Next
    PROVE  VisitShaped'
<1>1. CASE \E p \in Pairs : NextPair(p)
  BY <1>1, NextPairLoop, CallShaped, IdleShaped
<1>2. CASE UNCHANGED visit
  BY <1>2 DEF VisitShaped
<1> USE DEF Phases
<1>3. ASSUME NEW pc \in Phases, NEW rest, rest \subseteq Ids, visit.pc # "idle",
             visit' = [visit EXCEPT !.pc = pc, !.rest = rest],
             pc \in {"adjust", "exit", "exit_order"} => rest # {}
      PROVE  VisitShaped'
  BY <1>3, MovedShaped
<1>4. DOMAIN visit = VisitFields /\ visit.rest \subseteq Ids /\ Others \subseteq Ids
  BY DEF VisitShaped, Others
<1>5. /\ \A pc : [visit EXCEPT !.pc = pc] = [visit EXCEPT !.pc = pc, !.rest = visit.rest]
      /\ \A rest : [visit EXCEPT !.rest = rest] = [visit EXCEPT !.pc = visit.pc, !.rest = rest]
  BY <1>4 DEF VisitFields
<1>6. CASE Manage
  <2>1. visit.pc = "manage"
    BY <1>6 DEF Manage
  <2>2. CASE visit.rest = {}
    BY <1>3, <1>4, <1>5, <1>6, <2>1, <2>2 DEF Manage
  <2>3. CASE visit.rest # {}
    BY <1>3, <1>4, <1>5, <1>6, <2>1, <2>3 DEF Manage
  <2> QED
    BY <2>2, <2>3
<1>7. CASE Enter \/ NoEntry
  <2>1. visit.pc = "enter" /\ visit' = [visit EXCEPT !.pc = "entered"]
    BY <1>7 DEF Enter, NoEntry
  <2> QED
    BY <1>3, <1>4, <1>5, <2>1
<1>8. CASE StartWork
  <2>1. visit.pc = "entered" /\ OpenOf(visit.pair) \subseteq Ids
    BY <1>8 DEF StartWork, OpenOf
  <2> QED
    BY <1>3, <1>8, <2>1 DEF StartWork, Go
<1>9. CASE FillEntry
  <2>1. PICK pc \in {"adjust", "exit_order"} : visit' = [visit EXCEPT !.pc = pc]
    BY <1>9 DEF FillEntry
  <2>2. visit.pc = "fill" /\ visit.rest # {}
    BY <1>9 DEF FillEntry
  <2> QED
    BY <1>3, <1>4, <1>5, <2>1, <2>2
<1>10. CASE Adjust
  <2>1. visit.pc = "adjust" /\ visit' = [visit EXCEPT !.pc = "exit"]
    BY <1>10 DEF Adjust
  <2>2. visit.rest # {}
    BY <2>1 DEF VisitShaped
  <2> QED
    BY <1>3, <1>4, <1>5, <2>1, <2>2
<1>11. CASE Exit
  <2>1. visit.pc = "exit" /\ visit' = [visit EXCEPT !.pc = "exit_order"]
    BY <1>11 DEF Exit
  <2>2. visit.rest # {}
    BY <2>1 DEF VisitShaped
  <2> QED
    BY <1>3, <1>4, <1>5, <2>1, <2>2
<1>12. CASE FillExit
  <2>1. visit.pc = "exit_order" /\ visit' = [visit EXCEPT !.pc = "fill", !.rest = Others]
    BY <1>12 DEF FillExit
  <2> QED
    BY <1>3, <1>4, <2>1
<1>13. CASE EndVisit
  <2>1. visit' = Idle \/ visit' = Call(visit.pair, visit.dir, TRUE)
    BY <1>13 DEF EndVisit
  <2>2. visit.pair \in Pairs /\ visit.dir \in Sides
    BY <1>13 DEF EndVisit, VisitShaped
  <2> QED
    BY <2>1, <2>2, CallShaped, IdleShaped
<1>14. CASE NextTime \/ LeftOpen \/ Finished
  BY <1>2, <1>14 DEF NextTime, LeftOpen, Finished, vars
<1> QED
  BY <1>1, <1>6, <1>7, <1>8, <1>9, <1>10, <1>11, <1>12, <1>13, <1>14 DEF Next

-----------------------------------------------------------------------------
(* The counter *)

LEMMA CountedStep ==
    ASSUME Counted, SlotStep
    PROVE  Counted'
<1>1. CASE SameSlots
  BY <1>1 DEF SameSlots, Counted
<1>2. CASE FreesSlot
  <2>1. PICK i \in Open : /\ Open' = Open \ {i} /\ Held' = Held \ {Slot(i)}
                         /\ count' = count - 1
    BY <1>2 DEF FreesSlot
  <2>2. Slot(i) \in Held
    BY DEF Held
  <2>3. /\ IsFiniteSet(Open \ {i}) /\ Cardinality(Open \ {i}) = Cardinality(Open) - 1
        /\ IsFiniteSet(Held \ {Slot(i)}) /\ Cardinality(Held \ {Slot(i)}) = Cardinality(Held) - 1
    BY <2>2, FS_RemoveElement DEF Counted
  <2> QED
    BY <2>1, <2>3 DEF Counted
<1>3. CASE OpensSlot
  <2>1. PICK i \in Ids, p \in Pairs :
           /\ i \notin Open /\ Open' = Open \cup {i}
           /\ Held' = Held \cup {[id |-> i, pair |-> p]} /\ count' = count + 1
    BY <1>3 DEF OpensSlot
  <2>2. [id |-> i, pair |-> p] \notin Held
    BY <2>1 DEF Held, Slot
  <2>3. /\ IsFiniteSet(Open \cup {i}) /\ Cardinality(Open \cup {i}) = Cardinality(Open) + 1
        /\ IsFiniteSet(Held \cup {[id |-> i, pair |-> p]})
        /\ Cardinality(Held \cup {[id |-> i, pair |-> p]}) = Cardinality(Held) + 1
    BY <2>1, <2>2, FS_AddElement DEF Counted
  <2> QED
    BY <2>1, <2>3 DEF Counted
<1> QED
  BY <1>1, <1>2, <1>3 DEF SlotStep

LEMMA InitExact ==
    ASSUME Init
    PROVE  Exact
<1>1. \A i \in Ids : trades[i] = NoTrade
  BY DEF Init
<1>2. NoTrade.st = "none" /\ DOMAIN NoTrade = Fields /\ Tagged(NoTrade)
  BY DEF NoTrade, Fields, Tagged, Sides
<1>3. Open = {} /\ Held = {}
  BY <1>1, <1>2 DEF Open, Held
<1>4. Counted
  BY <1>3, FS_EmptySet DEF Counted, Init
<1>5. TradesShaped
  BY <1>1, <1>2 DEF TradesShaped, Init
<1>6. VisitShaped
  BY DEF Init, VisitShaped, Idle, VisitFields, Sides
<1>7. LoopShaped
  BY BacktestAssumption DEF Init, LoopShaped, Sides
<1> QED
  BY <1>4, <1>5, <1>6, <1>7 DEF Exact

LEMMA NextExact ==
    ASSUME Exact, [Next]_vars
    PROVE  Exact' /\ SlotStep
<1>1. CASE Next
  BY <1>1, StepSlots, VisitStep, LoopStep, CountedStep DEF Exact
<1>2. CASE UNCHANGED vars
  <2>1. TradesShaped' /\ SameSlots
    BY <1>2, TradesUnchanged DEF vars, Exact
  <2>2. VisitShaped' /\ LoopShaped'
    BY <1>2 DEF vars, Exact, VisitShaped, LoopShaped
  <2> QED
    BY <2>1, <2>2, CountedStep DEF SlotStep, Exact
<1> QED
  BY <1>1, <1>2

\* The counter that bounds the open trades of a backtest is their number: each way out of a
\* trade, from a timeout in the middle of a visit to the clearing at the end, gives back the
\* one slot that the entry took, and none gives it back twice.
THEOREM CountAlwaysExact == Spec => []CountIsExact
<1>1. Exact => CountIsExact
  BY DEF Exact, Counted, CountIsExact
<1>2. Init => Exact
  BY InitExact
<1>3. Exact /\ [Next]_vars => Exact'
  BY NextExact
<1> QED
  BY <1>1, <1>2, <1>3, PTL DEF Spec

-----------------------------------------------------------------------------
(* The refinement *)

\* TradeSlots counts as this module does: it has its own instance of FiniteSets.
LEMMA SameCardinality == \A S : Slots!Cardinality(S) = Cardinality(S)
  BY DEF Slots!Cardinality, Cardinality

\* What the steps do to the slots is what TradeSlots allows.
LEMMA StepImplements ==
    ASSUME Counted, SlotStep
    PROVE  [Slots!SlotsNext]_Held
<1>1. CASE SameSlots
  BY <1>1 DEF SameSlots
<1>2. CASE FreesSlot
  <2>1. PICK i \in Open : Held' = Held \ {Slot(i)}
    BY <1>2 DEF FreesSlot
  <2>2. Slot(i) \in Held
    BY DEF Held
  <2>3. \E h \in Held : h \in Held /\ Held' = Held \ {h}
    BY <2>1, <2>2
  <2>4. Slots!SlotsNext
    BY <2>3 DEF Slots!SlotsNext, Slots!CloseTrade, Held, Slot
  <2> QED
    BY <2>4
<1>3. CASE OpensSlot
  <2>1. PICK i \in Ids, p \in Pairs :
           /\ i \notin Open
           /\ Stacking \/ \A j \in Open : trades[j].pair # p
           /\ Limit = 0 \/ count < Limit
           /\ Held' = Held \cup {[id |-> i, pair |-> p]}
    BY <1>3 DEF OpensSlot
  <2>2. \A h \in Held : h.id \in Open /\ h.id # i /\ h.pair = trades[h.id].pair
    BY <2>1 DEF Held, Slot
  <2>3. Limit = 0 \/ Cardinality(Held) < Limit
    BY <2>1 DEF Counted
  <2>4. /\ \A h \in Held : h.id # i
        /\ Stacking \/ \A h \in Held : h.pair # p
    BY <2>1, <2>2
  <2>5. \E j \in Ids, q \in Pairs :
           /\ \A h \in Held : h.id # j
           /\ Stacking \/ \A h \in Held : h.pair # q
           /\ Limit = 0 \/ Cardinality(Held) < Limit
           /\ Held' = Held \cup {[id |-> j, pair |-> q]}
    BY <2>1, <2>3, <2>4
  <2>6. Slots!SlotsNext
    BY <2>5, SameCardinality DEF Slots!SlotsNext, Slots!OpenTrade, Held, Slot
  <2> QED
    BY <2>6
<1> QED
  BY <1>1, <1>2, <1>3 DEF SlotStep

\* The simulation implements TradeSlots: whatever fills, times out, is replaced or adjusted,
\* it never holds more than max_open_trades trades, nor two of one pair without stacking.
THEOREM SimulationKeepsSlots == Spec => KeepsSlots
<1>1. Init => Slots!SlotsInit
  <2> SUFFICES ASSUME Init PROVE Slots!SlotsInit
    OBVIOUS
  <2>1. Open = {}
    BY DEF Init, Open, NoTrade
  <2> QED
    BY <2>1 DEF Slots!SlotsInit
<1>2. Exact /\ [Next]_vars => [Slots!SlotsNext]_Held
  BY NextExact, StepImplements DEF Exact
<1>3. Init => Exact
  BY InitExact
<1>4. Exact /\ [Next]_vars => Exact'
  BY NextExact
<1>5. Exact /\ [Next]_vars => [Slots!SlotsNext]_{[id |-> i, pair |-> trades[i].pair] : i \in Open}
  BY <1>2 DEF Held, Slot
<1> QED
  BY <1>1, <1>3, <1>4, <1>5, PTL DEF Spec, KeepsSlots, Slots!SlotsSpec

-----------------------------------------------------------------------------
(* Re-entry.  The wait is decided when the visit begins, from the trades that *)
(* are open then: a visit of a pair that was found with a trade either begins *)
(* with that trade, and knows its direction, or does not take place.          *)

Waits ==
    visit.pc # "idle" /\ ~Stacking /\ ~visit.again
      => visit.pair \notin active \/ visit.exiting # "none"

LEMMA NextPairWaits ==
    ASSUME TradesShaped, NEW p \in Pairs, NextPair(p)
    PROVE  Waits'
<1>1. CASE visit' = Idle
  BY <1>1 DEF Waits, Idle
<1>2. CASE visit' # Idle
  <2>1. PICK dir : visit' = Call(p, dir, FALSE)
    BY <1>2 DEF NextPair
  <2>2. /\ visit'.pair = p
        /\ visit'.exiting = IF Stacking \/ OpenOf(p) = {} THEN "none"
                            ELSE trades[Min(OpenOf(p))].dir
    BY <2>1 DEF Call
  <2>3. ~Skipped(p) /\ (OpenOf(p) = {} => active' = active)
    BY <1>2 DEF NextPair
  <2>4. CASE OpenOf(p) = {}
    BY <2>2, <2>3, <2>4 DEF Skipped, Waits
  <2>5. CASE OpenOf(p) # {}
    <3>1. Min(OpenOf(p)) \in OpenOf(p)
      BY <2>5, IdsNatural, SmallestIsMember DEF OpenOf
    <3>2. trades[Min(OpenOf(p))].dir # "none"
      BY <3>1 DEF OpenOf, TradesShaped, Tagged
    <3> QED
      BY <2>2, <2>5, <3>2 DEF Waits
  <2> QED
    BY <2>4, <2>5
<1> QED
  BY <1>1, <1>2

\* Only the start of a visit adds a pair to pairs_with_open_trades.
LEMMA NextWaits ==
    ASSUME Exact, Waits, [Next]_vars
    PROVE  Waits'
<1>1. ASSUME NEW pc, NEW rest, visit.pc # "idle", UNCHANGED active,
             \/ visit' = [visit EXCEPT !.pc = pc]
             \/ visit' = [visit EXCEPT !.rest = rest]
             \/ visit' = [visit EXCEPT !.pc = pc, !.rest = rest]
      PROVE  Waits'
  BY <1>1 DEF Exact, VisitShaped, VisitFields, Waits
<1>2. CASE \E p \in Pairs : NextPair(p)
  BY <1>2, NextPairWaits DEF Exact
<1>3. CASE UNCHANGED <<visit, active>>
  BY <1>3 DEF Waits
<1>4. CASE NextTime
  BY <1>4 DEF NextTime, Idle, Waits
<1>5. CASE EndVisit
  <2>1. visit' = Idle \/ visit' = Call(visit.pair, visit.dir, TRUE)
    BY <1>5 DEF EndVisit
  <2> QED
    BY <2>1 DEF Idle, Call, Waits
<1>6. CASE Manage \/ Enter \/ NoEntry \/ StartWork \/ FillEntry \/ Adjust \/ Exit \/ FillExit
  <2>1. UNCHANGED active /\ visit.pc # "idle"
    BY <1>6 DEF Manage, Enter, NoEntry, StartWork, FillEntry, Adjust, Exit, FillExit, loopVars
  <2>2. \E pc, rest : \/ visit' = [visit EXCEPT !.pc = pc]
                      \/ visit' = [visit EXCEPT !.rest = rest]
                      \/ visit' = [visit EXCEPT !.pc = pc, !.rest = rest]
    BY <1>6 DEF Manage, Enter, NoEntry, StartWork, Go, FillEntry, Adjust, Exit, FillExit
  <2> QED
    BY <1>1, <2>1, <2>2
<1> QED
  BY <1>2, <1>3, <1>4, <1>5, <1>6 DEF Next, LeftOpen, Finished, vars, loopVars

\* A trade begins only in the phase that enters.
LEMMA OnlyEnterOpens ==
    ASSUME TradesShaped, VisitShaped, Next, NEW i \in Ids,
           trades[i].st = "none", trades'[i].st = "open"
    PROVE  Enter
<1>1. i \notin Open /\ i \in Open'
  BY DEF Open
<1>2. ~NoneOpened
  BY <1>1 DEF NoneOpened, SameSlots, FreesSlot
<1> QED
  BY <1>2, OtherStep

\* A pair that was found with a trade in the current main candle is entered again only by the
\* visit that closed the trade, whatever fills between the visits and on detail candles.
THEOREM ReentryAlwaysWaits == Spec => ReentryWaits
<1> DEFINE Waited ==
      \A i \in Ids : trades[i].st = "none" /\ trades'[i].st = "open" =>
          \/ Stacking \/ visit.again
          \/ visit.pair \notin active \/ visit.exiting # "none"
<1>1. Init => Exact /\ Waits
  BY InitExact DEF Init, Idle, Waits
<1>2. Exact /\ Waits /\ [Next]_vars => (Exact /\ Waits)'
  BY NextExact, NextWaits
<1>3. Exact /\ Waits /\ [Next]_vars => [Waited]_vars
  <2>1. ASSUME Exact, Waits, Next, NEW i \in Ids, trades[i].st = "none", trades'[i].st = "open"
        PROVE  \/ Stacking \/ visit.again
               \/ visit.pair \notin active \/ visit.exiting # "none"
    <3>1. visit.pc = "enter"
      BY <2>1, OnlyEnterOpens DEF Exact, Enter
    <3> QED
      BY <2>1, <3>1 DEF Waits
  <2> QED
    BY <2>1
<1> QED
  BY <1>1, <1>2, <1>3, PTL DEF Spec, ReentryWaits

-----------------------------------------------------------------------------
(* Orders and amounts.  A trade has at most one order; its amount is what its *)
(* orders bought, as long as no partial exit may take more than the position; *)
(* and a trade without position has an entry order and never had a position.  *)

\* No adjustment may sell more than there is.
NoOversell == AdjustAmount = 0 \/ MinStake > 0

\* Types, one order at most, and no orders on trades that have ended.
Well(t) ==
    /\ DOMAIN t = Fields
    /\ t.amount \in Nat /\ t.bought \in Int /\ t.entries \in Nat
    /\ t.orders \in Seq(Order) /\ Len(t.orders) <= 1
    /\ \A k \in DOMAIN t.orders : t.orders[k].amount > 0
    /\ t.st # "open" => t.orders = <<>> /\ t.amount = 0

Balanced(t) ==
    /\ t.st = "open" =>
          /\ t.amount = t.bought
          /\ \A k \in DOMAIN t.orders : t.orders[k].side = "exit" => t.orders[k].amount <= t.amount
    /\ t.st = "closed" => t.bought = 0

\* What holds of a trade also while its order is being replaced.
Loose(t) ==
    /\ Well(t) /\ (NoOversell => Balanced(t))
    /\ t.amount = 0 => t.entries = 0

\* A trade without position waits for its entry.
Good(t) ==
    /\ Loose(t)
    /\ t.st = "open" /\ t.amount = 0 => t.orders # <<>> /\ t.orders[1].side = "entry"

\* The other fields of two trades are the same.
SameTrade(t, u) ==
    /\ DOMAIN t = Fields /\ DOMAIN u = Fields
    /\ u.st = t.st /\ u.amount = t.amount /\ u.bought = t.bought /\ u.entries = t.entries

LEMMA OneOpen ==
    ASSUME NEW t, Well(t), NEW side, IsOpen(t, side)
    PROVE  /\ Len(t.orders) = 1 /\ DOMAIN t.orders = {1} /\ Position(t, side) = 1
           /\ t.orders[1] \in Order /\ t.orders[1].side = side /\ OrderOf(t, side) = t.orders[1]
           /\ t.st = "open"
<1>1. Len(t.orders) = 1 /\ DOMAIN t.orders = {1}
  <2>1. PICK k \in DOMAIN t.orders : t.orders[k].side = side
    BY DEF IsOpen
  <2> DEFINE n == Len(t.orders)
  <2>2. n \in Nat /\ n <= 1 /\ DOMAIN t.orders = 1..n
    BY DEF Well
  <2> HIDE DEF n
  <2>3. n = 1 /\ 1..n = {1}
    BY <2>1, <2>2
  <2> QED
    BY <2>2, <2>3 DEF n
<1>2. t.orders[1].side = side /\ t.orders[1] \in Order
  BY <1>1 DEF IsOpen, Well
<1>3. Position(t, side) = 1
  BY <1>1, <1>2 DEF Position
<1> QED
  BY <1>1, <1>2, <1>3 DEF OrderOf, Well

LEMMA WithoutLoose ==
    ASSUME NEW t, Loose(t), NEW side, IsOpen(t, side)
    PROVE  Loose(Without(t, side)) /\ SameTrade(t, Without(t, side)) /\ Without(t, side).orders = <<>>
<1>1. Len(t.orders) = 1 /\ Position(t, side) = 1
  BY OneOpen DEF Loose
<1>2. RemoveAt(t.orders, 1) = <<>>
  BY <1>1 DEF Loose, Well, RemoveAt
<1>3. Without(t, side) = [t EXCEPT !.orders = <<>>]
  BY <1>1, <1>2 DEF Without
<1>4. SameTrade(t, Without(t, side)) /\ Without(t, side).orders = <<>>
  BY <1>3 DEF Loose, Well, Fields, SameTrade
<1> QED
  BY <1>4 DEF Loose, Well, Balanced, SameTrade

LEMMA PlaceGood ==
    ASSUME NEW t, Loose(t), t.orders = <<>>, t.st = "open",
           NEW side \in {"entry", "exit"}, NEW amount \in Nat \ {0},
           side = "exit" => t.amount > 0 /\ (NoOversell => amount <= t.amount)
    PROVE  /\ Good(Place(t, side, amount)) /\ SameTrade(t, Place(t, side, amount))
           /\ IsOpen(Place(t, side, amount), side)
           /\ Place(t, side, amount).orders[1].amount = amount
<1> DEFINE o == [side |-> side, amount |-> amount, fresh |-> TRUE]
           u == Place(t, side, amount)
<1>1. u = [t EXCEPT !.orders = Append(<<>>, o)]
  BY DEF Place
<1>2. o \in Order
  BY DEF Order
<1>3. o.side = side /\ o.amount = amount
  OBVIOUS
<1> HIDE DEF o, u
<1>4. SameTrade(t, u) /\ u.orders = Append(<<>>, o)
  BY <1>1 DEF Loose, Well, Fields, SameTrade
<1>5. u.orders \in Seq(Order) /\ Len(u.orders) = 1 /\ u.orders[1] = o /\ DOMAIN u.orders = {1}
  BY <1>2, <1>4
<1>6. Loose(u)
  BY <1>3, <1>4, <1>5 DEF Loose, Well, Balanced, SameTrade
<1>7. Good(u)
  BY <1>3, <1>4, <1>5, <1>6 DEF Good, SameTrade
<1> QED
  BY <1>3, <1>4, <1>5, <1>7 DEF IsOpen, u

LEMMA ReplacedGood ==
    ASSUME NEW t, Loose(t), t.st = "open",
           NEW side \in {"entry", "exit"}, NEW amount \in Nat \ {0},
           side = "exit" => t.amount > 0 /\ (NoOversell => amount <= t.amount)
    PROVE  /\ Good(Replaced(t, side, amount)) /\ SameTrade(t, Replaced(t, side, amount))
           /\ IsOpen(Replaced(t, side, amount), side)
<1> DEFINE u == [t EXCEPT !.orders = <<>>]
<1>1. SameTrade(t, u) /\ u.orders = <<>>
  BY DEF Loose, Well, Fields, SameTrade
<1>2. Replaced(t, side, amount) = Place(u, side, amount)
  BY DEF Replaced
<1> HIDE DEF u
<1>3. Loose(u)
  BY <1>1 DEF Loose, Well, Balanced, SameTrade
<1> QED
  BY <1>1, <1>2, <1>3, PlaceGood DEF SameTrade

LEMMA EntryFilledGood ==
    ASSUME NEW t, Loose(t), IsOpen(t, "entry")
    PROVE  Good(EntryFilled(t)) /\ EntryFilled(t).st = "open" /\ EntryFilled(t).amount > 0
<1> DEFINE w == Without(t, "entry")
           a == OrderOf(t, "entry").amount
           u == [w EXCEPT !.amount = w.amount + a, !.bought = w.bought + a, !.entries = w.entries + 1]
<1>1. a \in Nat /\ a > 0 /\ t.st = "open"
  BY OneOpen DEF Loose, Well, Order
<1>2. Loose(w) /\ SameTrade(t, w) /\ w.orders = <<>>
  BY WithoutLoose
<1>3. EntryFilled(t) = u
  BY DEF EntryFilled
<1> HIDE DEF a, w
<1>4. /\ DOMAIN u = Fields /\ u.st = "open" /\ u.amount = w.amount + a /\ u.bought = w.bought + a
      /\ u.entries = w.entries + 1 /\ u.orders = <<>>
  BY <1>1, <1>2 DEF SameTrade, Fields
<1> HIDE DEF u
<1>5. u.amount \in Nat /\ u.amount > 0 /\ u.bought \in Int /\ u.entries \in Nat
  <2>1. w.amount \in Nat /\ w.bought \in Int /\ w.entries \in Nat
    BY <1>2 DEF Loose, Well
  <2> QED
    BY <1>1, <1>4, <2>1
<1>6. Well(u)
  BY <1>4, <1>5 DEF Well
<1>7. NoOversell => Balanced(u)
  BY <1>1, <1>2, <1>4 DEF Loose, Balanced, SameTrade
<1> QED
  BY <1>3, <1>4, <1>5, <1>6, <1>7 DEF Good, Loose

LEMMA ExitFilledGood ==
    ASSUME NEW t, Good(t), IsOpen(t, "exit")
    PROVE  Good(ExitFilled(t)) /\ (ExitFilled(t).st = "open" => ExitFilled(t).amount > 0)
<1> DEFINE w == Without(t, "exit")
           a == OrderOf(t, "exit").amount
           b == w.bought - a
           u == [w EXCEPT !.bought = b]
           r == [u EXCEPT !.amount = u.bought]
<1>1. /\ a \in Nat /\ a > 0 /\ t.st = "open" /\ t.amount > 0 /\ t.amount \in Nat
      /\ NoOversell => a <= t.amount /\ t.amount = t.bought
  <2>1. /\ OrderOf(t, "exit") = t.orders[1] /\ t.orders[1] \in Order /\ 1 \in DOMAIN t.orders
        /\ t.st = "open" /\ t.orders[1].side = "exit"
    BY OneOpen DEF Good, Loose
  <2>2. a \in Nat /\ a > 0
    BY <2>1 DEF Good, Loose, Well, Order
  <2>3. t.amount \in Nat /\ t.amount # 0
    BY <2>1 DEF Good, Loose, Well
  <2>4. NoOversell => a <= t.amount /\ t.amount = t.bought
    BY <2>1 DEF Good, Loose, Balanced
  <2> HIDE DEF a
  <2> QED
    BY <2>1, <2>2, <2>3, <2>4
<1>2. Loose(w) /\ SameTrade(t, w) /\ w.orders = <<>>
  BY WithoutLoose DEF Good
<1>3. ExitFilled(t) = IF a = t.amount THEN Ended(u, "closed") ELSE IF u.bought > 0 THEN r ELSE u
  BY DEF ExitFilled
<1> HIDE DEF a, w
<1>4. b \in Int /\ (NoOversell => b = t.amount - a)
  BY <1>1, <1>2 DEF Loose, Well, SameTrade
<1> HIDE DEF b
<1>5. /\ DOMAIN u = Fields /\ u.st = "open" /\ u.amount = t.amount /\ u.bought = b
      /\ u.entries = t.entries /\ u.orders = <<>> /\ u.entries \in Nat
  BY <1>1, <1>2 DEF Loose, Well, SameTrade, Fields
<1> HIDE DEF u
<1>6. CASE a = t.amount
  <2> DEFINE e == Ended(u, "closed")
  <2>1. e = [NoTrade EXCEPT !.st = "closed", !.bought = u.bought]
    BY DEF Ended
  <2>2. /\ DOMAIN e = Fields /\ e.st = "closed" /\ e.amount = 0 /\ e.bought = b /\ e.entries = 0
        /\ e.orders = <<>>
    BY <1>5, <2>1 DEF NoTrade, Fields
  <2>3. ExitFilled(t) = e
    BY <1>3, <1>6
  <2> HIDE DEF e
  <2>4. Well(e)
    BY <1>4, <2>2 DEF Well
  <2>5. NoOversell => Balanced(e)
    BY <1>1, <1>4, <1>6, <2>2 DEF Balanced
  <2> QED
    BY <2>2, <2>3, <2>4, <2>5 DEF Good, Loose
<1>7. CASE a # t.amount /\ u.bought > 0
  <2>1. /\ DOMAIN r = Fields /\ r.st = "open" /\ r.amount = b /\ r.bought = b
        /\ r.entries \in Nat /\ r.orders = <<>>
    BY <1>5 DEF Fields
  <2>2. ExitFilled(t) = r
    BY <1>3, <1>7
  <2>3. b \in Nat /\ b > 0
    BY <1>4, <1>5, <1>7
  <2> HIDE DEF r
  <2>4. Well(r) /\ Balanced(r)
    BY <1>4, <2>1, <2>3 DEF Well, Balanced
  <2> QED
    BY <2>1, <2>2, <2>3, <2>4 DEF Good, Loose
<1>8. CASE a # t.amount /\ ~(u.bought > 0)
  <2>1. ExitFilled(t) = u
    BY <1>3, <1>8
  <2>2. ~NoOversell
    BY <1>1, <1>4, <1>5, <1>8
  <2>3. Well(u)
    BY <1>1, <1>4, <1>5 DEF Well
  <2> QED
    BY <1>1, <1>5, <2>1, <2>2, <2>3 DEF Good, Loose
<1> QED
  BY <1>6, <1>7, <1>8

LEMMA EnteredGood ==
    ASSUME NEW t, Loose(t), t.st = "open", NEW amount \in Nat \ {0},
           NEW u \in Entered(t, amount), u # t
    PROVE  Good(u) /\ u.st = "open" /\ (t.amount > 0 => u.amount > 0)
<1> DEFINE r == Replaced(t, "entry", amount)
<1>1. Good(r) /\ SameTrade(t, r) /\ IsOpen(r, "entry")
  BY ReplacedGood
<1>2. u = r \/ u = EntryFilled(r)
  BY DEF Entered, Asked
<1> HIDE DEF r
<1>3. Good(EntryFilled(r)) /\ EntryFilled(r).st = "open" /\ EntryFilled(r).amount > 0
  BY <1>1, EntryFilledGood DEF Good
<1> QED
  BY <1>1, <1>2, <1>3 DEF SameTrade

\* An exit that is asked for, kept or new.
LEMMA AskedExitGood ==
    ASSUME NEW t, Good(t), t.st = "open", t.amount > 0, NEW amount \in Nat \ {0},
           NoOversell => amount <= t.amount, NEW u \in Asked(t, "exit", amount)
    PROVE  Good(u) /\ u.st = "open" /\ u.amount = t.amount /\ IsOpen(u, "exit")
<1>1. u = Replaced(t, "exit", amount) \/ (u = t /\ IsOpen(t, "exit"))
  BY DEF Asked, Similar
<1> QED
  BY <1>1, ReplacedGood DEF Good, SameTrade

LEMMA EndedGood ==
    ASSUME NEW t
    PROVE  Good(Ended(t, "removed")) /\ Ended(t, "removed").st = "removed"
<1> DEFINE e == Ended(t, "removed")
<1>1. e = [NoTrade EXCEPT !.st = "removed", !.bought = 0]
  BY DEF Ended
<1>2. /\ DOMAIN e = Fields /\ e.st = "removed" /\ e.amount = 0 /\ e.bought = 0 /\ e.entries = 0
      /\ e.orders = <<>>
  BY <1>1 DEF NoTrade, Fields
<1> HIDE DEF e
<1>3. Well(e) /\ Balanced(e)
  BY <1>2 DEF Well, Balanced
<1> QED
  BY <1>2, <1>3 DEF Good, Loose, e

LEMMA ManageOrderGood ==
    ASSUME NEW t, Good(t), t.orders # <<>>, NEW u \in ManageOrder(t)
    PROVE  Good(u)
<1> DEFINE side == t.orders[1].side
           amount == t.orders[1].amount
           w == Without(t, side)
<1>1. 1 \in DOMAIN t.orders
  BY DEF Good, Loose, Well
<1>2. /\ side \in {"entry", "exit"} /\ amount \in Nat \ {0} /\ IsOpen(t, side)
      /\ NoOversell => (side = "exit" => amount <= t.amount)
  <2>1. t.orders[1] \in Order /\ t.orders[1].amount > 0
    BY <1>1 DEF Good, Loose, Well
  <2>2. IsOpen(t, side)
    BY <1>1 DEF IsOpen
  <2>3. t.st = "open"
    BY DEF Good, Loose, Well
  <2> QED
    BY <1>1, <2>1, <2>2, <2>3 DEF Order, Good, Loose, Balanced
<1>3. Loose(w) /\ SameTrade(t, w) /\ w.orders = <<>> /\ w.st = "open"
  BY <1>2, WithoutLoose, OneOpen DEF Good, Loose, SameTrade
<1>4. side = "exit" => t.amount > 0
  BY <1>3 DEF Good, Loose, Well, SameTrade
<1>5. \/ u = t
      \/ u = IF side = "entry" /\ t.entries = 0 THEN Ended(w, "removed") ELSE w
      \/ side = "entry" /\ u \in Entered(w, amount) \ {w}
      \/ side # "entry" /\ u = Place(w, side, amount)
  BY DEF ManageOrder
<1> HIDE DEF side, amount, w
<1>6. CASE u = w /\ ~(side = "entry" /\ t.entries = 0)
  <2>1. t.amount # 0
    BY <1>2, <1>4, <1>6 DEF Good, Loose
  <2>2. w.amount # 0
    BY <1>3, <2>1 DEF SameTrade
  <2> QED
    BY <1>3, <1>6, <2>2 DEF Good
<1>7. CASE side = "entry" /\ u \in Entered(w, amount) \ {w}
  BY <1>2, <1>3, <1>7, EnteredGood
<1>8. CASE side # "entry" /\ u = Place(w, side, amount)
  BY <1>2, <1>3, <1>4, <1>8, PlaceGood DEF SameTrade
<1> QED
  BY <1>5, <1>6, <1>7, <1>8, EndedGood

LEMMA ReducedGood ==
    ASSUME NEW t, Good(t), t.st = "open", t.amount > 0, AdjustAmount # 0, NEW u \in Reduced(t)
    PROVE  Good(u) /\ (u.st = "open" => u.amount > 0)
<1>1. PICK a \in PartialExit(t) : \/ u \in Asked(t, "exit", a)
                                  \/ \E w \in Asked(t, "exit", a) : u = ExitFilled(w)
  BY DEF Reduced
<1>2. a \in Nat \ {0} /\ (NoOversell => a <= t.amount)
  BY BacktestAssumption DEF PartialExit, NoOversell, Good, Loose, Well
<1>3. ASSUME NEW w \in Asked(t, "exit", a)
      PROVE  Good(w) /\ w.amount > 0 /\ Good(ExitFilled(w))
             /\ (ExitFilled(w).st = "open" => ExitFilled(w).amount > 0)
  <2>1. Good(w) /\ w.st = "open" /\ w.amount = t.amount /\ IsOpen(w, "exit")
    BY <1>2, AskedExitGood
  <2> QED
    BY <2>1, ExitFilledGood
<1> QED
  BY <1>1, <1>3

\* The trades are good, and the one in hand has a position where the code counts on it.
Sound == \A i \in Ids : Good(trades[i])

InHand ==
    /\ visit.pc = "adjust" => trades[Current].amount > 0
    /\ visit.pc = "exit" /\ trades[Current].st = "open" => trades[Current].amount > 0

LEMMA PutSound ==
    ASSUME TradesShaped, Sound, NEW i \in Ids, NEW u, Good(u), Put(i, u)
    PROVE  Sound' /\ trades'[i] = u
  BY DEF Put, TradesShaped, Sound

\* The phases that work on one trade.
LEMMA WorkSound ==
    ASSUME Exact, Sound, InHand, Manage \/ FillEntry \/ Adjust \/ Exit \/ FillExit
    PROVE  Sound' /\ InHand'
<1> DEFINE t == trades[Current]
<1>1. visit.rest # {} => Current \in Ids /\ Good(t) /\ Loose(t) /\ t.amount \in Nat
  BY CurrentInHand DEF Exact, Sound, Good, Loose, Well
<1>2. TradesShaped /\ DOMAIN visit = VisitFields
  BY DEF Exact, VisitShaped
<1>3. CASE Manage
  <2>1. CASE visit.rest = {}
    BY <1>2, <1>3, <2>1 DEF Manage, Sound, InHand, VisitFields
  <2>2. CASE visit.rest # {}
    <3>1. PICK u \in IF t.orders = <<>> THEN {t} ELSE ManageOrder(t) : Put(Current, u)
      BY <1>3, <2>2 DEF Manage
    <3>2. Good(u)
      BY <1>1, <2>2, <3>1, ManageOrderGood
    <3>3. visit'.pc = "manage"
      BY <1>2, <1>3, <2>2 DEF Manage, VisitFields
    <3> QED
      BY <1>1, <1>2, <2>2, <3>1, <3>2, <3>3, PutSound DEF InHand
  <2> QED
    BY <2>1, <2>2
<1>4. CASE FillEntry
  <2>1. PICK u \in {t} \cup (IF IsOpen(t, "entry") THEN {EntryFilled(t)} ELSE {}) :
           /\ Put(Current, u)
           /\ visit' = [visit EXCEPT !.pc = IF u.amount > 0 THEN "adjust" ELSE "exit_order"]
    BY <1>4 DEF FillEntry
  <2>2. visit.rest # {}
    BY <1>4 DEF FillEntry
  <2>3. Good(u)
    BY <1>1, <2>1, <2>2, EntryFilledGood
  <2>4. Sound' /\ trades'[Current] = u
    BY <1>1, <1>2, <2>1, <2>2, <2>3, PutSound
  <2>5. /\ visit'.rest = visit.rest
        /\ visit'.pc = "exit_order" \/ (visit'.pc = "adjust" /\ u.amount > 0)
    BY <1>2, <2>1 DEF VisitFields
  <2> QED
    BY <2>4, <2>5 DEF InHand, Current
<1>5. CASE Adjust
  <2>1. PICK u \in {t} \cup (IF AdjustAmount = 0 THEN {}
                             ELSE Entered(t, AdjustAmount) \cup Reduced(t)) : Put(Current, u)
    BY <1>5 DEF Adjust
  <2>2. visit.rest # {} /\ visit.pc = "adjust"
    BY <1>5 DEF Adjust, Exact, VisitShaped
  <2>3. t.amount > 0 /\ t.st = "open"
    BY <1>1, <2>2 DEF InHand, Loose, Well
  <2>4. Good(u) /\ (u.st = "open" => u.amount > 0)
    <3>1. CASE u = t
      BY <1>1, <2>2, <2>3, <3>1
    <3>2. CASE u # t /\ u \in Entered(t, AdjustAmount) /\ AdjustAmount # 0
      BY <1>1, <2>2, <2>3, <3>2, EnteredGood, BacktestAssumption
    <3>3. CASE u \in Reduced(t) /\ AdjustAmount # 0
      BY <1>1, <2>2, <2>3, <3>3, ReducedGood
    <3> QED
      BY <2>1, <3>1, <3>2, <3>3
  <2>5. Sound' /\ trades'[Current] = u
    BY <1>1, <1>2, <2>1, <2>2, <2>4, PutSound
  <2>6. visit'.rest = visit.rest /\ visit'.pc = "exit"
    BY <1>2, <1>5 DEF Adjust, VisitFields
  <2> QED
    BY <2>4, <2>5, <2>6 DEF InHand, Current
<1>6. CASE Exit
  <2>1. PICK u \in {t} \cup (IF t.st = "open" THEN Asked(t, "exit", t.amount) ELSE {}) :
           Put(Current, u)
    BY <1>6 DEF Exit
  <2>2. visit.rest # {} /\ visit.pc = "exit"
    BY <1>6 DEF Exit, Exact, VisitShaped
  <2>3. Good(u)
    BY <1>1, <2>1, <2>2, AskedExitGood DEF InHand
  <2>4. visit'.pc = "exit_order"
    BY <1>2, <1>6 DEF Exit, VisitFields
  <2> QED
    BY <1>1, <1>2, <2>1, <2>2, <2>3, <2>4, PutSound DEF InHand
<1>7. CASE FillExit
  <2>1. PICK u \in {t} \cup (IF t.st = "open" /\ IsOpen(t, "exit") THEN {ExitFilled(t)} ELSE {}) :
           Put(Current, u)
    BY <1>7 DEF FillExit
  <2>2. visit.rest # {}
    BY <1>7 DEF FillExit, Exact, VisitShaped
  <2>3. Good(u)
    BY <1>1, <2>1, <2>2, ExitFilledGood
  <2>4. visit'.pc = "fill"
    BY <1>2, <1>7 DEF FillExit, VisitFields
  <2> QED
    BY <1>1, <1>2, <2>1, <2>2, <2>3, <2>4, PutSound DEF InHand
<1> QED
  BY <1>3, <1>4, <1>5, <1>6, <1>7

LEMMA EnterSound ==
    ASSUME Exact, Sound, Enter
    PROVE  Sound' /\ InHand'
<1> DEFINE i == Min(Unused)
           n == [NoTrade EXCEPT !.pair = visit.pair, !.dir = visit.dir, !.st = "open"]
           t == Place(n, "entry", EntryAmount)
<1>1. i \in Ids
  BY IdsNatural, SmallestIsMember DEF Enter, Unused
<1>2. PICK u \in {t, EntryFilled(t)} : trades' = [trades EXCEPT ![i] = u]
  BY DEF Enter
<1>3. /\ DOMAIN n = Fields /\ n.st = "open" /\ n.amount = 0 /\ n.bought = 0 /\ n.entries = 0
      /\ n.orders = <<>>
  BY DEF NoTrade, Fields
<1> HIDE DEF i, n
<1>4. Well(n) /\ Balanced(n)
  BY <1>3 DEF Well, Balanced
<1>5. Loose(n)
  BY <1>3, <1>4 DEF Loose
<1>6. Good(t) /\ IsOpen(t, "entry")
  BY <1>3, <1>5, PlaceGood, BacktestAssumption
<1> HIDE DEF t
<1>7. Good(u)
  BY <1>2, <1>6, EntryFilledGood DEF Good
<1>8. visit'.pc = "entered"
  BY DEF Enter, Exact, VisitShaped, VisitFields
<1> QED
  BY <1>1, <1>2, <1>7, <1>8 DEF Exact, TradesShaped, Sound, InHand

LEMMA LeftOpenSound ==
    ASSUME Exact, Sound, LeftOpen
    PROVE  Sound' /\ InHand'
<1> DEFINE i == Min(Open)
           t == trades[i]
<1>1. i \in Open /\ i \in Ids
  BY IdsNatural, SmallestIsMember DEF LeftOpen, Open
<1>2. Good(t) /\ t.st = "open" /\ t.amount \in Nat
  BY <1>1 DEF Sound, Open, Good, Loose, Well
<1>3. PICK u : /\ \/ u = Ended(t, "removed")
                  \/ t.amount > 0 /\ \E w \in Asked(t, "exit", t.amount) : u = ExitFilled(w)
               /\ Put(i, u)
  BY <1>2 DEF LeftOpen
<1>4. Good(u)
  <2>1. ASSUME t.amount > 0, NEW w \in Asked(t, "exit", t.amount), u = ExitFilled(w)
        PROVE  Good(u)
    BY <1>2, <2>1, AskedExitGood, ExitFilledGood
  <2> QED
    BY <1>3, <2>1, EndedGood
<1>5. UNCHANGED visit /\ visit.pc = "idle"
  BY DEF LeftOpen, Idle
<1> QED
  BY <1>1, <1>3, <1>4, <1>5, PutSound DEF Exact, InHand

LEMMA AgedGood ==
    ASSUME NEW t, Good(t)
    PROVE  Good([t EXCEPT !.orders = Aged(t.orders)])
<1> DEFINE u == [t EXCEPT !.orders = Aged(t.orders)]
<1>1. SameTrade(t, u) /\ u.orders = Aged(t.orders)
  BY DEF Good, Loose, Well, SameTrade, Fields
<1> HIDE DEF u
<1>2. /\ DOMAIN u.orders = DOMAIN t.orders
      /\ \A k \in DOMAIN t.orders :
            u.orders[k] \in Order /\ u.orders[k].side = t.orders[k].side
            /\ u.orders[k].amount = t.orders[k].amount
  <2>1. \A r \in Order : LET a == [r EXCEPT !.fresh = FALSE]
                         IN  a \in Order /\ a.side = r.side /\ a.amount = r.amount
    BY DEF Order
  <2>2. \A k \in DOMAIN t.orders : t.orders[k] \in Order
    BY LenProperties, ElementOfSeq DEF Good, Loose, Well
  <2>3. u.orders = [k \in DOMAIN t.orders |-> [t.orders[k] EXCEPT !.fresh = FALSE]]
    BY <1>1 DEF Aged
  <2> QED
    BY <2>1, <2>2, <2>3
<1>3. u.orders \in Seq(Order) /\ Len(u.orders) = Len(t.orders)
  <2> DEFINE n == Len(t.orders)
  <2>1. n \in Nat /\ DOMAIN t.orders = 1..n
    BY LenProperties DEF Good, Loose, Well
  <2> HIDE DEF n
  <2>2. u.orders \in [1..n -> Order]
    BY <1>1, <1>2, <2>1 DEF Aged
  <2>3. u.orders \in Seq(Order)
    BY <2>1, <2>2, SeqDef
  <2>4. Len(u.orders) = n
    BY <2>1, <2>2, <2>3, LenProperties
  <2> QED
    BY <2>3, <2>4 DEF n
<1>4. (t.orders = <<>>) = (u.orders = <<>>) /\ (t.orders # <<>> => 1 \in DOMAIN t.orders)
  <2>1. t.orders \in Seq(Order)
    BY DEF Good, Loose, Well
  <2>2. \A s \in Seq(Order) : (s = <<>>) = (Len(s) = 0)
    BY EmptySeq
  <2>3. (t.orders = <<>>) = (u.orders = <<>>)
    BY <1>3, <2>1, <2>2
  <2>4. t.orders # <<>> => 1 \in DOMAIN t.orders
    BY <2>1, <2>2, LenProperties
  <2> QED
    BY <2>3, <2>4
<1>5. Well(u) /\ (NoOversell => Balanced(u))
  BY <1>1, <1>2, <1>3, <1>4 DEF Good, Loose, Well, Balanced, SameTrade
<1> QED
  BY <1>1, <1>2, <1>4, <1>5 DEF Good, Loose, SameTrade, u

LEMMA NextTimeSound ==
    ASSUME Exact, Sound, NextTime
    PROVE  Sound' /\ InHand'
<1>1. trades' = [i \in Ids |-> [trades[i] EXCEPT !.orders = Aged(trades[i].orders)]]
  BY DEF NextTime
<1>2. UNCHANGED visit /\ visit.pc = "idle"
  BY DEF NextTime, Idle
<1> QED
  BY <1>1, <1>2, AgedGood DEF Sound, InHand

LEMMA NextSound ==
    ASSUME Exact, Sound, InHand, [Next]_vars
    PROVE  Sound' /\ InHand'
<1>1. ASSUME UNCHANGED trades, visit'.pc \notin {"adjust", "exit"}
      PROVE  Sound' /\ InHand'
  BY <1>1 DEF Sound, InHand
<1>2. CASE \E p \in Pairs : NextPair(p)
  <2>1. UNCHANGED trades /\ (visit' = Idle \/ \E p, dir : visit' = Call(p, dir, FALSE))
    BY <1>2 DEF NextPair
  <2> QED
    BY <1>1, <2>1 DEF Idle, Call
<1>3. CASE NoEntry \/ StartWork
  BY <1>1, <1>3 DEF NoEntry, StartWork, Go, Exact, VisitShaped, VisitFields
<1>4. CASE EndVisit
  BY <1>1, <1>4 DEF EndVisit, Idle, Call
<1>5. CASE UNCHANGED vars
  BY <1>5 DEF vars, Sound, InHand, Current
<1> QED
  BY <1>2, <1>3, <1>4, <1>5, WorkSound, EnterSound, LeftOpenSound, NextTimeSound
     DEF Next, Finished

LEMMA InitSound ==
    ASSUME Init
    PROVE  Sound /\ InHand
<1>1. /\ DOMAIN NoTrade = Fields /\ NoTrade.st = "none" /\ NoTrade.amount = 0
      /\ NoTrade.bought = 0 /\ NoTrade.entries = 0 /\ NoTrade.orders = <<>>
  BY DEF NoTrade, Fields
<1>2. Good(NoTrade)
  <2>1. Well(NoTrade) /\ Balanced(NoTrade)
    BY <1>1 DEF Well, Balanced
  <2> QED
    BY <1>1, <2>1 DEF Good, Loose
<1> QED
  BY <1>2 DEF Init, Idle, Sound, InHand

LEMMA AlwaysSound == Spec => []Sound
<1>1. Init => Exact /\ Sound /\ InHand
  BY InitExact, InitSound
<1>2. Exact /\ Sound /\ InHand /\ [Next]_vars => (Exact /\ Sound /\ InHand)'
  BY NextExact, NextSound
<1> QED
  BY <1>1, <1>2, PTL DEF Spec

\* Every new order removes the others, every timeout and every fill the order it is about: a
\* trade of the simulation never has two open orders.
THEOREM AlwaysOneOrder == Spec => []OneOrder
<1>1. Sound => OneOrder
  BY DEF Sound, Good, Loose, Well, OneOrder, Open
<1> QED
  BY <1>1, AlwaysSound, PTL

\* A trade without position waits for its first entry: a trade whose order times out, is
\* replaced in vain or sold off is removed or closed in the same step.
THEOREM NeverEmptyTrade == Spec => []NoEmptyTrade
<1>1. Sound => NoEmptyTrade
  BY DEF Sound, Good, Loose, Well, NoEmptyTrade, Open
<1> QED
  BY <1>1, AlwaysSound, PTL

\* With a minimum stake, or without adjustments, the amount of a trade is what its orders
\* leave of it, through additional entries, partial exits and replaced orders in any order.
THEOREM AmountsAlwaysAgree ==
    ASSUME NoOversell
    PROVE  Spec => []AmountsAgree
<1>1. Sound => AmountsAgree
  BY DEF Sound, Good, Loose, Balanced, AmountsAgree
<1> QED
  BY <1>1, AlwaysSound, PTL

-----------------------------------------------------------------------------
(* The types *)

\* Every variable of the simulation keeps its type: the clock stays within the backtest, the
\* pairs and directions are those of the configuration, an amount is a natural number after
\* any partial exits, and the counter is never negative.
THEOREM BacktestTyped == Spec => []TypeOK
<1>1. ASSUME Exact, Sound
      PROVE  TypeOK
  <2>1. count \in Nat
    BY <1>1, FS_CardinalityType DEF Exact, Counted
  <2>2. ASSUME NEW i \in Ids
        PROVE  LET t == trades[i] IN
                  /\ t.st \in {"none", "open", "closed", "removed"}
                  /\ t.pair \in Pairs \cup {"none"} /\ t.dir \in Directions \cup {"none"}
                  /\ t.amount \in Nat /\ t.entries \in Nat /\ t.bought \in Int
                  /\ t.orders \in Seq(Order)
    BY <1>1 DEF Exact, TradesShaped, Tagged, Sides, Sound, Good, Loose, Well
  <2>3. visit.pc \in {"idle", "manage", "enter", "entered", "fill", "adjust", "exit", "exit_order"}
    BY <1>1 DEF Exact, VisitShaped, Phases
  <2> QED
    BY <1>1, <2>1, <2>2, <2>3 DEF Exact, LoopShaped, Sides, TypeOK
<1>2. Init => Exact /\ Sound /\ InHand
  BY InitExact, InitSound
<1>3. Exact /\ Sound /\ InHand /\ [Next]_vars => (Exact /\ Sound /\ InHand)'
  BY NextExact, NextSound
<1> QED
  BY <1>1, <1>2, <1>3, PTL DEF Spec

=============================================================================
