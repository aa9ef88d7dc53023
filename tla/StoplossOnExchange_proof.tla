---------------------- MODULE StoplossOnExchange_proof ----------------------
(***************************************************************************)
(* Proofs about StoplossOnExchange, for any amounts and any number of      *)
(* stops, orders and faults: as long as no stop has escaped the bot there  *)
(* is at most one, it is recorded as open, and a closed trade leaves none  *)
(* (IInv).                                                                 *)
(*                                                                         *)
(* Further down, when the wallet holds no other coins: the trade closes    *)
(* only when its coins are sold, and where stops block coins the stop is   *)
(* as large as the position (CoinsInv).  The amounts are sums over stops   *)
(* and orders; a sum is the end of its running totals, which makes the     *)
(* steps that change one of its terms a matter of arithmetic.              *)
(***************************************************************************)
EXTENDS StoplossOnExchange, FiniteSetTheorems, SequenceTheorems, WellFoundedInduction, TLAPS

-----------------------------------------------------------------------------
(* The inductive invariant *)

LiveStops == {s \in Stops : Live(s)}

\* Where the bot can be.
Control ==
    /\ bot.pc = "create" => trade.open
    /\ bot.pc = "refind" => bot.back \in {"decide", "commit"}

\* Each working stop is recorded as open, and there is one at most.
Recorded == \A s \in LiveStops : s \in OpenStops
Single == \A s, t \in LiveStops : s = t

\* The loop over stops has all working stops before it, or has seen them working.
InHand ==
    /\ bot.pc = "cancel" => LiveStops \subseteq bot.todo
    /\ bot.pc = "fetch" =>
          \A s \in LiveStops : s \in bot.todo \/ [id |-> s, st |-> "live"] \in bot.seen

\* Before a new stop is placed, and after the trade is closed, none works.
Cleared ==
    /\ bot.pc \in {"trail", "create"} => LiveStops = {}
    /\ ~trade.open /\ bot.pc # "cancel" => LiveStops = {}

IInv ==
    /\ TypeOK /\ Control /\ StopsAgree
    /\ ~slipped => Recorded /\ Single /\ InHand /\ Cleared

-----------------------------------------------------------------------------
(* Lemmas *)

\* The smallest of some natural numbers is one of them.
LEMMA SmallestIsMember ==
    ASSUME NEW S \in SUBSET Nat, S # {}
    PROVE  Min(S) \in S
<1>1. IsWellFoundedOn(OpToRel(<, Nat), Nat)
  BY NatLessThanWellFounded
<1>2. PICK x \in S : \A y \in S : ~(<<y, x>> \in OpToRel(<, Nat))
  BY <1>1, WFMin
<1>3. ASSUME NEW y \in S, y < x
      PROVE  FALSE
  <2>1. <<y, x>> \in Nat \X Nat /\ <<y, x>>[1] < <<y, x>>[2]
    BY <1>3
  <2>2. <<y, x>> \in OpToRel(<, Nat)
    BY <2>1 DEF OpToRel
  <2> QED
    BY <1>2, <2>2
<1>4. \A y \in S : x <= y
  BY <1>3
<1> QED
  BY <1>2, <1>4 DEF Min

\* The stop in hand exists.
LEMMA CurrentInHand ==
    ASSUME TypeOK, bot.todo # {}
    PROVE  Current \in bot.todo /\ Current \in Stops /\ stops[Current] \in StopType
<1>1. Current \in bot.todo
  BY SmallestIsMember DEF TypeOK, BotType, Current
<1> QED
  BY <1>1 DEF TypeOK, Stops

\* The bot goes on elsewhere.
LEMMA BotTyped ==
    ASSUME NEW b \in BotType
    PROVE  /\ \A pc \in Places : [b EXCEPT !.pc = pc] \in BotType
           /\ \A back \in Backs, T \in SUBSET Nat :
                 [b EXCEPT !.pc = "cancel", !.back = back, !.todo = T] \in BotType
           /\ \A back \in Backs, T \in SUBSET Nat :
                 [b EXCEPT !.pc = "refind", !.back = back, !.todo = T] \in BotType
           /\ \A x \in Int : [b EXCEPT !.pc = "exit", !.sell = x] \in BotType
           /\ \A o \in Seen : [b EXCEPT !.seen = @ \cup {o}] \in BotType
           /\ \A T \in SUBSET Nat : [b EXCEPT !.pc = "fetch", !.todo = T, !.seen = {}] \in BotType
<1>1. {"exit", "cancel", "refind", "fetch"} \subseteq Places
  BY DEF Places
<1> QED
  BY <1>1 DEF BotType

\* What a commit records.
LEMMA CommittedTyped ==
    ASSUME NEW r \in Seq(Records)
    PROVE  /\ Committed(r) \in Seq(Records) /\ Len(Committed(r)) = Len(r)
           /\ \A s \in DOMAIN r : /\ Committed(r)[s] = "closed" <=> r[s] = "closed"
                                  /\ Committed(r)[s] \in {"pending", "open"}
                                        <=> r[s] \in {"pending", "open"}
<1> DEFINE n == Len(r)
           c == [s \in 1..n |-> IF r[s] = "pending" THEN "open" ELSE r[s]]
<1>1. n \in Nat /\ DOMAIN r = 1..n /\ \A s \in 1..n : r[s] \in Records
  OBVIOUS
<1>2. Committed(r) = c
  BY <1>1 DEF Committed
<1> HIDE DEF n
<1>3. c \in [1..n -> Records]
  BY <1>1 DEF Records
<1>4. c \in Seq(Records) /\ Len(c) = n
  BY <1>1, <1>3
<1>5. \A s \in 1..n : /\ c[s] = "closed" <=> r[s] = "closed"
                      /\ c[s] \in {"pending", "open"} <=> r[s] \in {"pending", "open"}
  OBVIOUS
<1> HIDE DEF c
<1> QED
  BY <1>1, <1>2, <1>4, <1>5 DEF n

\* What a stop sold is taken off the trade, or closes it.
LEMMA SoldTyped ==
    ASSUME TypeOK, NEW a \in Nat
    PROVE  /\ Sold(trade, a) \in [open : BOOLEAN, amount : Nat]
           /\ StopSold(trade, a) \in [open : BOOLEAN, amount : Nat]
<1>1. trade \in [open : BOOLEAN, amount : Nat]
  BY DEF TypeOK
<1>2. Sold(trade, a) \in [open : BOOLEAN, amount : Nat]
  <2>1. CASE a >= trade.amount
    BY <1>1, <2>1 DEF Sold
  <2>2. CASE ~(a >= trade.amount)
    <3>1. trade.amount \in Nat /\ trade.amount - a \in Nat
      BY <1>1, <2>2
    <3> DEFINE b == trade.amount - a
    <3>2. Sold(trade, a) = [trade EXCEPT !.amount = b]
      BY <2>2 DEF Sold
    <3> HIDE DEF b
    <3> QED
      BY <1>1, <3>1, <3>2 DEF b
  <2> QED
    BY <2>1, <2>2
<1> QED
  BY <1>1, <1>2 DEF StopSold

\* A stop is recorded as final: its record is closed, the trade may be closed by it, and then
\* the other recorded stops are to be cancelled.
LEMMA UpdateStopTyped ==
    ASSUME TypeOK, NEW s \in Stops, NEW filled \in Nat, NEW next \in BotType,
           next.todo \subseteq Stops, NEW after \in Backs,
           UpdateStop(s, filled, next, after)
    PROVE  /\ rec' \in Seq(Records) /\ Len(rec') = Len(rec)
           /\ trade' \in [open : BOOLEAN, amount : Nat]
           /\ bot' \in BotType /\ bot'.todo \subseteq Stops
<1>1. [rec EXCEPT ![s] = "closed"] \in Seq(Records) /\ Len([rec EXCEPT ![s] = "closed"]) = Len(rec)
  <2>1. rec \in Seq(Records) /\ s \in 1..Len(rec) /\ "closed" \in Records
    BY DEF TypeOK, Stops, Records
  <2> QED
    BY <2>1, ExceptSeq
<1>2. rec' \in Seq(Records) /\ Len(rec') = Len(rec)
  BY <1>1, CommittedTyped DEF UpdateStop
<1>3. trade' \in [open : BOOLEAN, amount : Nat]
  BY SoldTyped DEF UpdateStop
<1> DEFINE T == OpenStops \ {s}
<1>4. T \subseteq Stops /\ Stops \subseteq Nat
  BY DEF OpenStops, TypeOK, Stops
<1>5. bot' = next \/ bot' = [next EXCEPT !.pc = "cancel", !.back = after, !.todo = T]
  BY DEF UpdateStop
<1> HIDE DEF T
<1>6. bot' \in BotType
  <2>1. T \in SUBSET Nat
    BY <1>4
  <2>2. [next EXCEPT !.pc = "cancel", !.back = after, !.todo = T] \in BotType
    BY <2>1, BotTyped
  <2> QED
    BY <1>5, <2>2
<1>7. bot'.todo \subseteq Stops
  BY <1>4, <1>5 DEF BotType
<1> QED
  BY <1>2, <1>3, <1>6, <1>7

\* The next stop of a loop.
LEMMA RestTyped ==
    ASSUME TypeOK
    PROVE  Rest \in BotType /\ Rest.todo \subseteq Stops /\ Rest.todo = bot.todo \ {Current}
           /\ Rest.pc = bot.pc /\ Rest.back = bot.back /\ Rest.seen = bot.seen /\ Rest.sell = bot.sell
  BY DEF TypeOK, Rest, BotType

\* Types hold through each step.
LEMMA TypedStep ==
    ASSUME TypeOK, [Next]_vars
    PROVE  TypeOK'
<1>1. ASSUME NEW s \in Stops, StopFills(s) \/ StopDropped(s)
      PROVE  TypeOK'
  <2>1. stops[s] \in StopType /\ coins \in Nat
    BY DEF TypeOK, Stops
  <2>2. \E v \in StopType : stops' = [stops EXCEPT ![s] = v]
    <3>1. CASE StopDropped(s)
      <4>1. stops' = [stops EXCEPT ![s] = [stops[s] EXCEPT !.st = "canceled"]]
        BY <3>1 DEF StopDropped, TypeOK
      <4>2. [stops[s] EXCEPT !.st = "canceled"] \in StopType
        BY <2>1 DEF StopType, Status
      <4> QED
        BY <4>1, <4>2
    <3>2. CASE StopFills(s)
      <4>1. PICK a \in 1..(stops[s].amount - stops[s].filled) :
               stops' = [stops EXCEPT ![s].filled = @ + a,
                                      ![s].st = IF stops[s].filled + a = stops[s].amount
                                                THEN "filled" ELSE "live"]
        BY <3>2 DEF StopFills
      <4> DEFINE f == stops[s].filled + a
                 st == IF f = stops[s].amount THEN "filled" ELSE "live"
      <4>2. f \in Nat /\ st \in Status
        BY <2>1 DEF StopType, Status
      <4>3. stops' = [stops EXCEPT ![s] = [stops[s] EXCEPT !.filled = f, !.st = st]]
        BY <4>1
      <4> HIDE DEF f, st
      <4>4. [stops[s] EXCEPT !.filled = f, !.st = st] \in StopType
        BY <2>1, <4>2 DEF StopType
      <4> QED
        BY <4>3, <4>4
    <3> QED
      BY <1>1, <3>1, <3>2
  <2>3. stops' \in Seq(StopType) /\ Len(stops') = Len(stops)
    BY <2>2 DEF TypeOK, Stops
  <2>4. coins' \in Nat
    <3>1. CASE StopDropped(s)
      BY <2>1, <3>1 DEF StopDropped
    <3>2. CASE StopFills(s)
      <4>1. stops[s].amount - stops[s].filled \in Int
        BY <2>1 DEF StopType
      <4>2. PICK a \in 1..(stops[s].amount - stops[s].filled) : a <= coins /\ coins' = coins - a
        BY <3>2 DEF StopFills
      <4> QED
        BY <2>1, <4>1, <4>2
    <3> QED
      BY <1>1, <3>1, <3>2
  <2>5. Stops' = Stops
    BY <2>3 DEF TypeOK, Stops
  <2> QED
    BY <1>1, <2>3, <2>4, <2>5 DEF StopFills, StopDropped, TypeOK
<1>2. CASE OrderFills
  <2>1. order' \in OrderType
    BY <1>2 DEF OrderFills, TypeOK, OrderType
  <2>2. coins' \in Nat
    BY <1>2 DEF OrderFills, TypeOK, OrderType
  <2> QED
    BY <1>2, <2>1, <2>2 DEF OrderFills, TypeOK, Stops
<1>3. ASSUME NEW pc \in Places, bot' = [bot EXCEPT !.pc = pc]
      PROVE  bot' \in BotType /\ bot'.todo = bot.todo
  BY <1>3 DEF TypeOK, BotType
<1>4. ASSUME NEW back \in Backs, bot' = CancelAll(back)
      PROVE  bot' \in BotType /\ bot'.todo \subseteq Stops
  <2>1. OpenStops \subseteq Stops /\ OpenStops \subseteq Nat
    BY DEF OpenStops, TypeOK, Stops
  <2> QED
    <3>1. bot \in BotType /\ "cancel" \in Places /\ OpenStops \in SUBSET Nat
      BY <2>1 DEF TypeOK, Places
    <3>2. bot' \in BotType
      BY <1>4, <3>1, BotTyped DEF CancelAll
    <3> QED
      BY <1>4, <2>1, <3>1, <3>2 DEF CancelAll, BotType
<1>5. ASSUME bot' \in BotType, bot'.todo \subseteq Stops, faults' \in 0..MaxFaults,
             slipped' \in BOOLEAN,
             UNCHANGED <<option, stops, order, coins, rec, trade, ordered>>
      PROVE  TypeOK'
  BY <1>5 DEF TypeOK, Stops
<1>6. Fault => faults' \in 0..MaxFaults
  BY StoplossAssumption DEF Fault, TypeOK
<1>7. Current \in Stops => stops[Current].filled \in Nat
  <2>1. \A s \in Stops : stops[s] \in StopType
    BY DEF TypeOK, Stops
  <2> QED
    BY <2>1 DEF StopType
<1>8. CASE CancelStop \/ CancelMadeUp
  <2>1. Current \in Stops
    BY <1>8, CurrentInHand DEF CancelStop, CancelMadeUp
  <2>2. PICK filled \in Nat : UpdateStop(Current, filled, Rest, bot.back)
    <3>1. CASE CancelStop
      BY <1>7, <2>1, <3>1 DEF CancelStop
    <3>2. CASE CancelMadeUp
      BY <1>7, <2>1, <3>2 DEF CancelMadeUp
    <3> QED
      BY <1>8, <3>1, <3>2
  <2>3. stops' \in Seq(StopType) /\ Len(stops') = Len(stops)
    <3>1. stops' = stops \/ stops' = [stops EXCEPT ![Current].st = "canceled"]
      BY <1>8 DEF CancelStop, CancelMadeUp
    <3>2. stops[Current] \in StopType
      BY <2>1 DEF TypeOK, Stops
    <3>3. [stops[Current] EXCEPT !.st = "canceled"] \in StopType
      BY <3>2 DEF StopType, Status
    <3>4. stops' = stops \/ stops' = [stops EXCEPT ![Current] = [stops[Current] EXCEPT !.st = "canceled"]]
      BY <3>1
    <3>5. stops \in Seq(StopType) /\ Current \in 1..Len(stops)
      BY <2>1 DEF TypeOK, Stops
    <3> QED
      BY <3>3, <3>4, <3>5, ExceptSeq
  <2>4. bot.back \in Backs
    BY DEF TypeOK, BotType
  <2>5. /\ rec' \in Seq(Records) /\ Len(rec') = Len(rec)
        /\ trade' \in [open : BOOLEAN, amount : Nat]
        /\ bot' \in BotType /\ bot'.todo \subseteq Stops
    BY <2>1, <2>2, <2>4, RestTyped, UpdateStopTyped
  <2>6. faults' \in 0..MaxFaults /\ slipped' \in BOOLEAN
    BY <1>6, <1>8 DEF CancelStop, CancelMadeUp, TypeOK
  <2>7. Stops' = Stops
    BY <2>3 DEF TypeOK, Stops
  <2> QED
    BY <1>8, <2>3, <2>5, <2>6, <2>7 DEF CancelStop, CancelMadeUp, TypeOK
<1>9. CASE CancelRefused \/ FetchFails
  <2>1. bot' = Rest /\ UNCHANGED <<exchange, rec, trade, ordered>>
    BY <1>9 DEF CancelRefused, FetchFails
  <2>2. faults' \in 0..MaxFaults /\ slipped' \in BOOLEAN
    BY <1>6, <1>9 DEF CancelRefused, FetchFails, TypeOK
  <2> QED
    BY <1>5, <2>1, <2>2, RestTyped DEF exchange
<1>10. CASE CancelRaises \/ FetchRaises
  <2>1. bot' = [bot EXCEPT !.pc = "commit"] /\ UNCHANGED <<exchange, rec, trade, ordered>>
    BY <1>10 DEF CancelRaises, FetchRaises, Go
  <2>2. faults' \in 0..MaxFaults /\ slipped' \in BOOLEAN
    BY <1>6, <1>10 DEF CancelRaises, FetchRaises, TypeOK
  <2> QED
    BY <1>3, <1>5, <2>1, <2>2 DEF exchange, TypeOK, Places
<1>11. CASE CancelEnd \/ BeginProcess \/ Trail \/ ExitNotPlaced
  <2>1. bot.back \in Places /\ ExitEnd \in Places
    BY DEF TypeOK, BotType, ExitEnd, Places, Backs
  <2>2. PICK pc \in Places : bot' = [bot EXCEPT !.pc = pc]
    <3>1. CASE CancelEnd
      BY <2>1, <3>1 DEF CancelEnd, Go
    <3>2. CASE BeginProcess
      BY <3>2 DEF BeginProcess, Go, Places
    <3>3. CASE Trail
      BY <3>3 DEF Trail, Go, Places
    <3>4. CASE ExitNotPlaced
      BY <2>1, <3>4 DEF ExitNotPlaced, Go
    <3> QED
      BY <1>11, <3>1, <3>2, <3>3, <3>4
  <2>3. UNCHANGED <<exchange, rec, trade, ordered, faults, slipped>>
    BY <1>11 DEF CancelEnd, BeginProcess, Trail, ExitNotPlaced
  <2> QED
    BY <1>3, <1>5, <2>2, <2>3 DEF exchange, TypeOK
<1>12. CASE ManageFilled
  <2>1. trade' \in [open : BOOLEAN, amount : Nat]
    <3>1. order.amount \in Nat /\ trade.amount \in Nat
      BY DEF TypeOK, OrderType
    <3> DEFINE a == trade.amount + order.amount
    <3>2. trade' = [trade EXCEPT !.amount = a] \/ trade' = Sold(trade, order.amount)
      BY <1>12 DEF ManageFilled
    <3>3. a \in Nat
      BY <3>1
    <3> HIDE DEF a
    <3> QED
      BY <3>1, <3>2, <3>3, SoldTyped DEF TypeOK
  <2>2. bot' = CancelAll("stops") \/ bot' = [bot EXCEPT !.pc = "stops"]
    BY <1>12 DEF ManageFilled
  <2>3. bot' \in BotType /\ bot'.todo \subseteq Stops
    BY <1>3, <1>4, <2>2 DEF TypeOK, Places, Backs
  <2>4. order' \in OrderType
    BY <1>12 DEF ManageFilled, NoOrder, OrderType
  <2> QED
    BY <1>12, <2>1, <2>3, <2>4 DEF ManageFilled, TypeOK, Stops
<1>13. CASE ManageOpen
  <2>1. order' \in OrderType
    BY <1>13 DEF ManageOpen, NoOrder, OrderType, TypeOK
  <2>2. bot' \in BotType /\ bot'.todo = bot.todo
    BY <1>3, <1>13 DEF ManageOpen, Go, Places
  <2> QED
    BY <1>13, <2>1, <2>2 DEF ManageOpen, TypeOK, Stops
<1>14. CASE BeginStops
  <2>1. OpenStops \subseteq Stops /\ OpenStops \subseteq Nat
    BY DEF OpenStops, TypeOK, Stops
  <2>2. bot' \in BotType /\ bot'.todo \subseteq Stops
    <3>1. CASE trade.open
      <4>1. bot' = [bot EXCEPT !.pc = "fetch", !.todo = OpenStops, !.seen = {}]
        BY <1>14, <3>1 DEF BeginStops
      <4>2. bot \in BotType /\ "fetch" \in Places /\ OpenStops \in SUBSET Nat
        BY <2>1 DEF TypeOK, Places
      <4>3. bot' \in BotType
        BY <4>1, <4>2, BotTyped
      <4> QED
        BY <2>1, <4>1, <4>2, <4>3 DEF BotType
    <3>2. CASE ~trade.open
      BY <1>3, <1>14, <3>2 DEF BeginStops, TypeOK, Places
    <3> QED
      BY <3>1, <3>2
  <2> QED
    BY <1>5, <1>14, <2>2 DEF BeginStops, exchange, TypeOK
<1>15. CASE FetchStop
  <2>1. Current \in Stops /\ Current \in Nat /\ stops[Current] \in StopType
    BY <1>15, CurrentInHand DEF FetchStop, TypeOK, Stops
  <2>2. [id |-> Current, st |-> stops[Current].st] \in [id : Nat, st : Status]
    BY <2>1 DEF StopType
  <2> DEFINE o == [id |-> Current, st |-> stops[Current].st]
             next == [Rest EXCEPT !.seen = @ \cup {o}]
  <2>3. next \in BotType /\ next.todo \subseteq Stops
    <3>1. o \in Seen /\ Rest \in BotType /\ Rest.todo \subseteq Stops
      BY <2>2, RestTyped DEF Seen
    <3> HIDE DEF o
    <3>2. next \in BotType
      BY <3>1, BotTyped
    <3>3. next.todo = Rest.todo
      BY <3>1 DEF BotType
    <3> QED
      BY <3>1, <3>2, <3>3
  <2>4. [next EXCEPT !.pc = "commit"] \in BotType /\ [next EXCEPT !.pc = "commit"].todo \subseteq Stops
    <3>1. "commit" \in Places
      BY DEF Places
    <3> HIDE DEF next
    <3>2. [next EXCEPT !.pc = "commit"] \in BotType
      BY <2>3, <3>1, BotTyped
    <3> QED
      BY <2>3, <3>2 DEF BotType
  <2>5. stops[Current].st \in Status /\ stops[Current].filled \in Nat
    BY <2>1 DEF StopType
  <2>6. UNCHANGED <<exchange, ordered, faults, slipped>>
    BY <1>15 DEF FetchStop
  <2>7. \/ rec' = Committed(rec) /\ bot' = next /\ UNCHANGED trade
        \/ UpdateStop(Current, stops[Current].filled, next, "commit")
        \/ UpdateStop(Current, stops[Current].filled, [next EXCEPT !.pc = "commit"], "commit")
    BY <1>15, <2>5 DEF FetchStop, Status
  <2> HIDE DEF next
  <2>9. "commit" \in Backs
    BY DEF Backs
  <2>8. /\ rec' \in Seq(Records) /\ Len(rec') = Len(rec)
        /\ trade' \in [open : BOOLEAN, amount : Nat]
        /\ bot' \in BotType /\ bot'.todo \subseteq Stops
    <3>1. CASE rec' = Committed(rec) /\ bot' = next /\ UNCHANGED trade
      BY <2>3, <3>1, CommittedTyped DEF TypeOK
    <3>2. CASE UpdateStop(Current, stops[Current].filled, next, "commit")
      BY <2>1, <2>3, <2>5, <2>9, <3>2, UpdateStopTyped
    <3>3. CASE UpdateStop(Current, stops[Current].filled, [next EXCEPT !.pc = "commit"], "commit")
      BY <2>1, <2>4, <2>5, <2>9, <3>3, UpdateStopTyped
    <3> QED
      BY <2>7, <3>1, <3>2, <3>3
  <2> QED
    BY <2>6, <2>8 DEF exchange, TypeOK, Stops
<1>16. CASE DecideStop
  <2>1. UNCHANGED <<exchange, rec, trade, ordered, faults, slipped>>
    BY <1>16 DEF DecideStop
  <2>2. (\E pc \in Places : bot' = [bot EXCEPT !.pc = pc]) \/ bot' = CancelAll("trail")
    BY <1>16 DEF DecideStop, Go, Trailing, Places
  <2>3. bot' \in BotType /\ bot'.todo \subseteq Stops
    BY <1>3, <1>4, <2>2 DEF TypeOK, Backs
  <2> QED
    BY <1>5, <2>1, <2>3 DEF exchange, TypeOK
<1>17. CASE CreateStop
  <2>1. [amount |-> trade.amount, filled |-> 0, st |-> "live"] \in StopType
    BY DEF TypeOK, StopType, Status
  <2>2. /\ stops' \in Seq(StopType) /\ Len(stops') = Len(stops) + 1
        /\ rec' \in Seq(Records) /\ Len(rec') = Len(rec) + 1
    BY <1>17, <2>1 DEF CreateStop, TypeOK, Records
  <2>3. Stops \subseteq Stops'
    BY <2>2 DEF TypeOK, Stops
  <2>4. bot' \in BotType /\ bot'.todo = bot.todo
    BY <1>3, <1>17 DEF CreateStop, Go, Places
  <2> QED
    BY <1>17, <2>2, <2>3, <2>4 DEF CreateStop, TypeOK
<1>18. CASE CreateRefused \/ ExitRefused
  <2>1. OpenStops \subseteq Stops /\ OpenStops \subseteq Nat
    BY DEF OpenStops, TypeOK, Stops
  <2>2. PICK back \in Backs : bot' = [bot EXCEPT !.pc = "refind", !.back = back, !.todo = OpenStops]
    BY <1>18 DEF CreateRefused, ExitRefused, ExitEnd, Backs
  <2>3. bot' \in BotType /\ bot'.todo \subseteq Stops
    <3>1. bot \in BotType /\ "refind" \in Places /\ OpenStops \in SUBSET Nat
      BY <2>1 DEF TypeOK, Places
    <3>2. bot' \in BotType
      BY <2>2, <3>1, BotTyped
    <3> QED
      BY <2>1, <2>2, <3>1, <3>2 DEF BotType
  <2> QED
    BY <1>5, <1>18, <2>3 DEF CreateRefused, ExitRefused, exchange, TypeOK
<1>19. CASE CreateFails
  <2>1. bot' \in BotType /\ bot'.todo \subseteq Stops
    <3>1. bot' = [bot EXCEPT !.pc = "exit", !.sell = -1] \/ bot' = [bot EXCEPT !.pc = "decide"]
      BY <1>19 DEF CreateFails
    <3>2. bot \in BotType /\ {"exit", "decide"} \subseteq Places /\ -1 \in Int
      BY DEF TypeOK, Places
    <3>3. bot' \in BotType
      <4>1. \A x \in Int : [bot EXCEPT !.pc = "exit", !.sell = x] \in BotType
        BY <3>2, BotTyped
      <4>2. [bot EXCEPT !.pc = "decide"] \in BotType
        BY <3>2, BotTyped
      <4> QED
        BY <3>1, <3>2, <4>1, <4>2
    <3>4. bot'.todo = bot.todo
      BY <3>1, <3>2 DEF BotType
    <3> QED
      BY <3>3, <3>4 DEF TypeOK
  <2> QED
    BY <1>5, <1>6, <1>19, <2>1 DEF CreateFails, exchange, TypeOK
<1>20. CASE Refind
  <2>1. CASE bot.todo = {}
    <3>1. bot.back \in Places /\ bot' = [bot EXCEPT !.pc = bot.back] /\ UNCHANGED <<rec, trade>>
      BY <1>20, <2>1 DEF Refind, Go, TypeOK, BotType, Places, Backs
    <3> QED
      BY <1>3, <1>5, <1>20, <3>1 DEF Refind, exchange, TypeOK
  <2>2. CASE bot.todo # {} /\ Live(Current)
    BY <1>5, <1>20, <2>2, RestTyped DEF Refind, exchange, TypeOK
  <2>3. CASE bot.todo # {} /\ ~Live(Current)
    <3>1. UpdateStop(Current, stops[Current].filled, Rest, bot.back)
      BY <1>20, <2>3 DEF Refind
    <3>2. Current \in Stops /\ bot.back \in Backs
      BY <2>3, CurrentInHand DEF TypeOK, BotType
    <3>3. /\ rec' \in Seq(Records) /\ Len(rec') = Len(rec)
          /\ trade' \in [open : BOOLEAN, amount : Nat]
          /\ bot' \in BotType /\ bot'.todo \subseteq Stops
      BY <1>7, <3>1, <3>2, RestTyped, UpdateStopTyped
    <3> QED
      BY <1>20, <3>3 DEF Refind, exchange, TypeOK, Stops
  <2> QED
    BY <2>1, <2>2, <2>3
<1>21. CASE Decide
  <2>1. bot' \in BotType /\ bot'.todo \subseteq Stops
    <3>1. PartAmount \in Nat
      BY StoplossAssumption
    <3>2. \/ bot' = [bot EXCEPT !.pc = "commit"]
          \/ \E amount \in {0, PartAmount} : bot' = [bot EXCEPT !.pc = "exit", !.sell = amount]
      BY <1>21 DEF Decide, Go
    <3>3. bot \in BotType /\ {"exit", "commit"} \subseteq Places /\ {0, PartAmount} \subseteq Int
      BY <3>1 DEF TypeOK, Places
    <3>4. bot' \in BotType
      <4>1. \A x \in Int : [bot EXCEPT !.pc = "exit", !.sell = x] \in BotType
        BY <3>3, BotTyped
      <4>2. [bot EXCEPT !.pc = "commit"] \in BotType
        BY <3>3, BotTyped
      <4> QED
        BY <3>2, <3>3, <4>1, <4>2
    <3>5. bot'.todo = bot.todo
      BY <3>2, <3>3 DEF BotType
    <3> QED
      BY <3>4, <3>5 DEF TypeOK
  <2> QED
    BY <1>5, <1>21, <2>1 DEF Decide, exchange, TypeOK
<1>22. CASE AddToPosition \/ PlaceExit
  <2>1. order' \in OrderType
    <3>1. AddAmount \in Nat /\ ExitAmount \in Nat
      BY StoplossAssumption DEF ExitAmount, TypeOK, BotType
    <3> QED
      BY <1>22, <3>1 DEF AddToPosition, PlaceExit, OrderType
  <2>2. bot' \in BotType /\ bot'.todo = bot.todo
    BY <1>3, <1>22 DEF AddToPosition, PlaceExit, Go, ExitEnd, Places
  <2>3. rec' \in Seq(Records) /\ Len(rec') = Len(rec)
    BY <1>22, CommittedTyped DEF AddToPosition, PlaceExit, TypeOK
  <2>4. ordered' \in 0..MaxOrders
    BY <1>22, StoplossAssumption DEF AddToPosition, PlaceExit, TypeOK
  <2> QED
    BY <1>22, <2>1, <2>2, <2>3, <2>4 DEF AddToPosition, PlaceExit, TypeOK, Stops
<1>23. CASE ExitBegins
  <2>1. bot' = CancelAll("sell") \/ bot' = [bot EXCEPT !.pc = "sell"]
    BY <1>23 DEF ExitBegins
  <2>2. bot' \in BotType /\ bot'.todo \subseteq Stops
    BY <1>3, <1>4, <2>1 DEF TypeOK, Places, Backs
  <2> QED
    BY <1>5, <1>23, <2>2 DEF ExitBegins, exchange, TypeOK
<1>24. CASE Commit \/ Rollback
  <2>1. bot' \in BotType /\ bot'.todo \subseteq Stops
    BY <1>24 DEF Commit, Rollback, Idle, BotType, Places, Backs
  <2>2. rec' \in Seq(Records) /\ Len(rec') = Len(rec)
    <3>1. CASE Commit
      BY <3>1, CommittedTyped DEF Commit, TypeOK
    <3>2. CASE Rollback
      <4>1. rec' = [s \in Stops |-> IF rec[s] = "pending" THEN "forgotten" ELSE rec[s]]
        BY <3>2 DEF Rollback
      <4>2. Stops = 1..Len(rec) /\ \A s \in 1..Len(rec) : rec[s] \in Records
        BY DEF TypeOK, Stops
      <4>3. rec' \in [1..Len(rec) -> Records] /\ Len(rec) \in Nat
        BY <4>1, <4>2 DEF Records, TypeOK
      <4> QED
        BY <4>3
    <3> QED
      BY <1>24, <3>1, <3>2
  <2>3. faults' \in 0..MaxFaults /\ slipped' \in BOOLEAN
    BY <1>6, <1>24 DEF Commit, Rollback, TypeOK
  <2> QED
    BY <1>24, <2>1, <2>2, <2>3 DEF Commit, Rollback, exchange, TypeOK, Stops
<1>25. CASE UNCHANGED vars
  BY <1>25 DEF vars, TypeOK, Stops
<1>26. CASE Closed
  BY <1>25, <1>26 DEF Closed
<1> QED
  BY <1>1, <1>2, <1>8, <1>9, <1>10, <1>11, <1>12, <1>13, <1>14, <1>15, <1>16, <1>17, <1>18,
     <1>19, <1>20, <1>21, <1>22, <1>23, <1>24, <1>25, <1>26 DEF Next, BotStep

-----------------------------------------------------------------------------
(* The safety part *)

\* While working stops only become fewer and their records stay open, the table agrees.
LEMMA AgreeKept ==
    ASSUME StopsAgree, Stops' = Stops, LiveStops' \subseteq LiveStops,
           \A t \in LiveStops' : /\ rec'[t] = "closed" => rec[t] = "closed"
                                 /\ rec[t] \in {"pending", "open"} => rec'[t] \in {"pending", "open"}
    PROVE  /\ StopsAgree'
           /\ Recorded => Recorded'
           /\ Single => Single'
<1>1. StopsAgree'
  <2>1. SUFFICES ASSUME NEW s \in Stops', rec'[s] = "closed", Live(s)'
                 PROVE  FALSE
    BY DEF StopsAgree
  <2>2. s \in LiveStops'
    BY <2>1 DEF LiveStops
  <2>3. rec[s] = "closed" /\ s \in LiveStops
    BY <2>1, <2>2
  <2> QED
    BY <2>3 DEF StopsAgree, LiveStops
<1>2. Recorded => Recorded'
  BY DEF Recorded, OpenStops
<1>3. Single => Single'
  BY DEF Single
<1> QED
  BY <1>1, <1>2, <1>3

\* A stop that no longer works is recorded as final.
LEMMA UpdateStopSafe ==
    ASSUME IInv, NEW s \in Stops, NEW filled \in Nat, NEW next \in BotType, NEW after \in Backs,
           UpdateStop(s, filled, next, after), slipped => slipped',
           Stops' = Stops, LiveStops' \subseteq LiveStops, s \notin LiveStops',
           next.pc \in {"cancel", "fetch", "refind", "commit"},
           next.pc = "refind" => next.back \in {"decide", "commit"},
           ~slipped /\ next.pc = "cancel" => LiveStops' \subseteq next.todo,
           ~slipped /\ next.pc = "fetch" =>
              \A t \in LiveStops' : t \in next.todo \/ [id |-> t, st |-> "live"] \in next.seen,
           ~slipped /\ ~trade.open /\ next.pc # "cancel" => LiveStops' = {}
    PROVE  /\ Control' /\ StopsAgree'
           /\ ~slipped' => Recorded' /\ Single' /\ InHand' /\ Cleared'
<1> DEFINE r == [rec EXCEPT ![s] = "closed"]
<1>1. rec \in Seq(Records) /\ s \in 1..Len(rec) /\ Stops = 1..Len(rec)
  BY DEF IInv, TypeOK, Stops
<1>2. /\ r \in Seq(Records) /\ Len(r) = Len(rec)
      /\ \A t \in 1..Len(rec) : r[t] = IF t = s THEN "closed" ELSE rec[t]
  <2>1. "closed" \in Records
    BY DEF Records
  <2> QED
    BY <1>1, <2>1, ExceptSeq
<1>3. rec' = Committed(r)
  BY DEF UpdateStop
<1> HIDE DEF r
<1>4. \A t \in Stops : t # s => /\ rec'[t] = "closed" <=> rec[t] = "closed"
                                /\ rec'[t] \in {"pending", "open"} <=> rec[t] \in {"pending", "open"}
  BY <1>1, <1>2, <1>3, CommittedTyped
<1>5. LiveStops' \subseteq Stops \ {s}
  BY DEF LiveStops
<1>6. StopsAgree' /\ (Recorded => Recorded') /\ (Single => Single')
  BY <1>4, <1>5, AgreeKept DEF IInv
<1> DEFINE T == OpenStops \ {s}
<1>7. \/ trade.open /\ bot' = [next EXCEPT !.pc = "cancel", !.back = after, !.todo = T]
      \/ ~(trade.open /\ ~trade'.open) /\ bot' = next
  BY DEF UpdateStop
<1>8. Recorded => LiveStops' \subseteq T
  BY <1>5 DEF Recorded
<1> HIDE DEF T
<1>9. trade.open \in BOOLEAN
  BY DEF IInv, TypeOK
<1>10. ~trade.open => ~trade'.open
  <2>1. trade \in [open : BOOLEAN, amount : Nat]
    BY DEF IInv, TypeOK
  <2> QED
    BY <2>1 DEF UpdateStop, StopSold, Sold
<1>11. CASE bot' = [next EXCEPT !.pc = "cancel", !.back = after, !.todo = T]
  <2>1. bot'.pc = "cancel" /\ bot'.todo = T
    BY <1>11 DEF BotType
  <2> QED
    BY <1>6, <1>8, <2>1 DEF Control, InHand, Cleared, IInv
<1>12. CASE ~(trade.open /\ ~trade'.open) /\ bot' = next
  BY <1>6, <1>12 DEF Control, InHand, Cleared, IInv
<1> QED
  BY <1>7, <1>11, <1>12

\* The exchange and the table as they are: only where the bot is matters.
LEMMA OnlyBotMoves ==
    ASSUME IInv, UNCHANGED <<stops, rec>>, slipped => slipped',
           bot'.pc = "create" => trade'.open,
           bot'.pc = "refind" => bot'.back \in {"decide", "commit"},
           ~slipped' =>
              /\ bot'.pc = "cancel" => LiveStops \subseteq bot'.todo
              /\ bot'.pc = "fetch" =>
                    \A s \in LiveStops : s \in bot'.todo \/ [id |-> s, st |-> "live"] \in bot'.seen
              /\ bot'.pc \in {"trail", "create"} => LiveStops = {}
              /\ ~trade'.open /\ bot'.pc # "cancel" => LiveStops = {}
    PROVE  /\ Control' /\ StopsAgree'
           /\ ~slipped' => Recorded' /\ Single' /\ InHand' /\ Cleared'
<1>1. LiveStops' = LiveStops /\ OpenStops' = OpenStops /\ Stops' = Stops
  BY DEF LiveStops, OpenStops, Stops, Live
<1> QED
  BY <1>1 DEF IInv, Control, StopsAgree, Recorded, Single, InHand, Cleared, Live, Stops

\* The safety part holds through each step.
LEMMA SafeStep ==
    ASSUME IInv, [Next]_vars
    PROVE  /\ Control' /\ StopsAgree'
           /\ ~slipped' => Recorded' /\ Single' /\ InHand' /\ Cleared'
<1> DEFINE Goal == /\ Control' /\ StopsAgree'
                   /\ ~slipped' => Recorded' /\ Single' /\ InHand' /\ Cleared'
<1>1. TypeOK /\ bot \in BotType /\ slipped \in BOOLEAN
  BY DEF IInv, TypeOK
<1>2. ~slipped => LiveStops \subseteq OpenStops
  BY DEF IInv, Recorded
<1>3. \A pc \in Places : /\ [bot EXCEPT !.pc = pc].pc = pc /\ [bot EXCEPT !.pc = pc].todo = bot.todo
                         /\ [bot EXCEPT !.pc = pc].back = bot.back
                         /\ [bot EXCEPT !.pc = pc].seen = bot.seen
  BY <1>1 DEF BotType
<1>4. \A back \in Backs : CancelAll(back).pc = "cancel" /\ CancelAll(back).todo = OpenStops
  BY <1>1 DEF BotType, CancelAll
<1>5. ASSUME NEW s \in Stops, StopFills(s) \/ StopDropped(s)
      PROVE  Goal
  <2>1. UNCHANGED <<rec, bot, trade, slipped>>
    BY <1>5 DEF StopFills, StopDropped
  <2>2. Stops' = Stops /\ \A t \in Stops : Live(t)' => Live(t)
    <3>1. stops \in Seq(StopType) /\ s \in DOMAIN stops /\ stops[s].st = "live"
      BY <1>1, <1>5 DEF TypeOK, Stops, StopFills, StopDropped, Live
    <3>2. DOMAIN stops' = DOMAIN stops /\ \A t \in DOMAIN stops : t # s => stops'[t] = stops[t]
      BY <1>5, <3>1 DEF StopFills, StopDropped
    <3> QED
      BY <3>1, <3>2 DEF Stops, Live
  <2>3. LiveStops' \subseteq LiveStops
    BY <2>2 DEF LiveStops
  <2>4. StopsAgree' /\ (Recorded => Recorded') /\ (Single => Single')
    BY <2>1, <2>2, <2>3, AgreeKept DEF IInv
  <2> QED
    BY <2>1, <2>3, <2>4 DEF IInv, Control, InHand, Cleared
<1>6. CASE CancelStop \/ CancelMadeUp
  <2>1. Current \in bot.todo /\ Current \in Stops /\ stops[Current] \in StopType /\ bot.pc = "cancel"
    BY <1>1, <1>6, CurrentInHand DEF CancelStop, CancelMadeUp
  <2>2. PICK filled \in Nat : UpdateStop(Current, filled, Rest, bot.back)
    <3>1. stops[Current].filled \in Nat
      BY <2>1 DEF StopType
    <3> QED
      BY <1>6, <3>1 DEF CancelStop, CancelMadeUp
  <2>3. slipped => slipped'
    BY <1>6 DEF CancelStop, CancelMadeUp
  <2>4. /\ Stops' = Stops /\ stops'[Current].st # "live"
        /\ \A t \in Stops : t # Current => stops'[t] = stops[t]
    <3>1. stops' = IF Live(Current) THEN [stops EXCEPT ![Current].st = "canceled"] ELSE stops
      BY <1>6 DEF CancelStop, CancelMadeUp
    <3>2. stops \in Seq(StopType) /\ Current \in DOMAIN stops
      BY <1>1, <2>1 DEF TypeOK, Stops
    <3>3. CASE ~Live(Current)
      BY <3>1, <3>3 DEF Stops, Live
    <3>4. CASE Live(Current)
      <4>1. stops' = [stops EXCEPT ![Current] = [stops[Current] EXCEPT !.st = "canceled"]]
        BY <3>1, <3>4
      <4>2. [stops[Current] EXCEPT !.st = "canceled"].st = "canceled"
        BY <2>1 DEF StopType
      <4> QED
        BY <3>2, <4>1, <4>2 DEF Stops
    <3> QED
      BY <3>3, <3>4
  <2>5. LiveStops' \subseteq LiveStops \ {Current}
    BY <2>4 DEF LiveStops, Live
  <2>6. /\ Rest \in BotType /\ Rest.pc = "cancel" /\ Rest.todo = bot.todo \ {Current}
        /\ bot.back \in Backs
    BY <1>1, <2>1, RestTyped DEF BotType
  <2>7. ~slipped => LiveStops' \subseteq Rest.todo
    BY <2>1, <2>5, <2>6 DEF IInv, InHand
  <2> HIDE DEF Goal
  <2> QED
    BY <2>1, <2>2, <2>3, <2>4, <2>5, <2>6, <2>7, UpdateStopSafe DEF Goal
<1>7. CASE CancelRefused
  <2>1. bot.todo # {} /\ bot.pc = "cancel" /\ bot' = Rest /\ UNCHANGED <<stops, rec, trade>>
    BY <1>7 DEF CancelRefused, exchange
  <2>2. IF Live(Current) THEN Fault /\ slipped' = TRUE ELSE UNCHANGED <<faults, slipped>>
    BY <1>7 DEF CancelRefused
  <2>3. Rest.pc = "cancel" /\ Rest.todo = bot.todo \ {Current}
    BY <1>1, <2>1, RestTyped
  <2>4. CASE Live(Current)
    <3>1. slipped'
      BY <2>2, <2>4
    <3> QED
      BY <2>1, <2>3, <3>1, OnlyBotMoves
  <2>5. CASE ~Live(Current)
    <3>1. slipped' = slipped
      BY <2>2, <2>5
    <3>2. ~slipped => LiveStops \subseteq Rest.todo
      BY <2>1, <2>3, <2>5 DEF IInv, InHand, LiveStops
    <3> QED
      BY <2>1, <2>3, <3>1, <3>2, OnlyBotMoves
  <2> QED
    BY <2>4, <2>5
<1>8. CASE CancelRaises \/ FetchRaises
  <2>1. bot' = [bot EXCEPT !.pc = "commit"] /\ UNCHANGED <<stops, rec, trade>>
    BY <1>8 DEF CancelRaises, FetchRaises, Go, exchange
  <2>2. bot'.pc = "commit"
    BY <1>3, <2>1 DEF Places
  <2>3. CASE CancelRaises
    <3>1. slipped'
      BY <2>3 DEF CancelRaises
    <3> QED
      BY <2>1, <2>2, <3>1, OnlyBotMoves
  <2>4. CASE FetchRaises
    <3>1. bot.pc = "fetch" /\ slipped' = slipped
      BY <2>4 DEF FetchRaises
    <3> QED
      BY <2>1, <2>2, <3>1, OnlyBotMoves DEF IInv, Cleared
  <2> QED
    BY <1>8, <2>3, <2>4
<1>9. CASE CancelEnd
  <2>1. /\ bot.pc = "cancel" /\ bot.todo = {} /\ bot' = [bot EXCEPT !.pc = bot.back]
        /\ UNCHANGED <<stops, rec, trade, slipped>>
    BY <1>9 DEF CancelEnd, Go, exchange
  <2>2. bot.back \in Places /\ bot.back \notin {"create", "refind", "cancel", "fetch"}
    BY <1>1 DEF BotType, Backs, Places
  <2>3. bot'.pc = bot.back
    BY <1>3, <2>1, <2>2
  <2>4. ~slipped => LiveStops = {}
    BY <2>1 DEF IInv, InHand
  <2> QED
    BY <2>1, <2>2, <2>3, <2>4, OnlyBotMoves
<1>10. CASE BeginProcess \/ ManageOpen \/ ExitNotPlaced \/ Decide \/ AddToPosition
  <2>1. /\ bot.pc \in {"idle", "manage", "sell", "decide"}
        /\ UNCHANGED <<stops, rec, trade, slipped>>
    BY <1>10 DEF BeginProcess, ManageOpen, ExitNotPlaced, Decide, AddToPosition, exchange
  <2>2. \/ \E pc \in {"manage", "stops", "decide", "commit"} : bot' = [bot EXCEPT !.pc = pc]
        \/ \E x \in {0, PartAmount} : bot' = [bot EXCEPT !.pc = "exit", !.sell = x]
    BY <1>10 DEF BeginProcess, ManageOpen, ExitNotPlaced, Decide, AddToPosition, Go, ExitEnd
  <2>3. bot'.pc \in {"manage", "stops", "decide", "commit", "exit"}
    BY <1>1, <2>2 DEF BotType
  <2> QED
    BY <2>1, <2>3, OnlyBotMoves DEF IInv, Cleared
<1>11. CASE ManageFilled
  <2>1. bot.pc = "manage" /\ UNCHANGED <<stops, rec, slipped>>
    BY <1>11 DEF ManageFilled
  <2>2. \/ bot' = CancelAll("stops")
        \/ trade'.open /\ bot' = [bot EXCEPT !.pc = "stops"]
    BY <1>11 DEF ManageFilled, CancelAfterFill
  <2>3. CASE bot' = CancelAll("stops")
    <3>1. bot'.pc = "cancel" /\ bot'.todo = OpenStops
      BY <1>4, <2>3 DEF Backs
    <3> QED
      BY <1>2, <2>1, <3>1, OnlyBotMoves
  <2>4. CASE trade'.open /\ bot' = [bot EXCEPT !.pc = "stops"]
    <3>1. bot'.pc = "stops"
      BY <1>3, <2>4 DEF Places
    <3> QED
      BY <2>1, <2>4, <3>1, OnlyBotMoves
  <2> QED
    BY <2>2, <2>3, <2>4
<1>12. CASE BeginStops
  <2>1. bot.pc = "stops" /\ UNCHANGED <<stops, rec, trade, slipped>>
    BY <1>12 DEF BeginStops, exchange
  <2>2. CASE trade.open
    <3>1. bot'.pc = "fetch" /\ bot'.todo = OpenStops
      BY <1>1, <1>12, <2>2 DEF BeginStops, BotType
    <3> QED
      BY <1>2, <2>1, <2>2, <3>1, OnlyBotMoves
  <2>3. CASE ~trade.open
    <3>1. bot'.pc = "commit"
      BY <1>1, <1>12, <2>3 DEF BeginStops, BotType
    <3> QED
      BY <2>1, <2>3, <3>1, OnlyBotMoves DEF IInv, Cleared
  <2> QED
    BY <2>2, <2>3
<1>13. CASE FetchStop
  <2> DEFINE o == [id |-> Current, st |-> stops[Current].st]
             next == [Rest EXCEPT !.seen = @ \cup {o}]
             last == [next EXCEPT !.pc = "commit"]
  <2>1. /\ bot.pc = "fetch" /\ Current \in bot.todo /\ Current \in Stops
        /\ stops[Current] \in StopType /\ UNCHANGED <<stops, slipped>>
    BY <1>1, <1>13, CurrentInHand DEF FetchStop, exchange
  <2>2. o \in Seen /\ stops[Current].filled \in Nat /\ stops[Current].st \in Status
    BY <1>1, <2>1 DEF Seen, StopType, TypeOK, Stops
  <2>3. /\ Rest \in BotType /\ Rest.pc = "fetch" /\ Rest.todo = bot.todo \ {Current}
        /\ Rest.seen = bot.seen
    BY <1>1, <2>1, RestTyped
  <2>4. \/ o.st = "live" /\ rec' = Committed(rec) /\ bot' = next /\ UNCHANGED trade
        \/ o.st = "canceled" /\ UpdateStop(Current, stops[Current].filled, next, "commit")
        \/ o.st = "filled" /\ UpdateStop(Current, stops[Current].filled, last, "commit")
    BY <1>13, <2>2 DEF FetchStop, Status
  <2>5. o.st = stops[Current].st /\ (o.st = "live" => o = [id |-> Current, st |-> "live"])
    OBVIOUS
  <2> HIDE DEF o
  <2>6. /\ next \in BotType /\ next.pc = "fetch" /\ next.todo = bot.todo \ {Current}
        /\ next.seen = bot.seen \cup {o}
    <3>1. next \in BotType
      BY <2>2, <2>3, BotTyped
    <3> QED
      BY <2>3, <3>1 DEF BotType
  <2> HIDE DEF next
  <2>7. last \in BotType /\ last.pc = "commit"
    <3>1. "commit" \in Places
      BY DEF Places
    <3>2. last \in BotType
      BY <2>6, <3>1, BotTyped
    <3> QED
      BY <2>6, <3>2 DEF BotType
  <2> HIDE DEF last
  <2>8. LiveStops' = LiveStops /\ Stops' = Stops
    BY <2>1 DEF LiveStops, Stops, Live
  <2>9. ~slipped => \A t \in LiveStops \ {Current} :
                       t \in next.todo \/ [id |-> t, st |-> "live"] \in next.seen
    BY <2>1, <2>6 DEF IInv, InHand
  <2>10. "commit" \in Backs
    BY DEF Backs
  <2>11. ~slipped /\ ~trade.open => LiveStops = {}
    BY <2>1 DEF IInv, Cleared
  <2>12. CASE o.st = "live" /\ rec' = Committed(rec) /\ bot' = next /\ UNCHANGED trade
    <3>1. rec \in Seq(Records) /\ LiveStops \subseteq DOMAIN rec
      BY <1>1 DEF TypeOK, LiveStops, Stops
    <3>2. StopsAgree' /\ (Recorded => Recorded') /\ (Single => Single')
      BY <2>8, <2>12, <3>1, CommittedTyped, AgreeKept DEF IInv
    <3>3. bot'.pc = "fetch" /\ bot'.todo = next.todo /\ bot'.seen = next.seen
      BY <2>6, <2>12
    <3>4. ~slipped => InHand'
      BY <2>5, <2>6, <2>8, <2>9, <2>12, <3>3 DEF InHand
    <3> QED
      BY <2>1, <2>8, <2>11, <2>12, <3>2, <3>3, <3>4 DEF IInv, Control, Cleared
  <2>13. ASSUME o.st # "live"
         PROVE  Current \notin LiveStops'
    BY <2>5, <2>8, <2>13 DEF LiveStops, Live
  <2> HIDE DEF Goal
  <2>14. CASE o.st = "canceled" /\ UpdateStop(Current, stops[Current].filled, next, "commit")
    <3>1. ~slipped => \A t \in LiveStops' : t \in next.todo \/ [id |-> t, st |-> "live"] \in next.seen
      BY <2>8, <2>9, <2>13, <2>14
    <3> QED
      BY <2>1, <2>2, <2>6, <2>8, <2>10, <2>11, <2>13, <2>14, <3>1, UpdateStopSafe DEF Goal
  <2>15. CASE o.st = "filled" /\ UpdateStop(Current, stops[Current].filled, last, "commit")
    BY <2>1, <2>2, <2>7, <2>8, <2>10, <2>11, <2>13, <2>15, UpdateStopSafe DEF Goal
  <2> QED
    BY <2>4, <2>12, <2>14, <2>15 DEF Goal
<1>14. CASE FetchFails
  <2>1. bot.todo # {} /\ bot.pc = "fetch" /\ bot' = Rest /\ slipped' /\ UNCHANGED <<stops, rec, trade>>
    BY <1>14 DEF FetchFails, exchange
  <2>2. Rest.pc = "fetch"
    BY <1>1, <2>1, RestTyped
  <2> QED
    BY <2>1, <2>2, OnlyBotMoves
<1>15. CASE DecideStop
  <2>1. bot.pc = "fetch" /\ bot.todo = {} /\ UNCHANGED <<stops, rec, trade, slipped>>
    BY <1>15 DEF DecideStop, exchange
  <2>2. \/ bot' = [bot EXCEPT !.pc = "decide"]
        \/ trade.open /\ StopMissing /\ bot' = [bot EXCEPT !.pc = "create"]
        \/ bot' = CancelAll("trail")
    BY <1>15 DEF DecideStop, Go, Trailing
  <2>3. CASE bot' = [bot EXCEPT !.pc = "decide"]
    <3>1. bot'.pc = "decide"
      BY <1>3, <2>3 DEF Places
    <3> QED
      BY <2>1, <3>1, OnlyBotMoves DEF IInv, Cleared
  <2>4. CASE trade.open /\ StopMissing /\ bot' = [bot EXCEPT !.pc = "create"]
    <3>1. bot'.pc = "create"
      BY <1>3, <2>4 DEF Places
    <3>2. ASSUME ~slipped, NEW s \in LiveStops
          PROVE  FALSE
      <4>1. [id |-> s, st |-> "live"] \in bot.seen
        BY <2>1, <3>2 DEF IInv, InHand
      <4>2. [id |-> s, st |-> "live"].st = "canceled"
        BY <2>4, <4>1 DEF StopMissing
      <4> QED
        BY <4>2
    <3> QED
      BY <2>1, <2>4, <3>1, <3>2, OnlyBotMoves
  <2>5. CASE bot' = CancelAll("trail")
    <3>1. bot'.pc = "cancel" /\ bot'.todo = OpenStops
      BY <1>4, <2>5 DEF Backs
    <3> QED
      BY <1>2, <2>1, <3>1, OnlyBotMoves
  <2> QED
    BY <2>2, <2>3, <2>4, <2>5
<1>16. CASE Trail
  <2>1. bot.pc = "trail" /\ UNCHANGED <<stops, rec, trade, slipped>>
    BY <1>16 DEF Trail, exchange
  <2>2. \/ trade.open /\ bot' = [bot EXCEPT !.pc = "create"]
        \/ bot' = [bot EXCEPT !.pc = "decide"]
    BY <1>16 DEF Trail, Go
  <2>3. (trade.open /\ bot'.pc = "create") \/ bot'.pc = "decide"
    <3>1. {"create", "decide"} \subseteq Places
      BY DEF Places
    <3>2. [bot EXCEPT !.pc = "create"].pc = "create" /\ [bot EXCEPT !.pc = "decide"].pc = "decide"
      BY <1>3, <3>1
    <3> QED
      BY <2>2, <3>2
  <2>4. ~slipped => LiveStops = {}
    BY <2>1 DEF IInv, Cleared
  <2> QED
    BY <2>1, <2>3, <2>4, OnlyBotMoves
<1>17. CASE CreateStop
  <2>1. /\ bot.pc = "create" /\ bot' = [bot EXCEPT !.pc = "decide"]
        /\ stops' = Append(stops, [amount |-> trade.amount, filled |-> 0, st |-> "live"])
        /\ rec' = Append(rec, "pending") /\ UNCHANGED <<trade, slipped>>
    BY <1>17 DEF CreateStop, Go
  <2> DEFINE n == Len(stops)
             v == [amount |-> trade.amount, filled |-> 0, st |-> "live"]
  <2>2. /\ n \in Nat /\ Stops = 1..n /\ rec \in Seq(Records) /\ Len(rec) = n
        /\ stops \in Seq(StopType) /\ trade.amount \in Nat
    BY <1>1 DEF TypeOK, Stops
  <2>3. v \in StopType /\ v.st = "live" /\ "pending" \in Records
    BY <2>2 DEF StopType, Status, Records
  <2> HIDE DEF v
  <2>4. /\ Stops' = 1..(n + 1) /\ stops'[n + 1] = v /\ rec'[n + 1] = "pending"
        /\ \A s \in 1..n : stops'[s] = stops[s] /\ rec'[s] = rec[s]
    BY <2>1, <2>2, <2>3 DEF Stops, v
  <2>5. bot'.pc = "decide"
    BY <1>3, <2>1 DEF Places
  <2> HIDE DEF n
  <2>6. StopsAgree'
    BY <2>2, <2>4 DEF IInv, StopsAgree, Live
  <2>7. trade'.open
    BY <2>1 DEF IInv, Control
  <2>8. ~slipped => LiveStops' = {n + 1}
    <3>1. SUFFICES ASSUME ~slipped
                   PROVE  LiveStops' = {n + 1}
      OBVIOUS
    <3>2. \A s \in 1..n : stops[s].st # "live"
      BY <2>1, <2>2, <3>1 DEF IInv, Cleared, LiveStops, Live
    <3>3. \A s \in 1..(n + 1) : s \in 1..n \/ s = n + 1
      BY <2>2
    <3> QED
      BY <2>2, <2>3, <2>4, <3>2, <3>3 DEF LiveStops, Live
  <2>9. ~slipped' => Recorded' /\ Single'
    BY <2>1, <2>2, <2>4, <2>8 DEF Recorded, Single, OpenStops
  <2> QED
    BY <2>5, <2>6, <2>7, <2>9 DEF Control, InHand, Cleared
<1>18. CASE CreateRefused \/ ExitRefused
  <2>1. bot.pc \in {"create", "sell"} /\ UNCHANGED <<stops, rec, trade, slipped>>
    BY <1>18 DEF CreateRefused, ExitRefused, exchange
  <2>2. PICK back \in {"decide", "commit"} :
           bot' = [bot EXCEPT !.pc = "refind", !.back = back, !.todo = OpenStops]
    BY <1>18 DEF CreateRefused, ExitRefused, ExitEnd
  <2>3. bot'.pc = "refind" /\ bot'.back \in {"decide", "commit"}
    BY <1>1, <2>2 DEF BotType
  <2> QED
    BY <2>1, <2>3, OnlyBotMoves DEF IInv, Cleared
<1>19. CASE CreateFails
  <2>1. bot.pc = "create" /\ UNCHANGED <<stops, rec, trade, slipped>>
    BY <1>19 DEF CreateFails, exchange
  <2>2. bot' = [bot EXCEPT !.pc = "exit", !.sell = -1] \/ bot' = [bot EXCEPT !.pc = "decide"]
    BY <1>19 DEF CreateFails
  <2>3. bot'.pc \in {"exit", "decide"}
    BY <1>1, <2>2 DEF BotType
  <2> QED
    BY <2>1, <2>3, OnlyBotMoves DEF IInv, Cleared
<1>20. CASE Refind
  <2>1. bot.pc = "refind" /\ UNCHANGED <<stops, slipped>> /\ bot.back \in {"decide", "commit"}
    BY <1>20 DEF Refind, exchange, IInv, Control
  <2>2. ~slipped /\ ~trade.open => LiveStops = {}
    BY <2>1 DEF IInv, Cleared
  <2>3. CASE bot.todo = {}
    <3>1. bot' = [bot EXCEPT !.pc = bot.back] /\ UNCHANGED <<rec, trade>>
      BY <1>20, <2>3 DEF Refind, Go
    <3>2. bot'.pc = bot.back
      BY <1>3, <2>1, <3>1 DEF Places
    <3> QED
      BY <2>1, <2>2, <3>1, <3>2, OnlyBotMoves
  <2>4. CASE bot.todo # {} /\ Live(Current)
    <3>1. bot' = Rest /\ UNCHANGED <<rec, trade>>
      BY <1>20, <2>4 DEF Refind
    <3>2. bot'.pc = "refind" /\ bot'.back \in {"decide", "commit"}
      BY <1>1, <2>1, <3>1, RestTyped
    <3> QED
      BY <2>1, <2>2, <3>1, <3>2, OnlyBotMoves
  <2>5. CASE bot.todo # {} /\ ~Live(Current)
    <3>1. UpdateStop(Current, stops[Current].filled, Rest, bot.back)
      BY <1>20, <2>5 DEF Refind
    <3>2. Current \in Stops /\ stops[Current].filled \in Nat
      BY <1>1, <2>5, CurrentInHand DEF StopType
    <3>3. /\ Rest \in BotType /\ Rest.pc = "refind" /\ Rest.back \in {"decide", "commit"}
          /\ bot.back \in Backs
      BY <1>1, <2>1, RestTyped DEF Backs
    <3>4. LiveStops' = LiveStops /\ Stops' = Stops /\ Current \notin LiveStops'
      BY <2>1, <2>5 DEF LiveStops, Stops, Live
    <3> HIDE DEF Goal
    <3> QED
      BY <2>1, <2>2, <3>1, <3>2, <3>3, <3>4, UpdateStopSafe DEF Goal
  <2> QED
    BY <2>3, <2>4, <2>5
<1>21. CASE ExitBegins
  <2>1. bot.pc = "exit" /\ UNCHANGED <<stops, rec, trade, slipped>>
    BY <1>21 DEF ExitBegins, exchange
  <2>2. CASE bot' = CancelAll("sell")
    <3>1. bot'.pc = "cancel" /\ bot'.todo = OpenStops
      BY <1>4, <2>2 DEF Backs
    <3> QED
      BY <1>2, <2>1, <3>1, OnlyBotMoves
  <2>3. CASE bot' = [bot EXCEPT !.pc = "sell"]
    <3>1. bot'.pc = "sell"
      BY <1>3, <2>3 DEF Places
    <3> QED
      BY <2>1, <3>1, OnlyBotMoves DEF IInv, Cleared
  <2> QED
    BY <1>21, <2>2, <2>3 DEF ExitBegins
<1>22. CASE PlaceExit \/ Commit
  <2>1. /\ bot.pc \in {"sell", "commit"} /\ UNCHANGED <<stops, trade, slipped>>
        /\ rec' = Committed(rec)
        /\ bot' \in {Idle} \cup {[bot EXCEPT !.pc = pc] : pc \in {"decide", "commit"}}
    BY <1>22 DEF PlaceExit, Commit, exchange, Go, ExitEnd
  <2>2. bot'.pc \in {"idle", "decide", "commit"}
    BY <1>1, <2>1 DEF Idle, BotType
  <2>3. LiveStops' = LiveStops /\ Stops' = Stops
    BY <2>1 DEF LiveStops, Stops, Live
  <2>4. rec \in Seq(Records) /\ LiveStops \subseteq DOMAIN rec
    BY <1>1 DEF TypeOK, LiveStops, Stops
  <2>5. StopsAgree' /\ (Recorded => Recorded') /\ (Single => Single')
    BY <2>1, <2>3, <2>4, CommittedTyped, AgreeKept DEF IInv
  <2> QED
    BY <2>1, <2>2, <2>3, <2>5 DEF IInv, Control, InHand, Cleared
<1>23. CASE Rollback
  <2>1. /\ slipped' /\ bot' = Idle /\ UNCHANGED <<stops, trade>>
        /\ rec' = [s \in Stops |-> IF rec[s] = "pending" THEN "forgotten" ELSE rec[s]]
    BY <1>23 DEF Rollback, exchange
  <2>2. StopsAgree'
    BY <2>1 DEF IInv, StopsAgree, Stops, Live
  <2> QED
    BY <2>1, <2>2 DEF Control, Idle
<1>24. CASE OrderFills \/ Closed \/ UNCHANGED vars
  <2>1. UNCHANGED <<stops, rec, trade, bot, slipped>>
    BY <1>24 DEF OrderFills, Closed, vars
  <2> QED
    BY <2>1 DEF IInv, Control, StopsAgree, Recorded, Single, InHand, Cleared, LiveStops,
                OpenStops, Stops, Live
<1> QED
  BY <1>5, <1>6, <1>7, <1>8, <1>9, <1>10, <1>11, <1>12, <1>13, <1>14, <1>15, <1>16, <1>17,
     <1>18, <1>19, <1>20, <1>21, <1>22, <1>23, <1>24 DEF Next, BotStep

-----------------------------------------------------------------------------
(* The theorems *)

\* There is no stop at the beginning.
LEMMA InitInv == Init => IInv
<1> SUFFICES ASSUME Init
             PROVE  IInv
  OBVIOUS
<1>1. stops = <<>> /\ rec = <<>> /\ Stops = {}
  BY DEF Init, Stops
<1>2. Idle \in BotType /\ Idle.todo = {} /\ Idle.pc = "idle"
  BY DEF Idle, BotType, Places, Backs
<1>3. TypeOK
  <2>1. Amount \in Nat /\ Amount + ExtraCoins \in Nat /\ MaxOrders \in Nat /\ MaxFaults \in Nat
    BY StoplossAssumption
  <2>2. stops \in Seq(StopType) /\ rec \in Seq(Records) /\ Len(rec) = Len(stops)
    BY <1>1
  <2>3. order \in OrderType
    BY DEF Init, NoOrder, OrderType
  <2>4. trade \in [open : BOOLEAN, amount : Nat] /\ coins \in Nat
    BY <2>1 DEF Init
  <2>5. ordered \in 0..MaxOrders /\ faults \in 0..MaxFaults
    BY <2>1 DEF Init
  <2>7. slipped \in BOOLEAN
    BY DEF Init
  <2>6. option \in [blocking : BOOLEAN, trailing : BOOLEAN] /\ bot = Idle
    BY DEF Init
  <2> QED
    BY <1>2, <2>2, <2>3, <2>4, <2>5, <2>6, <2>7 DEF TypeOK
<1> QED
  BY <1>1, <1>2, <1>3 DEF IInv, Init, Control, StopsAgree, Recorded, Single, InHand, Cleared,
                          LiveStops

\* The invariant is inductive.
LEMMA InvAlways == Spec => []IInv
<1>1. IInv /\ [Next]_vars => IInv'
  BY TypedStep, SafeStep DEF IInv
<1> QED
  BY InitInv, <1>1, PTL DEF Spec

\* Types hold in each state; the bot works on stops that exist.
THEOREM StoplossTyped == Spec => []TypeOK
<1>1. IInv => TypeOK
  BY DEF IInv
<1> QED
  BY <1>1, InvAlways, PTL

\* A stop that the table has as closed never works on the exchange, even when requests fail and
\* sessions are rolled back.
THEOREM StopsAlwaysAgree == Spec => []StopsAgree
<1>1. IInv => StopsAgree
  BY DEF IInv
<1> QED
  BY <1>1, InvAlways, PTL

\* Unless one has escaped the bot, a trade never has two working stops.
THEOREM AlwaysOneStop == Spec => []OneStop
<1>1. IInv => OneStop
  <2>1. SUFFICES ASSUME Single
                 PROVE  Cardinality(LiveStops) <= 1
    BY DEF IInv, OneStop, LiveStops
  <2>2. CASE LiveStops = {}
    BY <2>2, FS_EmptySet
  <2>3. ASSUME NEW s \in LiveStops
        PROVE  Cardinality(LiveStops) <= 1
    <3>1. LiveStops = {s}
      BY <2>1 DEF Single
    <3>2. Cardinality({s}) = 1
      BY FS_Singleton
    <3> QED
      BY <3>1, <3>2
  <2> QED
    BY <2>2, <2>3
<1> QED
  BY <1>1, InvAlways, PTL

\* Unless one has escaped the bot, a trade that is closed leaves no working stop behind.
THEOREM ClosedNeverLeavesStop == Spec => []ClosedLeavesNoStop
<1>1. IInv => ClosedLeavesNoStop
  BY DEF IInv, Cleared, ClosedLeavesNoStop, LiveStops
<1> QED
  BY <1>1, InvAlways, PTL

-----------------------------------------------------------------------------
(* Totals.  t is the total of d over 1..n when a running total g leads     *)
(* from 0 to t.                                                            *)

RunningTotal(d, n, g) ==
    /\ g \in [0..n -> Nat] /\ g[0] = 0
    /\ \A s \in 1..n : g[s] = g[s - 1] + d[s]
    /\ \A i, j \in 0..n : i <= j => g[i] <= g[j]

IsTotal(d, n, t) == \E g : RunningTotal(d, n, g) /\ t = g[n]

LEMMA TotalOfNothing ==
    ASSUME NEW d
    PROVE  IsTotal(d, 0, 0)
<1> DEFINE g == [i \in 0..0 |-> 0]
<1>1. RunningTotal(d, 0, g) /\ g[0] = 0
  BY DEF RunningTotal
<1> QED
  BY <1>1 DEF IsTotal

\* No value is more than the total, which is a natural number.
LEMMA PartOfTotal ==
    ASSUME NEW n \in Nat, NEW d \in [1..n -> Nat], NEW t, IsTotal(d, n, t)
    PROVE  t \in Nat /\ \A s \in 1..n : d[s] <= t
<1>1. PICK g : RunningTotal(d, n, g) /\ t = g[n]
  BY DEF IsTotal
<1>2. t \in Nat
  BY <1>1 DEF RunningTotal
<1>3. ASSUME NEW s \in 1..n
      PROVE  d[s] <= t
  <2>1. s - 1 \in 0..n /\ s \in 0..n /\ n \in 0..n /\ s <= n /\ d[s] \in Nat
    OBVIOUS
  <2>2. g[s - 1] \in Nat /\ g[s] \in Nat /\ g[s] = g[s - 1] + d[s] /\ g[s] <= g[n]
    BY <1>1, <2>1 DEF RunningTotal
  <2> QED
    BY <1>1, <1>2, <2>1, <2>2
<1> QED
  BY <1>2, <1>3

\* When one value changes, the total changes with it.
LEMMA TotalChanges ==
    ASSUME NEW n \in Nat, NEW d \in [1..n -> Nat], NEW e \in [1..n -> Nat], NEW t,
           IsTotal(d, n, t), NEW k \in 1..n, \A s \in 1..n \ {k} : e[s] = d[s]
    PROVE  IsTotal(e, n, t + e[k] - d[k])
<1>1. PICK g : RunningTotal(d, n, g) /\ t = g[n]
  BY DEF IsTotal
<1> DEFINE c == e[k] - d[k]
           h == [i \in 0..n |-> IF i < k THEN g[i] ELSE g[i] + c]
<1>2. /\ k \in Nat /\ k - 1 \in 0..n /\ k \in 0..n /\ n \in 0..n /\ 0 < k /\ k <= n
      /\ e[k] \in Nat /\ d[k] \in Nat /\ c \in Int
  OBVIOUS
<1>3. /\ \A i \in 0..n : g[i] \in Nat
      /\ g[k] = g[k - 1] + d[k]
      /\ \A i, j \in 0..n : i <= j => g[i] <= g[j]
  BY <1>1, <1>2 DEF RunningTotal
<1>4. \A i \in 0..n : k <= i => g[i] + c >= g[k - 1] + e[k]
  <2>1. ASSUME NEW i \in 0..n, k <= i
        PROVE  g[i] + c >= g[k - 1] + e[k]
    <3>1. g[i] \in Nat /\ g[k] \in Nat /\ g[k - 1] \in Nat /\ g[k] <= g[i] /\ g[k] = g[k - 1] + d[k]
      BY <1>2, <1>3, <2>1
    <3> QED
      BY <1>2, <3>1
  <2> QED
    BY <2>1
<1>5. h \in [0..n -> Nat]
  <2>1. ASSUME NEW i \in 0..n
        PROVE  (IF i < k THEN g[i] ELSE g[i] + c) \in Nat
    <3>1. CASE i < k
      BY <1>3, <3>1
    <3>2. CASE ~(i < k)
      <4>1. k <= i
        BY <1>2, <3>2
      <4>2. g[i] \in Nat /\ g[k - 1] \in Nat /\ g[i] + c >= g[k - 1] + e[k]
        BY <1>2, <1>3, <1>4, <4>1
      <4> HIDE DEF c
      <4>3. g[k - 1] + e[k] \in Nat /\ g[i] + c \in Int
        BY <1>2, <4>2
      <4>4. g[i] + c \in Nat
        BY <4>2, <4>3
      <4> QED
        BY <3>2, <4>4
    <3> QED
      BY <3>1, <3>2
  <2> QED
    BY <2>1
<1>6. \A i \in 0..n : h[i] = IF i < k THEN g[i] ELSE g[i] + c
  OBVIOUS
<1> HIDE DEF h
<1>7. h[0] = 0
  <2>1. 0 \in 0..n /\ g[0] = 0
    BY <1>1, <1>2 DEF RunningTotal
  <2>2. h[0] = IF 0 < k THEN g[0] ELSE g[0] + c
    BY <1>6, <2>1
  <2> QED
    BY <1>2, <2>1, <2>2
<1>8. ASSUME NEW s \in 1..n
      PROVE  h[s] = h[s - 1] + e[s]
  <2>1. s \in 0..n /\ s - 1 \in 0..n /\ d[s] \in Nat
    OBVIOUS
  <2>2. g[s] = g[s - 1] + d[s] /\ g[s] \in Nat /\ g[s - 1] \in Nat
    BY <1>1, <1>3, <2>1 DEF RunningTotal
  <2>3. /\ h[s] = IF s < k THEN g[s] ELSE g[s] + c
        /\ h[s - 1] = IF s - 1 < k THEN g[s - 1] ELSE g[s - 1] + c
    BY <1>6, <2>1
  <2>4. CASE s < k
    <3>1. e[s] = d[s]
      BY <1>2, <2>4
    <3> QED
      BY <1>2, <2>1, <2>2, <2>3, <2>4, <3>1
  <2>5. CASE s = k
    BY <1>2, <2>1, <2>2, <2>3, <2>5
  <2>6. CASE s > k
    <3>1. e[s] = d[s]
      BY <1>2, <2>6
    <3> QED
      BY <1>2, <2>1, <2>2, <2>3, <2>6, <3>1
  <2> QED
    BY <1>2, <2>4, <2>5, <2>6
<1>9. ASSUME NEW i \in 0..n, NEW j \in 0..n, i <= j
      PROVE  h[i] <= h[j]
  <2>1. /\ h[i] = IF i < k THEN g[i] ELSE g[i] + c
        /\ h[j] = IF j < k THEN g[j] ELSE g[j] + c
        /\ g[i] \in Nat /\ g[j] \in Nat /\ g[i] <= g[j]
    BY <1>3, <1>6, <1>9
  <2> HIDE DEF c
  <2>2. CASE j < k
    BY <1>2, <1>9, <2>1, <2>2
  <2>3. CASE ~(i < k)
    BY <1>2, <1>9, <2>1, <2>3
  <2>4. CASE i < k /\ ~(j < k)
    <3>1. i <= k - 1 /\ k <= j
      BY <1>2, <2>4
    <3>2. g[i] <= g[k - 1] /\ g[j] + c >= g[k - 1] + e[k] /\ g[k - 1] \in Nat
      BY <1>2, <1>3, <1>4, <3>1
    <3>3. h[i] = g[i] /\ h[j] = g[j] + c
      BY <2>1, <2>4
    <3>4. g[i] <= g[k - 1] + e[k]
      BY <1>2, <2>1, <3>2
    <3>5. g[j] + c \in Int
      BY <1>2, <2>1
    <3> QED
      BY <1>2, <2>1, <3>2, <3>3, <3>4, <3>5
  <2> QED
    BY <2>2, <2>3, <2>4
<1>10. h[n] = t + e[k] - d[k]
  <2>1. h[n] = g[n] + c /\ g[n] \in Nat
    BY <1>2, <1>3, <1>6
  <2> QED
    BY <1>1, <1>2, <2>1
<1>11. RunningTotal(e, n, h)
  BY <1>5, <1>7, <1>8, <1>9 DEF RunningTotal
<1> QED
  BY <1>10, <1>11 DEF IsTotal

\* One more value.
LEMMA TotalWithOneMore ==
    ASSUME NEW n \in Nat, NEW d \in [1..n -> Nat], NEW e \in [1..(n + 1) -> Nat], NEW t,
           IsTotal(d, n, t), \A s \in 1..n : e[s] = d[s]
    PROVE  IsTotal(e, n + 1, t + e[n + 1])
<1>1. PICK g : RunningTotal(d, n, g) /\ t = g[n]
  BY DEF IsTotal
<1> DEFINE h == [i \in 0..(n + 1) |-> IF i = n + 1 THEN g[n] + e[n + 1] ELSE g[i]]
<1>2. /\ \A i \in 0..n : g[i] \in Nat /\ g[i] <= g[n]
      /\ \A i, j \in 0..n : i <= j => g[i] <= g[j]
      /\ n \in 0..n /\ e[n + 1] \in Nat
      /\ \A i \in 0..(n + 1) : i # n + 1 => i \in 0..n
  BY <1>1 DEF RunningTotal
<1>3. h \in [0..(n + 1) -> Nat]
  BY <1>2
<1>4. /\ h[n + 1] = g[n] + e[n + 1]
      /\ \A i \in 0..n : h[i] = g[i]
  OBVIOUS
<1> HIDE DEF h
<1>5. ASSUME NEW s \in 1..(n + 1)
      PROVE  h[s] = h[s - 1] + e[s]
  <2>1. CASE s = n + 1
    BY <1>2, <1>4, <2>1
  <2>2. CASE s # n + 1
    <3>1. s \in 1..n /\ s \in 0..n /\ s - 1 \in 0..n
      BY <2>2
    <3>2. g[s] = g[s - 1] + d[s] /\ e[s] = d[s]
      BY <1>1, <3>1 DEF RunningTotal
    <3> QED
      BY <1>4, <3>1, <3>2
  <2> QED
    BY <2>1, <2>2
<1>6. ASSUME NEW i \in 0..(n + 1), NEW j \in 0..(n + 1), i <= j
      PROVE  h[i] <= h[j]
  <2>1. CASE j = n + 1
    <3>1. h[i] = g[n] + e[n + 1] \/ (i \in 0..n /\ h[i] = g[i] /\ g[i] \in Nat /\ g[i] <= g[n])
      BY <1>2, <1>4
    <3> QED
      BY <1>2, <1>4, <2>1, <3>1
  <2>2. CASE j # n + 1
    <3>1. i \in 0..n /\ j \in 0..n
      BY <1>6, <2>2
    <3> QED
      BY <1>2, <1>4, <1>6, <3>1
  <2> QED
    BY <2>1, <2>2
<1>7. h[0] = 0
  BY <1>1, <1>4 DEF RunningTotal
<1>8. RunningTotal(e, n + 1, h)
  BY <1>3, <1>5, <1>6, <1>7 DEF RunningTotal
<1> QED
  BY <1>1, <1>4, <1>8 DEF IsTotal

\* Without working stops, none holds coins.
LEMMA NothingHeld ==
    ASSUME TypeOK, LiveStops = {}, order.side # "exit"
    PROVE  Free = coins
<1> DEFINE H(s) == stops[s].amount - stops[s].filled
           One(S) == CHOOSE x \in S : TRUE
           total == MapThenSumSet(LAMBDA s : stops[s].amount - stops[s].filled, {})
           g == [S \in SUBSET {} |-> 0]
<1>1. total = 0
  <2>1. g = [S \in SUBSET {} |-> IF S = {} THEN 0 ELSE H(One(S)) + g[S \ {One(S)}]]
    OBVIOUS
  <2>2. \A f : f = [S \in SUBSET {} |-> IF S = {} THEN 0 ELSE H(One(S)) + f[S \ {One(S)}]]
               => f[{}] = 0
    OBVIOUS
  <2> HIDE DEF g
  <2> QED
    BY <2>1, <2>2 DEF MapThenSumSet, MapThenFoldSet
<1>2. {s \in Stops : Live(s)} = {}
  BY DEF LiveStops
<1>3. coins \in Nat
  BY DEF TypeOK
<1>4. Free = coins - 0 - (IF option.blocking THEN total ELSE 0)
  BY <1>2 DEF Free
<1> HIDE DEF total
<1> QED
  BY <1>1, <1>3, <1>4

-----------------------------------------------------------------------------
(* The coins of the trade                                                  *)
(*                                                                         *)
(* What is sold or bought on the exchange and not yet in the trade's row:  *)
(* by a stop that is recorded as open, and by the other order.  The coins  *)
(* in the wallet and these amounts together are the position.              *)

DueOf == [s \in Stops |-> IF s \in OpenStops THEN stops[s].filled ELSE 0]

OrderDue ==
    IF order.st # "filled" THEN 0 ELSE IF order.side = "exit" THEN order.amount ELSE -order.amount

\* Where the bot is: a loop over stops has only stops that are recorded as open before it, and
\* an order is managed while the trade is open.
Loops == bot.pc \in {"cancel", "fetch", "refind"} => bot.todo \subseteq OpenStops
Managing == bot.pc = "manage" => trade.open
OrderShape == order.side = "none" <=> order.st = "none"

Shape == Loops /\ Managing /\ OrderShape

Position ==
    \E t \in Nat : /\ IsTotal(DueOf, Len(stops), t)
                   /\ trade.open => coins + t + OrderDue = trade.amount
                   /\ ~trade.open /\ order.side # "entry" => coins = 0 /\ t = 0

\* On the way to a new stop.
Placing == bot.pc \in {"create", "trail"} \/ (bot.pc = "cancel" /\ bot.back = "trail")

\* Where stops block the coins, no other order is there when a stop is placed, and no stop when
\* an exit is.
Way == option.blocking => /\ Placing => ~HasOpenOrders
                          /\ bot.pc = "sell" \/ order.side = "exit" => LiveStops = {}

\* A working stop is for the whole position, and nothing is due of the others.
Match ==
    option.blocking /\ trade.open =>
        \A t \in LiveStops : /\ bot.pc = "cancel" \/ stops[t].amount = trade.amount
                             /\ \A s \in Stops \ {t} : DueOf[s] = 0

-----------------------------------------------------------------------------
(* What a step does *)

\* A step that only moves the bot, commits or fails.
Quiet == UNCHANGED <<stops, trade, coins, order>> /\ OpenStops' = OpenStops

\* A step that records a stop as final.
Finishes(s) ==
    /\ trade' = StopSold(trade, stops[s].filled)
    /\ UNCHANGED <<coins, order>>
    /\ Stops' = Stops /\ Len(stops') = Len(stops)
    /\ \A u \in Stops : stops'[u].amount = stops[u].amount /\ stops'[u].filled = stops[u].filled
    /\ LiveStops' \subseteq LiveStops \ {s}
    /\ OpenStops' = OpenStops \ {s}

Kind ==
    \/ Quiet \/ \E s \in OpenStops : Finishes(s)
    \/ ManageFilled \/ ManageOpen \/ CreateStop \/ AddToPosition \/ PlaceExit \/ OrderFills
    \/ \E s \in Stops : StopFills(s) \/ StopDropped(s)

\* How the bot gets to where the coins matter.
Moved ==
    /\ option' = option
    /\ Placing' => Placing \/ ~(option.blocking /\ HasOpenOrders)
    /\ bot'.pc = "sell" => \/ bot.pc = "sell" \/ ~option.blocking
                           \/ bot.pc = "cancel" /\ bot.todo = {}
    /\ bot.pc = "cancel" /\ bot'.pc # "cancel" => bot.todo = {}

\* A commit closes no record.
LEMMA CommitKeepsOpen ==
    ASSUME TypeOK, rec' = Committed(rec), Stops' = Stops
    PROVE  OpenStops' = OpenStops
<1>1. rec \in Seq(Records) /\ Stops = DOMAIN rec
  BY DEF TypeOK, Stops
<1> QED
  BY <1>1, CommittedTyped DEF OpenStops

\* The record of a stop that is final is closed, and the bot goes on with next or cancels the
\* other stops.
LEMMA UpdateOpen ==
    ASSUME TypeOK, NEW s \in Stops, NEW filled, NEW next \in BotType, NEW after \in Backs,
           UpdateStop(s, filled, next, after), Stops' = Stops
    PROVE  /\ OpenStops' = OpenStops \ {s}
           /\ trade' = StopSold(trade, filled)
           /\ \/ bot' = next
              \/ bot'.pc = "cancel" /\ bot'.back = after /\ bot'.todo = OpenStops \ {s}
<1> DEFINE r == [rec EXCEPT ![s] = "closed"]
           T == OpenStops \ {s}
<1>1. rec \in Seq(Records) /\ s \in 1..Len(rec) /\ Stops = 1..Len(rec)
  BY DEF TypeOK, Stops
<1>2. /\ r \in Seq(Records) /\ Len(r) = Len(rec) /\ DOMAIN r = 1..Len(rec)
      /\ \A t \in 1..Len(rec) : r[t] = IF t = s THEN "closed" ELSE rec[t]
  <2>1. "closed" \in Records
    BY DEF Records
  <2> QED
    BY <1>1, <2>1, ExceptSeq
<1>3. rec' = Committed(r)
  BY DEF UpdateStop
<1> HIDE DEF r
<1>4. \A t \in Stops : /\ t # s => (rec'[t] \in {"pending", "open"} <=> rec[t] \in {"pending", "open"})
                       /\ t = s => rec'[t] \notin {"pending", "open"}
  BY <1>1, <1>2, <1>3, CommittedTyped
<1>5. OpenStops' = T
  BY <1>4 DEF OpenStops
<1>6. bot' = next \/ bot' = [next EXCEPT !.pc = "cancel", !.back = after, !.todo = T]
  BY DEF UpdateStop
<1> HIDE DEF T
<1>7. bot' = next \/ (bot'.pc = "cancel" /\ bot'.back = after /\ bot'.todo = T)
  BY <1>6 DEF BotType
<1> QED
  BY <1>5, <1>7 DEF T, UpdateStop

\* A stop is cancelled, or final already.
LEMMA CanceledStops ==
    ASSUME TypeOK, NEW s \in Stops,
           stops' = IF Live(s) THEN [stops EXCEPT ![s].st = "canceled"] ELSE stops
    PROVE  /\ Stops' = Stops /\ Len(stops') = Len(stops)
           /\ \A u \in Stops : stops'[u].amount = stops[u].amount /\ stops'[u].filled = stops[u].filled
           /\ LiveStops' \subseteq LiveStops \ {s}
<1>1. stops \in Seq(StopType) /\ Stops = 1..Len(stops) /\ stops[s] \in StopType
  BY DEF TypeOK, Stops
<1> DEFINE v == [stops[s] EXCEPT !.st = "canceled"]
<1>2. CASE ~Live(s)
  BY <1>2 DEF Stops, LiveStops, Live
<1>3. CASE Live(s)
  <2>1. stops' = [stops EXCEPT ![s] = v]
    BY <1>3
  <2>2. v \in StopType /\ v.amount = stops[s].amount /\ v.filled = stops[s].filled /\ v.st = "canceled"
    BY <1>1 DEF StopType, Status
  <2> HIDE DEF v
  <2>3. /\ Stops' = Stops /\ Len(stops') = Len(stops)
        /\ \A u \in Stops : stops'[u] = IF u = s THEN v ELSE stops[u]
    BY <1>1, <2>1, <2>2, ExceptSeq DEF Stops
  <2> QED
    BY <2>2, <2>3 DEF LiveStops, Live
<1> QED
  BY <1>2, <1>3

\* What a step of the bot that changes no stop does to it.
LEMMA BotGoes ==
    ASSUME TypeOK
    PROVE  /\ \A pc \in Places : [bot EXCEPT !.pc = pc].pc = pc
           /\ \A back \in Backs : /\ CancelAll(back).pc = "cancel" /\ CancelAll(back).back = back
                                  /\ CancelAll(back).todo = OpenStops
<1>1. bot \in BotType
  BY DEF TypeOK
<1> QED
  BY <1>1 DEF BotType, CancelAll

-----------------------------------------------------------------------------
\* A step that only moves the bot, or commits.
LEMMA QuietStep ==
    ASSUME TypeOK, Shape, UNCHANGED <<option, stops, trade, coins, order>>,
           rec' = rec \/ rec' = Committed(rec),
           bot'.pc \in {"cancel", "fetch", "refind"} => bot'.todo \subseteq OpenStops,
           bot'.pc = "manage" => trade.open,
           Placing' => Placing \/ ~(option.blocking /\ HasOpenOrders),
           bot'.pc = "sell" => ~option.blocking \/ (bot.pc = "cancel" /\ bot.todo = {}),
           bot.pc = "cancel" /\ bot'.pc # "cancel" => bot.todo = {}
    PROVE  Shape' /\ Moved /\ Kind
<1>1. Stops' = Stops
  BY DEF Stops
<1>2. OpenStops' = OpenStops
  BY <1>1, CommitKeepsOpen DEF OpenStops
<1>3. Quiet
  BY <1>2 DEF Quiet
<1>4. Shape'
  BY <1>2 DEF Shape, Loops, Managing, OrderShape
<1> QED
  BY <1>3, <1>4 DEF Moved, Kind

\* A step that records a stop as final.
LEMMA FinalStep ==
    ASSUME TypeOK, Shape, NEW s \in OpenStops, NEW next \in BotType, NEW after \in Backs,
           UpdateStop(s, stops[s].filled, next, after), UNCHANGED <<option, coins, order>>,
           Stops' = Stops, Len(stops') = Len(stops),
           \A u \in Stops : stops'[u].amount = stops[u].amount /\ stops'[u].filled = stops[u].filled,
           LiveStops' \subseteq LiveStops \ {s},
           next.pc \in {"cancel", "fetch", "refind", "commit"},
           next.pc # "commit" => next.todo \subseteq bot.todo \ {s} /\ bot.todo \subseteq OpenStops,
           next.pc = "cancel" <=> bot.pc = "cancel",
           next.pc = "cancel" => next.back = bot.back,
           after = "trail" => bot.pc = "cancel" /\ bot.back = "trail"
    PROVE  Shape' /\ Moved /\ Kind
<1>1. s \in Stops
  BY DEF OpenStops
<1>2. /\ OpenStops' = OpenStops \ {s}
      /\ trade' = StopSold(trade, stops[s].filled)
      /\ \/ bot' = next
         \/ bot'.pc = "cancel" /\ bot'.back = after /\ bot'.todo = OpenStops \ {s}
  BY <1>1, UpdateOpen
<1>3. Finishes(s)
  BY <1>2 DEF Finishes
<1>4. Shape'
  BY <1>2 DEF Shape, Loops, Managing, OrderShape
<1>5. Moved
  BY <1>2 DEF Moved, Placing
<1> QED
  BY <1>3, <1>4, <1>5 DEF Kind

\* Each step that lets no stop escape is of one of the kinds.
LEMMA StepKinds ==
    ASSUME IInv, Shape, [Next]_vars, ~slipped'
    PROVE  Shape' /\ Moved /\ Kind
<1> DEFINE Goal == Shape' /\ Moved /\ Kind
<1>1. TypeOK /\ bot \in BotType /\ bot.pc \in Places /\ bot.back \in Backs
  BY DEF IInv, TypeOK, BotType
<1>2. \A pc \in Places : [bot EXCEPT !.pc = pc].pc = pc
  BY <1>1, BotGoes
<1>3. \A back \in Backs : /\ CancelAll(back).pc = "cancel" /\ CancelAll(back).back = back
                          /\ CancelAll(back).todo = OpenStops
  BY <1>1, BotGoes
<1>3a. /\ [bot EXCEPT !.pc = "manage"].pc = "manage" /\ [bot EXCEPT !.pc = "stops"].pc = "stops"
      /\ [bot EXCEPT !.pc = "commit"].pc = "commit" /\ [bot EXCEPT !.pc = "decide"].pc = "decide"
      /\ [bot EXCEPT !.pc = "create"].pc = "create" /\ [bot EXCEPT !.pc = "sell"].pc = "sell"
       /\ \A back \in {"stops", "trail", "sell"} :
             /\ CancelAll(back).pc = "cancel" /\ CancelAll(back).back = back
             /\ CancelAll(back).todo = OpenStops
  BY <1>2, <1>3 DEF Places, Backs
<1>4. /\ Rest \in BotType /\ Rest.pc = bot.pc /\ Rest.back = bot.back
      /\ Rest.todo = bot.todo \ {Current} /\ Rest.seen = bot.seen
  BY <1>1, RestTyped
<1>5. bot.pc \in {"cancel", "fetch", "refind"} => bot.todo \subseteq OpenStops
  BY DEF Shape, Loops
<1>6. bot.todo # {} => Current \in bot.todo /\ Current \in Stops /\ stops[Current] \in StopType
  BY <1>1, CurrentInHand
<1>7. ASSUME NEW s \in Stops, StopFills(s) \/ StopDropped(s)
      PROVE  Goal
  <2>1. UNCHANGED <<option, rec, bot, trade, order>>
    BY <1>7 DEF StopFills, StopDropped
  <2>2. Stops' = Stops
    <3>1. stops \in Seq(StopType) /\ s \in DOMAIN stops
      BY <1>1 DEF TypeOK, Stops
    <3> QED
      BY <1>7, <3>1 DEF StopFills, StopDropped, Stops
  <2>3. OpenStops' = OpenStops
    BY <2>1, <2>2 DEF OpenStops
  <2> QED
    BY <1>7, <2>1, <2>3 DEF Shape, Loops, Managing, OrderShape, Moved, Placing, Kind
<1>8. CASE OrderFills
  <2>1. UNCHANGED <<option, stops, rec, bot, trade>> /\ order' = [order EXCEPT !.st = "filled"]
        /\ order.st = "live" /\ order \in OrderType
    BY <1>1, <1>8 DEF OrderFills, TypeOK
  <2>2. order'.st = "filled" /\ order'.side = order.side /\ order.side # "none"
    BY <2>1 DEF OrderType, Shape, OrderShape
  <2>3. OpenStops' = OpenStops
    BY <2>1 DEF OpenStops, Stops
  <2> QED
    BY <1>8, <2>1, <2>2, <2>3 DEF Shape, Loops, Managing, OrderShape, Moved, Placing, Kind
<1>9. CASE CancelStop \/ CancelMadeUp
  <2>1. bot.pc = "cancel" /\ bot.todo # {} /\ UNCHANGED <<option, coins, order>>
    BY <1>9 DEF CancelStop, CancelMadeUp
  <2>2. Current \in bot.todo /\ Current \in OpenStops /\ Current \in Stops
        /\ stops[Current].filled \in Nat
    BY <1>5, <1>6, <2>1 DEF StopType
  <2>3. stops' = IF Live(Current) THEN [stops EXCEPT ![Current].st = "canceled"] ELSE stops
    BY <1>9 DEF CancelStop, CancelMadeUp
  <2>4. UpdateStop(Current, stops[Current].filled, Rest, bot.back)
    <3>1. CASE CancelStop
      BY <3>1 DEF CancelStop
    <3>2. CASE CancelMadeUp
      <4>1. PICK filled \in 0..stops[Current].filled :
               /\ UpdateStop(Current, filled, Rest, bot.back)
               /\ slipped' = (slipped \/ filled < stops[Current].filled)
        BY <3>2 DEF CancelMadeUp
      <4>2. ~(filled < stops[Current].filled)
        BY <4>1
      <4>3. filled = stops[Current].filled
        BY <2>2, <4>2
      <4> QED
        BY <4>1, <4>3
    <3> QED
      BY <1>9, <3>1, <3>2
  <2>5. /\ Stops' = Stops /\ Len(stops') = Len(stops)
        /\ \A u \in Stops : stops'[u].amount = stops[u].amount /\ stops'[u].filled = stops[u].filled
        /\ LiveStops' \subseteq LiveStops \ {Current}
    BY <1>1, <2>2, <2>3, CanceledStops
  <2> QED
    BY <1>1, <1>4, <1>5, <2>1, <2>2, <2>4, <2>5, FinalStep
<1>10. CASE CancelRefused \/ FetchFails
  <2>1. bot.pc \in {"cancel", "fetch"} /\ bot' = Rest /\ UNCHANGED <<option, stops, rec, trade, coins, order>>
    BY <1>10 DEF CancelRefused, FetchFails, exchange
  <2> QED
    BY <1>1, <1>4, <1>5, <2>1, QuietStep DEF Placing
<1>11. CASE CancelRaises
  BY <1>11 DEF CancelRaises
<1>12. CASE CancelEnd
  <2>1. /\ bot.pc = "cancel" /\ bot.todo = {} /\ bot' = [bot EXCEPT !.pc = bot.back]
        /\ UNCHANGED <<option, stops, rec, trade, coins, order>>
    BY <1>12 DEF CancelEnd, Go, exchange
  <2>2. bot.back \in Places /\ bot.back \notin {"create", "refind", "cancel", "fetch", "manage"}
    BY <1>1 DEF Backs, Places
  <2>3. bot'.pc = bot.back
    BY <1>2, <2>1, <2>2
  <2> QED
    BY <1>1, <2>1, <2>2, <2>3, QuietStep DEF Placing
<1>13. CASE BeginProcess
  <2>1. /\ bot.pc = "idle" /\ trade.open
        /\ UNCHANGED <<option, stops, rec, trade, coins, order>>
        /\ bot' = [bot EXCEPT !.pc = "manage"] \/ bot' = [bot EXCEPT !.pc = "stops"]
    BY <1>13 DEF BeginProcess, Go, exchange
  <2>2. bot'.pc \in {"manage", "stops"}
    BY <1>3a, <2>1
  <2> QED
    BY <1>1, <2>1, <2>2, QuietStep DEF Placing
<1>14. CASE ManageFilled
  <2>1. bot.pc = "manage" /\ order' = NoOrder /\ UNCHANGED <<option, stops, rec>>
    BY <1>14 DEF ManageFilled
  <2>2. bot' = CancelAll("stops") \/ bot' = [bot EXCEPT !.pc = "stops"]
    BY <1>14 DEF ManageFilled
  <2>3. \/ bot'.pc = "cancel" /\ bot'.back = "stops" /\ bot'.todo = OpenStops
        \/ bot'.pc = "stops"
    BY <1>3a, <2>2
  <2>4. OpenStops' = OpenStops
    BY <2>1 DEF OpenStops, Stops
  <2>5. order'.side = "none" /\ order'.st = "none"
    BY <2>1 DEF NoOrder
  <2> QED
    BY <1>14, <2>1, <2>3, <2>4, <2>5 DEF Shape, Loops, Managing, OrderShape, Moved, Placing, Kind
<1>15. CASE ManageOpen
  <2>1. bot.pc = "manage" /\ order' \in {order, NoOrder} /\ UNCHANGED <<option, stops, rec>>
        /\ bot' = [bot EXCEPT !.pc = "stops"]
    BY <1>15 DEF ManageOpen, Go
  <2>2. bot'.pc = "stops"
    BY <1>2, <2>1 DEF Places
  <2>3. order'.side = "none" <=> order'.st = "none"
    BY <2>1 DEF NoOrder, Shape, OrderShape
  <2> QED
    BY <1>15, <2>1, <2>2, <2>3 DEF Shape, Loops, Managing, OrderShape, Moved, Placing, Kind
<1>16. CASE BeginStops
  <2>1. /\ bot.pc = "stops" /\ UNCHANGED <<option, stops, rec, trade, coins, order>>
        /\ \/ bot' = [bot EXCEPT !.pc = "fetch", !.todo = OpenStops, !.seen = {}]
           \/ bot' = [bot EXCEPT !.pc = "commit"]
    BY <1>16 DEF BeginStops, exchange
  <2>2. (bot'.pc = "fetch" /\ bot'.todo = OpenStops) \/ bot'.pc = "commit"
    BY <1>1, <2>1 DEF BotType
  <2> QED
    BY <1>1, <2>1, <2>2, QuietStep DEF Placing
<1>17. CASE FetchStop
  <2> DEFINE o == [id |-> Current, st |-> stops[Current].st]
             next == [Rest EXCEPT !.seen = @ \cup {o}]
             last == [next EXCEPT !.pc = "commit"]
  <2>1. /\ bot.pc = "fetch" /\ Current \in bot.todo /\ Current \in Stops /\ Current \in OpenStops
        /\ stops[Current] \in StopType /\ UNCHANGED <<option, stops, coins, order>>
    BY <1>5, <1>6, <1>17 DEF FetchStop, exchange
  <2>2. o \in Seen /\ stops[Current].filled \in Nat /\ stops[Current].st \in Status
    BY <1>1, <2>1 DEF Seen, StopType, TypeOK, Stops
  <2>3. \/ rec' = Committed(rec) /\ bot' = next /\ UNCHANGED trade
        \/ o.st # "live" /\ UpdateStop(Current, stops[Current].filled, next, "commit")
        \/ o.st # "live" /\ UpdateStop(Current, stops[Current].filled, last, "commit")
    BY <1>17, <2>2 DEF FetchStop, Status
  <2>4. o.st = stops[Current].st
    OBVIOUS
  <2> HIDE DEF o
  <2>5. next \in BotType /\ next.pc = "fetch" /\ next.todo = bot.todo \ {Current}
    <3>1. next \in BotType
      BY <1>4, <2>2, BotTyped
    <3> QED
      BY <1>4, <2>1, <3>1 DEF BotType
  <2> HIDE DEF next
  <2>6. last \in BotType /\ last.pc = "commit"
    <3>1. "commit" \in Places
      BY DEF Places
    <3>2. last \in BotType
      BY <2>5, <3>1, BotTyped
    <3> QED
      BY <2>5, <3>2 DEF BotType
  <2> HIDE DEF last
  <2>7. "commit" \in Backs
    BY DEF Backs
  <2>8. CASE rec' = Committed(rec) /\ bot' = next /\ UNCHANGED trade
    BY <1>1, <1>5, <2>1, <2>5, <2>8, QuietStep DEF Placing
  <2>9. ASSUME o.st # "live"
        PROVE  /\ Stops' = Stops /\ Len(stops') = Len(stops)
               /\ \A u \in Stops : stops'[u].amount = stops[u].amount
                                   /\ stops'[u].filled = stops[u].filled
               /\ LiveStops' \subseteq LiveStops \ {Current}
    BY <2>1, <2>4, <2>9 DEF LiveStops, Live, Stops
  <2>10. CASE o.st # "live" /\ UpdateStop(Current, stops[Current].filled, next, "commit")
    BY <1>1, <1>5, <2>1, <2>5, <2>7, <2>9, <2>10, FinalStep
  <2>11. CASE o.st # "live" /\ UpdateStop(Current, stops[Current].filled, last, "commit")
    BY <1>1, <1>5, <2>1, <2>6, <2>7, <2>9, <2>11, FinalStep
  <2> QED
    BY <2>3, <2>8, <2>10, <2>11
<1>18. CASE FetchRaises \/ Commit
  <2>1. /\ bot.pc \in {"fetch", "commit"} /\ UNCHANGED <<option, stops, trade, coins, order>>
        /\ rec' = rec \/ rec' = Committed(rec)
        /\ bot' \in {Idle, [bot EXCEPT !.pc = "commit"]}
    BY <1>18 DEF FetchRaises, Commit, Go, exchange
  <2>2. bot'.pc \in {"idle", "commit"}
    <3>1. Idle.pc = "idle"
      BY DEF Idle
    <3> QED
      BY <1>3a, <2>1, <3>1
  <2> QED
    BY <1>1, <2>1, <2>2, QuietStep DEF Placing
<1>19. CASE DecideStop
  <2>1. bot.pc = "fetch" /\ UNCHANGED <<option, stops, rec, trade, coins, order>>
    BY <1>19 DEF DecideStop, exchange
  <2>2. \/ bot' = [bot EXCEPT !.pc = "decide"]
        \/ /\ ~(HasOpenOrders /\ option.blocking)
           /\ bot' = [bot EXCEPT !.pc = "create"] \/ bot' = CancelAll("trail")
    BY <1>19 DEF DecideStop, Go, Trailing
  <2>3. \/ bot'.pc = "decide"
        \/ /\ ~(HasOpenOrders /\ option.blocking)
           /\ \/ bot'.pc = "create"
              \/ bot'.pc = "cancel" /\ bot'.todo = OpenStops
    BY <1>3a, <2>2
  <2> QED
    BY <1>1, <2>1, <2>3, QuietStep DEF Placing
<1>20. CASE Trail
  <2>1. /\ bot.pc = "trail" /\ UNCHANGED <<option, stops, rec, trade, coins, order>>
        /\ bot' = [bot EXCEPT !.pc = "create"] \/ bot' = [bot EXCEPT !.pc = "decide"]
    BY <1>20 DEF Trail, Go, exchange
  <2>2. bot'.pc \in {"create", "decide"}
    BY <1>2, <2>1 DEF Places
  <2> QED
    BY <1>1, <2>1, <2>2, QuietStep DEF Placing
<1>21. CASE CreateStop
  <2>1. /\ bot.pc = "create" /\ bot' = [bot EXCEPT !.pc = "decide"]
        /\ UNCHANGED <<option, order, trade, coins>>
    BY <1>21 DEF CreateStop, Go
  <2>2. bot'.pc = "decide"
    BY <1>2, <2>1 DEF Places
  <2> QED
    BY <1>21, <2>1, <2>2 DEF Shape, Loops, Managing, OrderShape, Moved, Placing, Kind
<1>22. CASE CreateRefused \/ ExitRefused
  <2>1. bot.pc \in {"create", "sell"} /\ UNCHANGED <<option, stops, rec, trade, coins, order>>
    BY <1>22 DEF CreateRefused, ExitRefused, exchange
  <2>2. PICK back \in {"decide", "commit"} :
           bot' = [bot EXCEPT !.pc = "refind", !.back = back, !.todo = OpenStops]
    BY <1>22 DEF CreateRefused, ExitRefused, ExitEnd
  <2>3. bot'.pc = "refind" /\ bot'.todo = OpenStops
    BY <1>1, <2>2 DEF BotType
  <2> QED
    BY <1>1, <2>1, <2>3, QuietStep DEF Placing
<1>23. CASE CreateFails \/ Decide \/ ExitNotPlaced
  <2>1. bot.pc \in {"create", "decide", "sell"} /\ UNCHANGED <<option, stops, rec, trade, coins, order>>
    BY <1>23 DEF CreateFails, Decide, ExitNotPlaced, exchange
  <2>2. \/ \E x \in {0, PartAmount, -1} : bot' = [bot EXCEPT !.pc = "exit", !.sell = x]
        \/ \E pc \in {"decide", "commit"} : bot' = [bot EXCEPT !.pc = pc]
    BY <1>23 DEF CreateFails, Decide, ExitNotPlaced, Go, ExitEnd
  <2>3. bot'.pc \in {"exit", "decide", "commit"}
    BY <1>1, <2>2 DEF BotType
  <2> QED
    BY <1>1, <2>1, <2>3, QuietStep DEF Placing
<1>24. CASE Refind
  <2>1. bot.pc = "refind" /\ UNCHANGED <<option, stops, coins, order>> /\ bot.back \in {"decide", "commit"}
    BY <1>24 DEF Refind, exchange, IInv, Control
  <2>2. CASE bot.todo = {}
    <3>1. bot' = [bot EXCEPT !.pc = bot.back] /\ UNCHANGED <<rec, trade>>
      BY <1>24, <2>2 DEF Refind, Go
    <3>2. bot'.pc = bot.back
      BY <1>2, <2>1, <3>1 DEF Places
    <3> QED
      BY <1>1, <2>1, <3>1, <3>2, QuietStep DEF Placing
  <2>3. CASE bot.todo # {} /\ Live(Current)
    <3>1. bot' = Rest /\ UNCHANGED <<rec, trade>>
      BY <1>24, <2>3 DEF Refind
    <3> QED
      BY <1>1, <1>4, <1>5, <2>1, <3>1, QuietStep DEF Placing
  <2>4. CASE bot.todo # {} /\ ~Live(Current)
    <3>1. UpdateStop(Current, stops[Current].filled, Rest, bot.back)
      BY <1>24, <2>4 DEF Refind
    <3>2. Current \in OpenStops
      BY <1>5, <1>6, <2>1, <2>4
    <3>3. /\ Stops' = Stops /\ Len(stops') = Len(stops)
          /\ \A u \in Stops : stops'[u].amount = stops[u].amount
                              /\ stops'[u].filled = stops[u].filled
          /\ LiveStops' \subseteq LiveStops \ {Current}
      BY <2>1, <2>4 DEF LiveStops, Live, Stops
    <3> QED
      BY <1>1, <1>4, <1>5, <2>1, <3>1, <3>2, <3>3, FinalStep
  <2> QED
    BY <2>2, <2>3, <2>4
<1>25. CASE AddToPosition \/ PlaceExit
  <2>1. /\ bot.pc \in {"decide", "sell"} /\ UNCHANGED <<option, stops, trade, coins>>
        /\ rec' = rec \/ rec' = Committed(rec)
        /\ bot' = [bot EXCEPT !.pc = "decide"] \/ bot' = [bot EXCEPT !.pc = "commit"]
        /\ order'.side # "none" /\ order'.st # "none"
    BY <1>25 DEF AddToPosition, PlaceExit, Go, ExitEnd
  <2>2. bot'.pc \in {"decide", "commit"}
    BY <1>2, <2>1 DEF Places
  <2> QED
    BY <1>25, <2>1, <2>2 DEF Shape, Loops, Managing, OrderShape, Moved, Placing, Kind
<1>26. CASE ExitBegins
  <2>1. /\ bot.pc = "exit" /\ UNCHANGED <<option, stops, rec, trade, coins, order>>
        /\ \/ bot' = CancelAll("sell")
           \/ ~option.blocking /\ bot' = [bot EXCEPT !.pc = "sell"]
    BY <1>26 DEF ExitBegins, exchange
  <2>2. \/ bot'.pc = "cancel" /\ bot'.back = "sell" /\ bot'.todo = OpenStops
        \/ ~option.blocking /\ bot'.pc = "sell"
    BY <1>3a, <2>1
  <2> QED
    BY <1>1, <2>1, <2>2, QuietStep DEF Placing
<1>27. CASE Rollback
  BY <1>27 DEF Rollback
<1>28. CASE Closed \/ UNCHANGED vars
  <2>1. UNCHANGED <<option, stops, rec, bot, trade, coins, order>>
    BY <1>28 DEF Closed, vars
  <2>2. OpenStops' = OpenStops
    BY <2>1 DEF OpenStops, Stops
  <2>3. Quiet
    BY <2>1, <2>2 DEF Quiet
  <2> QED
    BY <2>1, <2>2, <2>3 DEF Shape, Loops, Managing, OrderShape, Moved, Placing, Kind
<1> QED
  BY <1>7, <1>8, <1>9, <1>10, <1>11, <1>12, <1>13, <1>14, <1>15, <1>16, <1>17, <1>18, <1>19,
     <1>20, <1>21, <1>22, <1>23, <1>24, <1>25, <1>26, <1>27, <1>28 DEF Next, BotStep

-----------------------------------------------------------------------------
\* What is due of each stop.
LEMMA DueTyped ==
    ASSUME TypeOK
    PROVE  DueOf \in [1..Len(stops) -> Nat] /\ Len(stops) \in Nat /\ Stops = 1..Len(stops)
           /\ OpenStops \subseteq Stops
<1>1. /\ Len(stops) \in Nat /\ Stops = 1..Len(stops)
      /\ \A s \in 1..Len(stops) : stops[s] \in StopType
  BY DEF TypeOK, Stops
<1>2. \A s \in 1..Len(stops) : stops[s].filled \in Nat
  BY <1>1 DEF StopType
<1> QED
  BY <1>1, <1>2 DEF DueOf, OpenStops

\* While nothing is due to other stops, sold or traded, the position is accounted for.
LEMMA PositionKept ==
    ASSUME Position, DueOf' = DueOf, Len(stops') = Len(stops), UNCHANGED <<trade, coins>>,
           OrderDue' = OrderDue,
           ~trade.open /\ order'.side # "entry" => order.side # "entry"
    PROVE  Position'
  BY DEF Position, IsTotal

\* What a stop has sold is taken off the position when it is recorded.
LEMMA SaleRecorded ==
    ASSUME trade \in [open : BOOLEAN, amount : Nat], NEW a \in Nat
    PROVE  LET sold == StopSold(trade, a) IN
           /\ sold \in [open : BOOLEAN, amount : Int]
           /\ ~trade.open => ~sold.open
           /\ a = 0 => sold = trade
           /\ sold.open => sold.amount = trade.amount - a
           /\ trade.open /\ ~sold.open => a >= trade.amount
<1> DEFINE b == trade.amount - a
<1>1. b \in Int
  OBVIOUS
<1>2. \/ a = 0 /\ StopSold(trade, a) = trade
      \/ a >= trade.amount /\ StopSold(trade, a) = [trade EXCEPT !.open = FALSE]
      \/ StopSold(trade, a) = [trade EXCEPT !.amount = b]
  BY DEF StopSold, Sold
<1>3. b = trade.amount - a /\ (a = 0 => b = trade.amount)
  OBVIOUS
<1> HIDE DEF b
<1> DEFINE sold == StopSold(trade, a)
<1>4. a = 0 => sold = trade
  BY DEF StopSold
<1>5. SUFFICES /\ sold \in [open : BOOLEAN, amount : Int]
               /\ ~trade.open => ~sold.open
               /\ a = 0 => sold = trade
               /\ sold.open => sold.amount = trade.amount - a
               /\ trade.open /\ ~sold.open => a >= trade.amount
  BY DEF sold
<1> HIDE DEF sold
<1>6. CASE a = 0 /\ sold = trade
  BY <1>6
<1>7. CASE a >= trade.amount /\ sold = [trade EXCEPT !.open = FALSE]
  <2>1. ~sold.open /\ sold.amount = trade.amount /\ sold \in [open : BOOLEAN, amount : Nat]
    BY <1>7
  <2> QED
    BY <1>4, <1>7, <2>1
<1>8. CASE sold = [trade EXCEPT !.amount = b]
  <2>1. sold.open = trade.open /\ sold.amount = b /\ sold \in [open : BOOLEAN, amount : Int]
    BY <1>1, <1>8
  <2> QED
    BY <1>3, <1>4, <2>1
<1>9. \/ a = 0 /\ sold = trade
      \/ a >= trade.amount /\ sold = [trade EXCEPT !.open = FALSE]
      \/ sold = [trade EXCEPT !.amount = b]
  BY <1>2 DEF sold
<1> QED
  BY <1>6, <1>7, <1>8, <1>9

\* A final stop moves from what is due into the row.
LEMMA FinishKeepsPosition ==
    ASSUME TypeOK, OrderShape, Position, NEW s \in OpenStops, Finishes(s)
    PROVE  Position'
<1> DEFINE n == Len(stops)
           a == stops[s].filled
<1>1. /\ DueOf \in [1..n -> Nat] /\ n \in Nat /\ Stops = 1..n /\ s \in 1..n
      /\ stops[s] \in StopType /\ trade \in [open : BOOLEAN, amount : Nat] /\ coins \in Nat
      /\ order \in OrderType
  BY DueTyped DEF TypeOK, OpenStops
<1>2. a \in Nat
  BY <1>1 DEF StopType
<1>3. /\ trade' = StopSold(trade, a) /\ UNCHANGED <<coins, order>> /\ Len(stops') = n
      /\ Stops' = Stops /\ OpenStops' = OpenStops \ {s}
      /\ \A u \in Stops : stops'[u].filled = stops[u].filled
  BY DEF Finishes
<1>4. DueOf' = [DueOf EXCEPT ![s] = 0] /\ DueOf[s] = a
  BY <1>1, <1>3 DEF DueOf
<1> HIDE DEF n, a
<1>5. /\ DueOf' \in [1..n -> Nat] /\ DueOf'[s] = 0
      /\ \A u \in 1..n \ {s} : DueOf'[u] = DueOf[u]
  BY <1>1, <1>4
<1>6. PICK t \in Nat : /\ IsTotal(DueOf, n, t)
                       /\ trade.open => coins + t + OrderDue = trade.amount
                       /\ ~trade.open /\ order.side # "entry" => coins = 0 /\ t = 0
  BY DEF Position, n
<1>7. IsTotal(DueOf', n, t + 0 - a)
  BY <1>1, <1>4, <1>5, <1>6, TotalChanges
<1> DEFINE u == t - a
<1>8. u \in Nat /\ IsTotal(DueOf', n, u)
  <2>1. t + 0 - a = u
    BY <1>2, <1>6
  <2>2. IsTotal(DueOf', n, u)
    BY <1>7, <2>1
  <2> QED
    BY <1>1, <1>5, <2>2, PartOfTotal
<1>9. OrderDue' = OrderDue /\ OrderDue \in Int /\ (order.side # "entry" => OrderDue >= 0)
  BY <1>1, <1>3 DEF OrderDue, OrderType, OrderShape
<1>10. t = u + a
  BY <1>2, <1>6
<1> HIDE DEF u
<1> DEFINE sold == StopSold(trade, a)
<1>11. /\ sold \in [open : BOOLEAN, amount : Int]
       /\ ~trade.open => ~sold.open
       /\ sold.open => sold.amount = trade.amount - a
       /\ trade.open /\ ~sold.open => a >= trade.amount
  BY <1>1, <1>2, SaleRecorded
<1>12. trade' = sold
  BY <1>3
<1> HIDE DEF sold
<1>13. trade'.open => coins + u + OrderDue = trade'.amount
  BY <1>1, <1>2, <1>6, <1>8, <1>9, <1>10, <1>11, <1>12
<1>14. ASSUME ~trade'.open, order.side # "entry"
       PROVE  coins = 0 /\ u = 0
  <2>1. CASE trade.open
    <3>1. coins + t + OrderDue = trade.amount /\ a >= trade.amount /\ OrderDue >= 0
      BY <1>6, <1>9, <1>11, <1>12, <1>14, <2>1
    <3> QED
      BY <1>1, <1>2, <1>8, <1>9, <1>10, <3>1
  <2>2. CASE ~trade.open
    <3>1. coins = 0 /\ t = 0
      BY <1>6, <1>14, <2>2
    <3> QED
      BY <1>2, <1>8, <1>10, <3>1
  <2> QED
    BY <2>1, <2>2
<1>15. Len(stops') = n /\ coins' = coins /\ order' = order
  BY <1>3
<1> QED
  BY <1>8, <1>9, <1>13, <1>14, <1>15 DEF Position

\* The position is accounted for through each step.
LEMMA PositionStep ==
    ASSUME IInv, Shape, Position, Recorded, Kind
    PROVE  Position'
<1>1. /\ DueOf \in [1..Len(stops) -> Nat] /\ Len(stops) \in Nat /\ Stops = 1..Len(stops)
      /\ trade \in [open : BOOLEAN, amount : Nat] /\ coins \in Nat /\ order \in OrderType
      /\ TypeOK /\ OrderShape
  BY DueTyped DEF IInv, TypeOK, Shape
<1>2. PICK t \in Nat : /\ IsTotal(DueOf, Len(stops), t)
                       /\ trade.open => coins + t + OrderDue = trade.amount
                       /\ ~trade.open /\ order.side # "entry" => coins = 0 /\ t = 0
  BY DEF Position
<1>3. /\ order.st # "filled" => OrderDue = 0
      /\ order.side = "none" => OrderDue = 0
      /\ order.amount \in Nat
  BY <1>1 DEF OrderDue, OrderShape, OrderType
<1>4. UNCHANGED <<stops>> /\ OpenStops' = OpenStops => DueOf' = DueOf
  BY DEF DueOf, Stops
<1>5. CASE Quiet
  BY <1>4, <1>5, PositionKept DEF Quiet, OrderDue
<1>6. ASSUME NEW s \in OpenStops, Finishes(s)
      PROVE  Position'
  BY <1>1, <1>6, FinishKeepsPosition
<1>7. ASSUME UNCHANGED <<stops, rec>>
      PROVE  DueOf' = DueOf
  BY <1>7 DEF DueOf, Stops, OpenStops
<1>8. CASE ManageFilled
  <2>1. /\ order.st = "filled" /\ order.side # "none" /\ trade.open
        /\ UNCHANGED <<stops, rec, coins>>
        /\ order' = NoOrder
    BY <1>1, <1>8 DEF ManageFilled, OrderShape, Shape, Managing
  <2>2. order'.side = "none" /\ OrderDue' = 0
    BY <2>1 DEF NoOrder, OrderDue
  <2>3. CASE order.side = "entry"
    <3> DEFINE b == trade.amount + order.amount
    <3>1. trade' = [trade EXCEPT !.amount = b]
      BY <1>8, <2>3 DEF ManageFilled
    <3>2. b = trade.amount + order.amount
      OBVIOUS
    <3> HIDE DEF b
    <3>3. trade'.open /\ trade'.amount = b
      BY <1>1, <2>1, <3>1
    <3>4. OrderDue = -order.amount
      BY <2>1, <2>3 DEF OrderDue
    <3>5. coins + t + 0 = b
      BY <1>1, <1>2, <1>3, <2>1, <3>2, <3>4
    <3> QED
      BY <1>2, <1>7, <2>1, <2>2, <3>3, <3>5 DEF Position
  <2>4. CASE order.side # "entry"
    <3> DEFINE a == order.amount
               b == trade.amount - a
    <3>1. \/ a >= trade.amount /\ trade' = [trade EXCEPT !.open = FALSE]
          \/ trade' = [trade EXCEPT !.amount = b]
      BY <1>8, <2>4 DEF ManageFilled, Sold
    <3>2. b = trade.amount - a /\ a \in Nat
      BY <1>3
    <3>3. OrderDue = a
      BY <1>1, <2>1, <2>4 DEF OrderDue, OrderType
    <3> HIDE DEF a, b
    <3>4. \/ a >= trade.amount /\ ~trade'.open
          \/ trade'.open /\ trade'.amount = b
      BY <1>1, <2>1, <3>1
    <3>5. coins + t + a = trade.amount
      BY <1>2, <2>1, <3>3
    <3>6. a >= trade.amount => coins = 0 /\ t = 0
      BY <1>1, <1>2, <3>2, <3>5
    <3>7. coins + t + 0 = b
      BY <1>1, <1>2, <3>2, <3>5
    <3> QED
      BY <1>2, <1>7, <2>1, <2>2, <3>4, <3>6, <3>7 DEF Position
  <2> QED
    BY <2>3, <2>4
<1>9. CASE ManageOpen
  <2>1. order.st = "live" /\ trade.open /\ order' \in {order, NoOrder}
        /\ UNCHANGED <<stops, rec, trade, coins>>
    BY <1>9 DEF ManageOpen, Shape, Managing
  <2>2. OrderDue' = OrderDue
    BY <2>1 DEF OrderDue, NoOrder
  <2> QED
    BY <1>7, <2>1, <2>2, PositionKept
<1>10. CASE AddToPosition \/ PlaceExit
  <2>1. /\ order.side = "none" /\ order'.st = "live" /\ UNCHANGED <<stops, trade, coins>>
        /\ rec' = rec \/ rec' = Committed(rec)
    BY <1>10 DEF AddToPosition, PlaceExit, HasOpenOrders
  <2>2. OrderDue' = 0 /\ OrderDue = 0
    BY <1>3, <2>1 DEF OrderDue
  <2>3. Stops' = Stops
    BY <2>1 DEF Stops
  <2>4. OpenStops' = OpenStops
    BY <1>1, <2>1, <2>3, CommitKeepsOpen DEF OpenStops
  <2> QED
    BY <1>4, <2>1, <2>2, <2>4, PositionKept
<1>11. CASE CreateStop
  <2> DEFINE n == Len(stops)
             v == [amount |-> trade.amount, filled |-> 0, st |-> "live"]
  <2>1. /\ bot.pc = "create" /\ stops' = Append(stops, v)
        /\ rec' = Append(rec, "pending") /\ UNCHANGED <<trade, coins, order>>
    BY <1>11 DEF CreateStop
  <2>2. /\ n \in Nat /\ Stops = 1..n /\ rec \in Seq(Records) /\ Len(rec) = n
        /\ stops \in Seq(StopType) /\ trade.amount \in Nat
    BY <1>1 DEF TypeOK, Stops
  <2>3. v \in StopType /\ v.filled = 0 /\ "pending" \in Records
    BY <2>2 DEF StopType, Status, Records
  <2> HIDE DEF v
  <2>4. /\ Len(stops') = n + 1 /\ Stops' = 1..(n + 1) /\ stops'[n + 1] = v
        /\ \A s \in 1..n : stops'[s] = stops[s] /\ rec'[s] = rec[s]
    BY <2>1, <2>2, <2>3 DEF Stops
  <2>5. 1..n \subseteq 1..(n + 1) /\ n + 1 \in 1..(n + 1) /\ \A s \in 1..(n + 1) : s \in 1..n \/ s = n + 1
    BY <2>2
  <2>6. \A s \in 1..n : (s \in OpenStops)' <=> s \in OpenStops
    BY <2>2, <2>4, <2>5 DEF OpenStops
  <2>7. \A s \in 1..n : DueOf'[s] = DueOf[s]
    BY <2>2, <2>4, <2>5, <2>6 DEF DueOf
  <2>8. DueOf'[n + 1] = 0
    BY <2>2, <2>3, <2>4, <2>5 DEF DueOf
  <2>9. DueOf' \in [1..(n + 1) -> Nat]
    <3>1. DueOf' = [s \in 1..(n + 1) |-> DueOf'[s]]
      BY <2>4 DEF DueOf
    <3>2. \A s \in 1..(n + 1) : DueOf'[s] \in Nat
      BY <1>1, <2>5, <2>7, <2>8
    <3> HIDE DEF n
    <3> QED
      BY <3>1, <3>2
  <2> HIDE DEF n
  <2>10. IsTotal(DueOf', n + 1, t + DueOf'[n + 1])
    BY <1>1, <1>2, <2>2, <2>7, <2>9, TotalWithOneMore DEF n
  <2>11. IsTotal(DueOf', n + 1, t)
    BY <1>2, <2>8, <2>10
  <2>12. OrderDue' = OrderDue
    BY <2>1 DEF OrderDue
  <2> QED
    BY <1>2, <2>1, <2>4, <2>11, <2>12 DEF Position
<1>12. CASE OrderFills
  <2>1. /\ order.st = "live" /\ order' = [order EXCEPT !.st = "filled"]
        /\ UNCHANGED <<stops, rec, trade>>
        /\ \/ order.side = "exit" /\ coins >= order.amount /\ coins' = coins - order.amount
           \/ order.side = "entry" /\ coins' = coins + order.amount
    BY <1>1, <1>12 DEF OrderFills, OrderType, OrderShape
  <2>2. order'.st = "filled" /\ order'.side = order.side /\ order'.amount = order.amount
    BY <1>1, <2>1 DEF OrderType
  <2>3. OrderDue = 0 /\ coins' + OrderDue' = coins + OrderDue /\ OrderDue' \in Int /\ coins' \in Nat
    BY <1>1, <1>3, <2>1, <2>2 DEF OrderDue
  <2>4. trade.open => coins' + t + OrderDue' = trade.amount
    <3>1. SUFFICES ASSUME trade.open PROVE coins' + t + OrderDue' = trade.amount
      OBVIOUS
    <3>2. coins + t + OrderDue = trade.amount
      BY <1>2, <3>1
    <3> QED
      BY <1>1, <1>2, <1>3, <2>1, <2>3, <3>2
  <2>5. ~trade.open /\ order'.side # "entry" => coins' = 0 /\ t = 0
    BY <1>1, <1>2, <1>3, <2>1, <2>2
  <2> QED
    BY <1>2, <1>7, <2>1, <2>4, <2>5 DEF Position
<1>13. ASSUME NEW s \in Stops, StopDropped(s)
       PROVE  Position'
  <2>1. UNCHANGED <<rec, trade, coins, order>> /\ stops' = [stops EXCEPT ![s].st = "canceled"]
    BY <1>13 DEF StopDropped
  <2>2. /\ Stops' = Stops /\ Len(stops') = Len(stops)
        /\ \A u \in Stops : stops'[u].filled = stops[u].filled
    <3>1. Live(s)
      BY <1>13 DEF StopDropped
    <3> QED
      BY <1>1, <2>1, <3>1, CanceledStops
  <2>3. DueOf' = DueOf
    BY <2>1, <2>2 DEF DueOf, OpenStops
  <2> QED
    BY <2>1, <2>2, <2>3, PositionKept DEF OrderDue
<1>14. ASSUME NEW s \in Stops, StopFills(s)
       PROVE  Position'
  <2>1. stops[s] \in StopType /\ stops[s].filled \in Nat /\ stops[s].amount \in Nat
    <3>1. stops \in Seq(StopType) /\ s \in 1..Len(stops)
      BY <1>1 DEF TypeOK
    <3>2. stops[s] \in StopType
      BY <3>1
    <3> QED
      BY <3>2 DEF StopType
  <2>2. PICK a \in 1..(stops[s].amount - stops[s].filled) :
           /\ a <= coins /\ coins' = coins - a
           /\ stops' = [stops EXCEPT ![s].filled = @ + a,
                                     ![s].st = IF stops[s].filled + a = stops[s].amount
                                               THEN "filled" ELSE "live"]
    BY <1>14 DEF StopFills
  <2>3. UNCHANGED <<rec, trade, order>> /\ a \in Nat /\ a >= 1
    BY <1>14, <2>1, <2>2 DEF StopFills
  <2> DEFINE f == stops[s].filled + a
             st == IF f = stops[s].amount THEN "filled" ELSE "live"
             v == [stops[s] EXCEPT !.filled = f, !.st = st]
             n == Len(stops)
  <2>4. f \in Nat /\ st \in Status /\ f = stops[s].filled + a
    BY <2>1, <2>3 DEF Status
  <2>5. stops' = [stops EXCEPT ![s] = v]
    BY <2>2
  <2> HIDE DEF f, st
  <2>6. v \in StopType /\ v.filled = f
    BY <2>1, <2>4 DEF StopType
  <2> HIDE DEF v, n
  <2>7. /\ Stops' = Stops /\ Len(stops') = n
        /\ \A u \in Stops : stops'[u] = IF u = s THEN v ELSE stops[u]
    <3>1. stops \in Seq(StopType) /\ s \in 1..Len(stops)
      BY <1>1 DEF TypeOK
    <3> QED
      BY <2>5, <2>6, <3>1, ExceptSeq DEF Stops, n
  <2>8. s \in OpenStops /\ OpenStops' = OpenStops
    <3>1. s \in LiveStops
      BY <1>14 DEF StopFills, LiveStops
    <3> QED
      BY <2>3, <2>7, <3>1 DEF Recorded, OpenStops
  <2>9. /\ DueOf' \in [1..n -> Nat] /\ DueOf'[s] = f /\ DueOf[s] = stops[s].filled
        /\ \A u \in 1..n \ {s} : DueOf'[u] = DueOf[u]
    <3>1. DueOf' = [DueOf EXCEPT ![s] = f] /\ DueOf[s] = stops[s].filled
      BY <1>1, <2>6, <2>7, <2>8 DEF DueOf
    <3> QED
      BY <1>1, <2>4, <3>1 DEF n
  <2>10. IsTotal(DueOf', n, t + f - stops[s].filled)
    BY <1>1, <1>2, <2>9, TotalChanges DEF n
  <2>11. t + f - stops[s].filled = t + a
    BY <1>2, <2>1, <2>3, <2>4
  <2>12. t + a \in Nat /\ IsTotal(DueOf', n, t + a)
    BY <1>2, <2>3, <2>10, <2>11
  <2>13. OrderDue' = OrderDue
    BY <2>3 DEF OrderDue
  <2>14. trade.open => coins' + (t + a) + OrderDue = trade.amount
    <3>1. OrderDue \in Int
      BY <1>1, <1>3 DEF OrderDue
    <3> QED
      BY <1>1, <1>2, <2>2, <2>3, <3>1
  <2>15. ~(~trade.open /\ order.side # "entry")
    BY <1>1, <1>2, <2>2, <2>3
  <2> QED
    BY <2>3, <2>7, <2>12, <2>13, <2>14, <2>15 DEF Position
<1> QED
  BY <1>5, <1>6, <1>8, <1>9, <1>10, <1>11, <1>12, <1>13, <1>14 DEF Kind

-----------------------------------------------------------------------------
\* The exchange triggers a stop or drops it.
LEMMA ExchangeStops ==
    ASSUME TypeOK, NEW s \in Stops, StopFills(s) \/ StopDropped(s)
    PROVE  /\ Stops' = Stops /\ OpenStops' = OpenStops /\ LiveStops' \subseteq LiveStops
           /\ s \in LiveStops /\ (StopDropped(s) => s \notin LiveStops')
           /\ stops'[s].amount = stops[s].amount
           /\ \A u \in Stops \ {s} : stops'[u] = stops[u]
           /\ UNCHANGED <<option, trade, order, bot>>
<1>1. /\ stops \in Seq(StopType) /\ s \in DOMAIN stops /\ Live(s)
      /\ UNCHANGED <<option, rec, trade, order, bot>>
  BY DEF TypeOK, Stops, StopFills, StopDropped
<1>2. stops[s] \in StopType
  BY <1>1
<1>3. /\ Stops' = Stops /\ \A u \in Stops \ {s} : stops'[u] = stops[u]
      /\ stops'[s].amount = stops[s].amount
      /\ StopDropped(s) => stops'[s].st = "canceled"
  <2>1. CASE StopDropped(s)
    <3> DEFINE v == [stops[s] EXCEPT !.st = "canceled"]
    <3>1. stops' = [stops EXCEPT ![s] = v]
      BY <2>1 DEF StopDropped
    <3>2. v.amount = stops[s].amount /\ v.st = "canceled"
      BY <1>2 DEF StopType
    <3> HIDE DEF v
    <3> QED
      BY <1>1, <3>1, <3>2 DEF Stops
  <2>2. CASE StopFills(s)
    <3>1. PICK a \in 1..(stops[s].amount - stops[s].filled) :
             stops' = [stops EXCEPT ![s].filled = @ + a,
                                    ![s].st = IF stops[s].filled + a = stops[s].amount
                                              THEN "filled" ELSE "live"]
      BY <2>2 DEF StopFills
    <3> DEFINE f == stops[s].filled + a
               st == IF f = stops[s].amount THEN "filled" ELSE "live"
               v == [stops[s] EXCEPT !.filled = f, !.st = st]
    <3>2. stops' = [stops EXCEPT ![s] = v]
      BY <3>1
    <3> HIDE DEF f, st
    <3>3. v.amount = stops[s].amount
      BY <1>2 DEF StopType
    <3> HIDE DEF v
    <3>4. Stops' = Stops /\ \A u \in Stops \ {s} : stops'[u] = stops[u]
      BY <1>1, <3>2 DEF Stops
    <3>5. stops'[s] = v
      BY <1>1, <3>2
    <3>6. StopDropped(s) => stops' = [stops EXCEPT ![s].st = "canceled"]
      BY DEF StopDropped
    <3>7. [stops[s] EXCEPT !.st = "canceled"].st = "canceled"
      BY <1>2 DEF StopType
    <3>8. StopDropped(s) => stops'[s].st = "canceled"
      BY <1>1, <3>6, <3>7
    <3> QED
      BY <3>3, <3>4, <3>5, <3>8
  <2> QED
    BY <2>1, <2>2
<1>4. OpenStops' = OpenStops
  BY <1>1, <1>3 DEF OpenStops
<1>5. LiveStops' \subseteq LiveStops /\ s \in LiveStops /\ (StopDropped(s) => s \notin LiveStops')
  BY <1>1, <1>3 DEF LiveStops, Live
<1> QED
  BY <1>1, <1>3, <1>4, <1>5

\* Only the bot makes a stop work.
LEMMA LiveShrinks ==
    ASSUME TypeOK, Kind, ~CreateStop
    PROVE  LiveStops' \subseteq LiveStops
<1>1. stops' = stops => LiveStops' = LiveStops
  BY DEF LiveStops, Live, Stops
<1> QED
  BY <1>1, ExchangeStops
     DEF Kind, Quiet, Finishes, ManageFilled, ManageOpen, AddToPosition, PlaceExit, OrderFills

\* The bot places a stop.
LEMMA Placed ==
    ASSUME TypeOK, CreateStop
    PROVE  /\ bot.pc = "create" /\ bot'.pc = "decide" /\ UNCHANGED <<option, trade, order, coins>>
           /\ Len(stops) + 1 \in Stops' /\ Stops' = Stops \cup {Len(stops) + 1}
           /\ Len(stops) + 1 \notin Stops
           /\ stops'[Len(stops) + 1].amount = trade.amount
           /\ \A s \in Stops : stops'[s] = stops[s] /\ rec'[s] = rec[s]
<1> DEFINE n == Len(stops)
           v == [amount |-> trade.amount, filled |-> 0, st |-> "live"]
<1>1. /\ bot.pc = "create" /\ stops' = Append(stops, v) /\ bot' = [bot EXCEPT !.pc = "decide"]
      /\ rec' = Append(rec, "pending") /\ UNCHANGED <<option, trade, order, coins>>
  BY DEF CreateStop, Go
<1>2. /\ n \in Nat /\ Stops = 1..n /\ rec \in Seq(Records) /\ Len(rec) = n
      /\ stops \in Seq(StopType) /\ trade.amount \in Nat
  BY DEF TypeOK, Stops
<1>3. v \in StopType /\ v.amount = trade.amount /\ "pending" \in Records
  BY <1>2 DEF StopType, Status, Records
<1> HIDE DEF v
<1>4. /\ Stops' = 1..(n + 1) /\ stops'[n + 1] = v
      /\ \A s \in 1..n : stops'[s] = stops[s] /\ rec'[s] = rec[s]
  BY <1>1, <1>2, <1>3 DEF Stops
<1>5. 1..(n + 1) = 1..n \cup {n + 1} /\ n + 1 \notin 1..n
  BY <1>2
<1>6. bot'.pc = "decide"
  <2>1. "decide" \in Places
    BY DEF Places
  <2> QED
    BY <1>1, <2>1, BotGoes
<1> HIDE DEF n
<1> QED
  BY <1>1, <1>2, <1>3, <1>4, <1>5, <1>6 DEF n

\* Where stops block the coins: no stop beside an exit, and no order when a stop is placed.
LEMMA WayStep ==
    ASSUME TypeOK, OrderShape, InHand, Way, Moved, Kind
    PROVE  Way'
<1>1. SUFFICES ASSUME option.blocking
               PROVE  /\ Placing' => ~HasOpenOrders'
                      /\ bot'.pc = "sell" \/ order'.side = "exit" => LiveStops' = {}
  BY DEF Way, Moved
<1>2. /\ Placing => ~HasOpenOrders
      /\ bot.pc = "sell" \/ order.side = "exit" => LiveStops = {}
      /\ bot.pc = "cancel" /\ bot.todo = {} => LiveStops = {}
  BY <1>1 DEF Way, InHand
<1>3. /\ Placing' => ~HasOpenOrders
      /\ bot'.pc = "sell" => LiveStops = {}
  BY <1>1, <1>2 DEF Moved
<1>4. CASE CreateStop
  BY <1>2, <1>4, Placed DEF Placing, HasOpenOrders
<1>5. CASE AddToPosition \/ PlaceExit
  <2>1. bot' = [bot EXCEPT !.pc = "decide"] \/ bot' = [bot EXCEPT !.pc = "commit"]
    BY <1>5 DEF AddToPosition, PlaceExit, Go, ExitEnd
  <2>2. {"decide", "commit"} \subseteq Places
    BY DEF Places
  <2>3. bot'.pc \in {"decide", "commit"}
    <3>1. [bot EXCEPT !.pc = "decide"].pc = "decide" /\ [bot EXCEPT !.pc = "commit"].pc = "commit"
      BY <2>2, BotGoes
    <3> QED
      BY <2>1, <3>1
  <2>4. order'.side = "exit" => LiveStops = {}
    BY <1>2, <1>5 DEF AddToPosition, PlaceExit
  <2>5. LiveStops' \subseteq LiveStops
    BY <1>5 DEF AddToPosition, PlaceExit, LiveStops, Live, Stops
  <2> QED
    BY <2>3, <2>4, <2>5 DEF Placing
<1>6. CASE ~CreateStop /\ ~AddToPosition /\ ~PlaceExit
  <2>1. LiveStops' \subseteq LiveStops
    BY <1>6, LiveShrinks
  <2>2. order'.side \in {order.side, "none"}
    <3>1. CASE OrderFills
      <4>1. order \in OrderType /\ order' = [order EXCEPT !.st = "filled"]
        BY <3>1 DEF OrderFills, TypeOK
      <4> QED
        BY <4>1 DEF OrderType
    <3>2. CASE ManageFilled \/ ManageOpen
      BY <3>2 DEF ManageFilled, ManageOpen, NoOrder
    <3> QED
      BY <1>6, <3>1, <3>2, ExchangeStops DEF Kind, Quiet, Finishes
  <2> QED
    BY <1>2, <1>3, <2>1, <2>2 DEF HasOpenOrders
<1> QED
  BY <1>4, <1>5, <1>6

\* The working stop is for the whole position through each step.
LEMMA MatchStep ==
    ASSUME TypeOK, OrderShape, Position, Single, InHand, Cleared, Way, Match, Moved, Kind
    PROVE  Match'
<1>1. SUFFICES ASSUME option.blocking, trade'.open, NEW t \in LiveStops'
               PROVE  /\ bot'.pc = "cancel" \/ stops'[t].amount = trade'.amount
                      /\ \A s \in Stops' \ {t} : DueOf'[s] = 0
  BY DEF Match, Moved
<1>2. /\ trade \in [open : BOOLEAN, amount : Nat] /\ coins \in Nat
      /\ DueOf \in [1..Len(stops) -> Nat] /\ Len(stops) \in Nat /\ Stops = 1..Len(stops)
      /\ OpenStops \subseteq Stops
  BY DueTyped DEF TypeOK
<1>3. bot.pc = "cancel" /\ bot'.pc # "cancel" => LiveStops = {}
  BY DEF Moved, InHand
<1>4. ASSUME UNCHANGED <<stops, trade>>, OpenStops' = OpenStops
      PROVE  /\ bot'.pc = "cancel" \/ stops'[t].amount = trade'.amount
             /\ \A s \in Stops' \ {t} : DueOf'[s] = 0
  <2>1. LiveStops' = LiveStops /\ Stops' = Stops /\ DueOf' = DueOf
    BY <1>4 DEF LiveStops, Live, Stops, DueOf
  <2>2. t \in LiveStops /\ trade.open
    BY <1>1, <1>4, <2>1
  <2>3. /\ bot.pc = "cancel" \/ stops[t].amount = trade.amount
        /\ \A s \in Stops \ {t} : DueOf[s] = 0
    BY <1>1, <2>2 DEF Match
  <2> QED
    BY <1>3, <1>4, <2>1, <2>2, <2>3
<1>5. CASE Quiet
  BY <1>4, <1>5 DEF Quiet
<1>6. ASSUME NEW s \in OpenStops, Finishes(s)
      PROVE  /\ bot'.pc = "cancel" \/ stops'[t].amount = trade'.amount
             /\ \A u \in Stops' \ {t} : DueOf'[u] = 0
  <2>1. /\ trade' = StopSold(trade, stops[s].filled) /\ Stops' = Stops
        /\ \A u \in Stops : stops'[u].amount = stops[u].amount /\ stops'[u].filled = stops[u].filled
        /\ LiveStops' \subseteq LiveStops \ {s} /\ OpenStops' = OpenStops \ {s}
    BY <1>6 DEF Finishes
  <2>2. t \in LiveStops /\ t # s /\ s \in Stops /\ t \in Stops
    BY <1>1, <1>2, <2>1 DEF LiveStops
  <2>3. trade.open
    <3>1. CASE stops[s].filled = 0
      BY <1>1, <2>1, <3>1 DEF StopSold
    <3>2. CASE stops[s].filled # 0
      BY <1>1, <1>2, <2>1, <3>2 DEF StopSold, Sold
    <3> QED
      BY <3>1, <3>2
  <2>4. /\ bot.pc = "cancel" \/ stops[t].amount = trade.amount
        /\ \A u \in Stops \ {t} : DueOf[u] = 0
    BY <1>1, <2>2, <2>3 DEF Match
  <2>5. stops[s].filled = 0
    BY <2>2, <2>4 DEF DueOf
  <2>6. trade' = trade
    BY <2>1, <2>5 DEF StopSold
  <2>7. \A u \in Stops : DueOf'[u] = IF u = s THEN 0 ELSE DueOf[u]
    BY <2>1 DEF DueOf
  <2> QED
    BY <1>3, <2>1, <2>2, <2>4, <2>6, <2>7
<1>7. ASSUME NEW s \in Stops, StopFills(s) \/ StopDropped(s)
      PROVE  /\ bot'.pc = "cancel" \/ stops'[t].amount = trade'.amount
             /\ \A u \in Stops' \ {t} : DueOf'[u] = 0
  <2>1. /\ Stops' = Stops /\ OpenStops' = OpenStops /\ LiveStops' \subseteq LiveStops
        /\ s \in LiveStops /\ stops'[s].amount = stops[s].amount
        /\ \A u \in Stops \ {s} : stops'[u] = stops[u]
        /\ UNCHANGED <<option, trade, order, bot>>
    BY <1>7, ExchangeStops
  <2>2. t = s /\ trade.open /\ bot' = bot /\ trade' = trade
    BY <1>1, <2>1 DEF Single
  <2>3. \A u \in Stops \ {s} : DueOf'[u] = DueOf[u]
    BY <2>1 DEF DueOf
  <2>4. /\ bot.pc = "cancel" \/ stops[s].amount = trade.amount
        /\ \A u \in Stops \ {s} : DueOf[u] = 0
    BY <1>1, <2>1, <2>2 DEF Match
  <2> QED
    BY <2>1, <2>2, <2>3, <2>4
<1>8. CASE OrderFills \/ ManageOpen
  <2>1. UNCHANGED <<stops, rec, trade>>
    BY <1>8 DEF OrderFills, ManageOpen
  <2>2. OpenStops' = OpenStops
    BY <2>1 DEF OpenStops, Stops
  <2> QED
    BY <1>4, <2>1, <2>2
<1>9. CASE AddToPosition \/ PlaceExit
  <2>1. UNCHANGED <<stops, trade>> /\ (rec' = rec \/ rec' = Committed(rec))
    BY <1>9 DEF AddToPosition, PlaceExit
  <2>2. Stops' = Stops
    BY <2>1 DEF Stops
  <2>3. OpenStops' = OpenStops
    BY <2>1, <2>2, CommitKeepsOpen DEF OpenStops
  <2> QED
    BY <1>4, <2>1, <2>3
<1>10. CASE ManageFilled
  <2>1. /\ order.st = "filled" /\ UNCHANGED <<stops, rec>>
        /\ order.side = "entry" => trade' = [trade EXCEPT !.amount = @ + order.amount]
        /\ bot' = IF CancelAfterFill(order.side, trade'.open) THEN CancelAll("stops")
                  ELSE [bot EXCEPT !.pc = "stops"]
    BY <1>10 DEF ManageFilled
  <2>2. LiveStops' = LiveStops /\ Stops' = Stops /\ DueOf' = DueOf
    BY <2>1 DEF LiveStops, Live, Stops, DueOf, OpenStops
  <2>3. order.side = "entry"
    <3>1. order.side \in {"entry", "exit"}
      BY <2>1 DEF OrderShape, TypeOK, OrderType
    <3>2. order.side # "exit"
      BY <1>1, <2>2 DEF Way
    <3> QED
      BY <3>1, <3>2
  <2>4. bot' = CancelAll("stops")
    BY <2>1, <2>3 DEF CancelAfterFill
  <2>5. bot'.pc = "cancel"
    <3>1. "stops" \in Backs
      BY DEF Backs
    <3> QED
      BY <2>4, <3>1, BotGoes
  <2>6. trade.open
    <3> DEFINE b == trade.amount + order.amount
    <3>1. trade' = [trade EXCEPT !.amount = b]
      BY <2>1, <2>3
    <3> HIDE DEF b
    <3> QED
      BY <1>1, <1>2, <3>1
  <2>7. \A s \in Stops \ {t} : DueOf[s] = 0
    BY <1>1, <2>2, <2>6 DEF Match
  <2> QED
    BY <2>2, <2>5, <2>7
<1>11. CASE CreateStop
  <2> DEFINE k == Len(stops) + 1
  <2>1. /\ bot.pc = "create" /\ bot'.pc = "decide" /\ UNCHANGED <<option, trade, order, coins>>
        /\ k \in Stops' /\ Stops' = Stops \cup {k} /\ k \notin Stops
        /\ stops'[k].amount = trade.amount
        /\ \A s \in Stops : stops'[s] = stops[s] /\ rec'[s] = rec[s]
    BY <1>11, Placed
  <2> HIDE DEF k
  <2>2. LiveStops = {} /\ order.side = "none" /\ trade.open
    BY <1>1, <2>1 DEF Cleared, Way, Placing, HasOpenOrders
  <2>3. t = k
    BY <2>1, <2>2 DEF LiveStops, Live
  <2>4. coins >= trade.amount
    <3>1. Free = coins
      BY <2>2, NothingHeld
    <3> QED
      BY <1>11, <3>1 DEF CreateStop
  <2>5. PICK total \in Nat : /\ IsTotal(DueOf, Len(stops), total)
                             /\ coins + total + OrderDue = trade.amount
    BY <2>2 DEF Position
  <2>6. OrderDue = 0
    BY <2>2 DEF OrderDue, OrderShape
  <2>7. total = 0
    BY <1>2, <2>4, <2>5, <2>6
  <2>8. \A s \in Stops : DueOf[s] = 0
    <3>1. ASSUME NEW s \in Stops
          PROVE  DueOf[s] = 0
      <4>1. DueOf[s] <= 0 /\ DueOf[s] \in Nat
        BY <1>2, <2>5, <2>7, PartOfTotal
      <4> QED
        BY <4>1
    <3> QED
      BY <3>1
  <2>9. \A s \in Stops : DueOf'[s] = DueOf[s]
    <3>1. \A s \in Stops : (s \in OpenStops)' <=> s \in OpenStops
      BY <2>1 DEF OpenStops
    <3> QED
      BY <2>1, <3>1 DEF DueOf
  <2> QED
    BY <2>1, <2>3, <2>8, <2>9
<1> QED
  BY <1>5, <1>6, <1>7, <1>8, <1>9, <1>10, <1>11 DEF Kind

-----------------------------------------------------------------------------
\* As long as no stop has escaped the bot.
CoinsInv == ~slipped => Shape /\ Position /\ Way /\ Match

\* All coins are in the wallet at the beginning.
LEMMA InitCoins ==
    ASSUME Init, ExtraCoins = 0
    PROVE  CoinsInv
<1>1. /\ stops = <<>> /\ Stops = {} /\ Len(stops) = 0 /\ LiveStops = {}
      /\ order.side = "none" /\ order.st = "none" /\ bot.pc = "idle"
      /\ trade.open /\ trade.amount = Amount /\ coins = Amount
  BY StoplossAssumption DEF Init, Stops, LiveStops, NoOrder, Idle
<1>2. IsTotal(DueOf, 0, 0)
  BY TotalOfNothing
<1>3. OrderDue = 0
  BY <1>1 DEF OrderDue
<1>4. Position
  BY <1>1, <1>2, <1>3, StoplossAssumption DEF Position
<1>5. Shape /\ Way /\ Match
  BY <1>1 DEF Shape, Loops, Managing, OrderShape, Way, Match, Placing, HasOpenOrders
<1> QED
  BY <1>4, <1>5 DEF CoinsInv

\* The coins are accounted for through each step.
LEMMA CoinsStep ==
    ASSUME IInv, CoinsInv, [Next]_vars
    PROVE  CoinsInv'
<1>1. SUFFICES ASSUME ~slipped'
               PROVE  Shape' /\ Position' /\ Way' /\ Match'
  BY DEF CoinsInv
<1>2. ~slipped
  <2>1. slipped => slipped'
    BY DEF Next, BotStep, vars, exchange, StopFills, StopDropped, OrderFills, CancelStop,
           CancelMadeUp, CancelRefused, CancelRaises, CancelEnd, BeginProcess, ManageFilled,
           ManageOpen, BeginStops, FetchStop, FetchFails, FetchRaises, DecideStop, Trail,
           CreateStop, CreateRefused, CreateFails, Refind, Decide, AddToPosition, ExitBegins,
           ExitNotPlaced, PlaceExit, ExitRefused, Commit, Rollback, Closed
  <2> QED
    BY <1>1, <2>1
<1>3. TypeOK /\ Recorded /\ Single /\ InHand /\ Cleared /\ Shape /\ OrderShape /\ Position /\ Way /\ Match
  BY <1>2 DEF IInv, CoinsInv, Shape
<1>4. Shape' /\ Moved /\ Kind
  BY <1>1, <1>3, StepKinds
<1> QED
  BY <1>3, <1>4, PositionStep, WayStep, MatchStep

LEMMA CoinsAlways ==
    ASSUME ExtraCoins = 0
    PROVE  Spec => []CoinsInv
<1>1. Init => CoinsInv
  BY InitCoins
<1>2. IInv /\ CoinsInv /\ [Next]_vars => CoinsInv'
  BY CoinsStep
<1> QED
  BY <1>1, <1>2, InvAlways, PTL DEF Spec

\* A trade is closed only when its coins are sold, by stops, parts of stops and exits together,
\* as long as no stop has escaped: when there are no other coins of the pair in the wallet.
\* With others, an exit goes on after a stop has sold the position and closed the trade, and
\* sells those.
THEOREM ClosedAlwaysSold ==
    ASSUME ExtraCoins = 0
    PROVE  Spec => []ClosedMeansSold
<1>1. CoinsInv => ClosedMeansSold
  BY DEF CoinsInv, Position, ClosedMeansSold
<1> QED
  BY <1>1, CoinsAlways, PTL

\* Where stops block the coins, the stop of a trade without other orders is for the whole
\* position whenever the bot is idle.  With other coins in the wallet, a new stop may be placed
\* for the amount from before an old one sold a part of it.
THEOREM StopAlwaysMatches ==
    ASSUME ExtraCoins = 0
    PROVE  Spec => []StopMatches
<1>1. CoinsInv => StopMatches
  BY DEF CoinsInv, Match, StopMatches, LiveStops
<1> QED
  BY <1>1, CoinsAlways, PTL

=============================================================================
