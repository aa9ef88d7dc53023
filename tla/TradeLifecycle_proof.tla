----------------------- MODULE TradeLifecycle_proof -----------------------
(***************************************************************************)
(* Proofs about TradeLifecycle, for every value of its constants.          *)
(*                                                                         *)
(* FinalOrdersAgree is not inductive by itself: the database learns of an  *)
(* order through the copy the bot holds (bot.seen), and that copy is older *)
(* than the exchange by every step taken since it was fetched.  The        *)
(* invariant that carries the proof says the same of the copy: what the    *)
(* bot holds as final is what the exchange has, and stays so because a     *)
(* final order does not change any more.                                   *)
(*                                                                         *)
(* The other results have an invariant of their own each, and use those    *)
(* before it:                                                              *)
(*                                                                         *)
(*   FillsStayRecorded    Fills: how far a copy may be behind              *)
(*   NeverTwoLiveOrders   Places and Alone: where the bot may be when a    *)
(*                        trade does not exist yet or no longer            *)
(*   RecordsTyped         Typed                                            *)
(*   LedgerAlwaysSound    Ledger: the sum of the recorded fills and the    *)
(*                        amount, also between the two commits             *)
(*   DeletionsAlwaysSafe  Purchase: without a recorded entry no exit was   *)
(*                        ever placed                                      *)
(*   ClosedAlwaysFlat     Accounts and Exact: each order is recorded as    *)
(*                        final or is the only one that is not, and what   *)
(*                        exits promise is on the account                  *)
(*   NeverLeftEmpty       Manned: a trade without an amount has an open    *)
(*                        order or a handler that deals with it            *)
(*   RecordsAlwaysKept    HandBetween: what is written was seen after what *)
(*                        is recorded, and before what the exchange has    *)
(***************************************************************************)
EXTENDS TradeLifecycle, FiniteSetTheorems, WellFoundedInduction, TLAPS

-----------------------------------------------------------------------------
(* Sums.  SumFunctionOnSet of the community modules is defined by recursion    *)
(* over a CHOOSEn function on the subsets of a set.  What follows is induction *)
(* over the subsets of a finite set, with the property given as a set of them, *)
(* and from it: the recursion has a solution, any two solutions agree, and a   *)
(* sum may be taken apart at any element.                                      *)

Less == {p \in Nat \X Nat : p[1] < p[2]}

LEMMA LessWellFounded == IsWellFoundedOn(Less, Nat)
BY NatLessThanWellFounded DEF OpToRel, Less

LEMMA SmallestExists ==
    ASSUME NEW N \in SUBSET Nat, N # {}
    PROVE  \E n \in N : \A m \in N : n <= m
<1>1. PICK n \in N : \A m \in N : <<m, n>> \notin Less
  BY LessWellFounded, WFMin
<1>2. ASSUME NEW m \in N PROVE n <= m
  <2>1. <<m, n>> \in Nat \X Nat /\ (m < n \/ n <= m)
    OBVIOUS
  <2> QED
    BY <1>1, <2>1 DEF Less
<1> QED
  BY <1>2

\* Induction over the natural numbers, for a property given as a set.
LEMMA CountingUp ==
    ASSUME NEW T, 0 \in T, \A n \in Nat : n \in T => n + 1 \in T
    PROVE  Nat \subseteq T
<1> DEFINE Missing == {n \in Nat : n \notin T}
<1>1. SUFFICES ASSUME Missing # {} PROVE FALSE
  OBVIOUS
<1>2. PICK n \in Missing : \A m \in Missing : n <= m
  BY <1>1, SmallestExists
<1>3. n - 1 \in Nat /\ ~(n <= n - 1)
  BY <1>2
<1> QED
  BY <1>2, <1>3

\* Induction over the subsets of a finite set, by their size.
LEMMA BySize ==
    ASSUME NEW S, IsFiniteSet(S), NEW T,
           \A R \in SUBSET S : (\A x \in R : R \ {x} \in T) => R \in T
    PROVE  SUBSET S \subseteq T
<1> DEFINE Missing == {R \in SUBSET S : R \notin T}
           Sizes == {Cardinality(R) : R \in Missing}
<1>1. SUFFICES ASSUME Missing # {} PROVE FALSE
  OBVIOUS
<1>2. \A R \in SUBSET S : IsFiniteSet(R) /\ Cardinality(R) \in Nat
  BY FS_Subset, FS_CardinalityType
<1>3. PICK n \in Sizes : \A m \in Sizes : n <= m
  <2>1. Sizes \in SUBSET Nat /\ Sizes # {}
    BY <1>1, <1>2
  <2> HIDE DEF Sizes
  <2> QED
    BY <2>1, SmallestExists
<1>4. PICK R \in Missing : Cardinality(R) = n
  BY <1>3
<1>5. ASSUME NEW x \in R PROVE R \ {x} \in T
  <2>1. Cardinality(R \ {x}) = Cardinality(R) - 1
    BY <1>2, <1>4, FS_RemoveElement
  <2>2. ~(n <= Cardinality(R \ {x}))
    BY <1>2, <1>4, <2>1
  <2> QED
    BY <1>3, <2>2
<1> QED
  BY <1>4, <1>5

\* The element that the sum of the community modules takes first.
First(R) == CHOOSE x \in R : TRUE

LEMMA FirstIsMember == ASSUME NEW R, R # {} PROVE First(R) \in R
BY DEF First

\* The sum over R, given the sums over smaller sets.
Unfolded(f, g, R) == IF R = {} THEN 0 ELSE f[First(R)] + g[R \ {First(R)}]

Solves(f, g, S) == g = [R \in SUBSET S |-> Unfolded(f, g, R)]

\* Two solutions agree on the sets that both are about.
LEMMA SolutionsAgree ==
    ASSUME NEW S, IsFiniteSet(S), NEW R \in SUBSET S, NEW f, NEW g, NEW h,
           Solves(f, g, S), Solves(f, h, R)
    PROVE  g[R] = h[R]
<1> DEFINE Agreed == {Q \in SUBSET R : g[Q] = h[Q]}
<1>1. \A Q \in SUBSET R : g[Q] = Unfolded(f, g, Q) /\ h[Q] = Unfolded(f, h, Q)
  BY DEF Solves
<1>2. ASSUME NEW Q \in SUBSET R, \A x \in Q : Q \ {x} \in Agreed
      PROVE  Q \in Agreed
  BY <1>1, <1>2, FirstIsMember DEF Unfolded
<1>3. IsFiniteSet(R)
  BY FS_Subset
<1>4. SUBSET R \subseteq Agreed
  <2> HIDE DEF Agreed
  <2> QED
    BY <1>2, <1>3, BySize
<1> QED
  BY <1>4

\* The recursion of the sum over the subsets of a finite set has a solution.
LEMMA SolutionExists == ASSUME NEW S, IsFiniteSet(S), NEW f PROVE \E g : Solves(f, g, S)
<1> DEFINE UpTo(n) == {R \in SUBSET S : Cardinality(R) <= n}
           SolvesTo(g, n) == g = [R \in UpTo(n) |-> Unfolded(f, g, R)]
           Solved == {n \in Nat : \E g : SolvesTo(g, n)}
<1>1. \A R \in SUBSET S : IsFiniteSet(R) /\ Cardinality(R) \in Nat
  BY FS_Subset, FS_CardinalityType
<1>2. 0 \in Solved
  <2>1. ASSUME NEW R \in UpTo(0) PROVE R = {}
    <3>1. Cardinality(R) = 0
      BY <1>1, <2>1
    <3> QED
      BY <1>1, <3>1, FS_EmptySet
  <2>2. SolvesTo([R \in UpTo(0) |-> 0], 0)
    BY <2>1 DEF Unfolded
  <2> QED
    BY <2>2
<1>3. ASSUME NEW n \in Nat, n \in Solved PROVE n + 1 \in Solved
  <2>1. PICK g : SolvesTo(g, n)
    BY <1>3
  <2> DEFINE h == [R \in UpTo(n + 1) |-> Unfolded(f, g, R)]
  <2>2. UpTo(n) \subseteq UpTo(n + 1)
    BY <1>1
  <2>3. \A R \in UpTo(n) : h[R] = g[R]
    BY <2>1, <2>2
  <2>4. ASSUME NEW R \in UpTo(n + 1), R # {} PROVE R \ {First(R)} \in UpTo(n)
    <3>1. Cardinality(R \ {First(R)}) = Cardinality(R) - 1
      BY <1>1, <2>4, FirstIsMember, FS_RemoveElement
    <3> QED
      BY <1>1, <1>3, <3>1
  <2>5. \A R \in UpTo(n + 1) : Unfolded(f, g, R) = Unfolded(f, h, R)
    <3> HIDE DEF h, UpTo
    <3> QED
      BY <2>3, <2>4 DEF Unfolded
  <2>6. \E k : SolvesTo(k, n + 1)
    <3>1. SolvesTo(h, n + 1)
      BY <2>5
    <3> HIDE DEF SolvesTo, h
    <3> QED
      BY <3>1
  <2> HIDE DEF SolvesTo
  <2> QED
    BY <1>3, <2>6
<1>4. Nat \subseteq Solved
  <2> HIDE DEF Solved
  <2> QED
    BY <1>2, <1>3, CountingUp
<1>5. Cardinality(S) \in Nat /\ UpTo(Cardinality(S)) = SUBSET S
  BY <1>1, FS_Subset
<1> QED
  BY <1>4, <1>5 DEF Solves

LEMMA SumIsSolution ==
    ASSUME NEW S, IsFiniteSet(S), NEW f
    PROVE  \E g : Solves(f, g, S) /\ SumFunctionOnSet(f, S) = g[S]
<1> DEFINE iter == CHOOSE g : g = [R \in SUBSET S |-> Unfolded(f, g, R)]
<1>1. iter = [R \in SUBSET S |-> Unfolded(f, iter, R)]
  BY SolutionExists DEF Solves
<1>2. SumFunctionOnSet(f, S) = iter[S]
  BY DEF SumFunctionOnSet, FoldFunctionOnSet, MapThenFoldSet, Unfolded, First
<1> QED
  BY <1>1, <1>2 DEF Solves

LEMMA SumOfNothing == ASSUME NEW f PROVE SumFunctionOnSet(f, {}) = 0
<1>1. PICK g : Solves(f, g, {}) /\ SumFunctionOnSet(f, {}) = g[{}]
  BY FS_EmptySet, SumIsSolution
<1>2. g[{}] = Unfolded(f, g, {})
  BY <1>1 DEF Solves
<1> QED
  BY <1>1, <1>2 DEF Unfolded

LEMMA SumTakesFirst ==
    ASSUME NEW S, IsFiniteSet(S), S # {}, NEW f
    PROVE  SumFunctionOnSet(f, S) = f[First(S)] + SumFunctionOnSet(f, S \ {First(S)})
<1>1. SUFFICES ASSUME NEW R, R = S \ {First(S)}
               PROVE  SumFunctionOnSet(f, S) = f[First(S)] + SumFunctionOnSet(f, R)
  OBVIOUS
<1>2. IsFiniteSet(R) /\ R \in SUBSET S
  BY <1>1, FS_Subset
<1>3. PICK g : Solves(f, g, S) /\ SumFunctionOnSet(f, S) = g[S]
  BY SumIsSolution
<1>4. PICK h : Solves(f, h, R) /\ SumFunctionOnSet(f, R) = h[R]
  BY <1>2, SumIsSolution
<1>5. g[R] = h[R]
  BY <1>2, <1>3, <1>4, SolutionsAgree
<1>6. g[S] = Unfolded(f, g, S)
  BY <1>3 DEF Solves
<1> QED
  BY <1>1, <1>3, <1>4, <1>5, <1>6 DEF Unfolded

\* Sums of integers are integers, and any element may be taken out first.
LEMMA SumIsInteger ==
    ASSUME NEW S, IsFiniteSet(S), NEW f, \A x \in S : f[x] \in Int
    PROVE  SumFunctionOnSet(f, S) \in Int
<1> DEFINE Typed == {R \in SUBSET S : SumFunctionOnSet(f, R) \in Int}
<1>1. ASSUME NEW R \in SUBSET S, \A x \in R : R \ {x} \in Typed PROVE R \in Typed
  <2>1. CASE R = {}
    BY <2>1, SumOfNothing
  <2>2. CASE R # {}
    <3>1. SumFunctionOnSet(f, R) = f[First(R)] + SumFunctionOnSet(f, R \ {First(R)})
      BY <2>2, FS_Subset, SumTakesFirst
    <3>2. First(R) \in R
      BY <2>2, FirstIsMember
    <3> QED
      BY <1>1, <3>1, <3>2
  <2> QED
    BY <2>1, <2>2
<1>2. SUBSET S \subseteq Typed
  <2> HIDE DEF Typed
  <2> QED
    BY <1>1, BySize
<1> QED
  BY <1>2

LEMMA SumTakesAny ==
    ASSUME NEW S, IsFiniteSet(S), NEW f, \A x \in S : f[x] \in Int, NEW e \in S
    PROVE  SumFunctionOnSet(f, S) = f[e] + SumFunctionOnSet(f, S \ {e})
<1> DEFINE Taken ==
  {R \in SUBSET S : \A x \in R : SumFunctionOnSet(f, R) = f[x] + SumFunctionOnSet(f, R \ {x})}
<1>1. \A R \in SUBSET S : IsFiniteSet(R) /\ SumFunctionOnSet(f, R) \in Int
  BY FS_Subset, SumIsInteger
<1>2. ASSUME NEW R \in SUBSET S, \A x \in R : R \ {x} \in Taken PROVE R \in Taken
  <2>1. SUFFICES ASSUME NEW x \in R PROVE SumFunctionOnSet(f, R) = f[x] + SumFunctionOnSet(f, R \ {x})
    OBVIOUS
  <2>2. PICK c \in R : SumFunctionOnSet(f, R) = f[c] + SumFunctionOnSet(f, R \ {c})
    BY <1>1, FirstIsMember, SumTakesFirst
  <2>3. CASE x = c
    BY <2>2, <2>3
  <2>4. CASE x # c
    <3>1. SUFFICES ASSUME NEW Q, Q = (R \ {c}) \ {x}
                   PROVE  SumFunctionOnSet(f, R) = f[x] + SumFunctionOnSet(f, R \ {x})
      OBVIOUS
    <3>2. Q = (R \ {x}) \ {c} /\ Q \in SUBSET S
      BY <3>1
    <3>3. SumFunctionOnSet(f, R \ {c}) = f[x] + SumFunctionOnSet(f, Q)
      BY <1>2, <2>4, <3>1
    <3>4. SumFunctionOnSet(f, R \ {x}) = f[c] + SumFunctionOnSet(f, Q)
      BY <1>2, <2>4, <3>2
    <3>5. SumFunctionOnSet(f, Q) \in Int /\ f[x] \in Int /\ f[c] \in Int
      BY <1>1, <3>2
    <3> QED
      BY <2>2, <3>3, <3>4, <3>5
  <2> QED
    BY <2>3, <2>4
<1>3. SUBSET S \subseteq Taken
  <2> HIDE DEF Taken
  <2> QED
    BY <1>2, BySize
<1> QED
  BY <1>3

LEMMA SumSame ==
    ASSUME NEW S, IsFiniteSet(S), NEW f, NEW g, \A x \in S : f[x] = g[x]
    PROVE  SumFunctionOnSet(f, S) = SumFunctionOnSet(g, S)
<1> DEFINE Same == {R \in SUBSET S : SumFunctionOnSet(f, R) = SumFunctionOnSet(g, R)}
<1>1. ASSUME NEW R \in SUBSET S, \A x \in R : R \ {x} \in Same PROVE R \in Same
  <2>1. CASE R = {}
    BY <2>1, SumOfNothing
  <2>2. CASE R # {}
    <3>1. /\ SumFunctionOnSet(f, R) = f[First(R)] + SumFunctionOnSet(f, R \ {First(R)})
          /\ SumFunctionOnSet(g, R) = g[First(R)] + SumFunctionOnSet(g, R \ {First(R)})
      BY <2>2, FS_Subset, SumTakesFirst
    <3>2. First(R) \in R
      BY <2>2, FirstIsMember
    <3> QED
      BY <1>1, <3>1, <3>2
  <2> QED
    BY <2>1, <2>2
<1>2. SUBSET S \subseteq Same
  <2> HIDE DEF Same
  <2> QED
    BY <1>1, BySize
<1> QED
  BY <1>2

LEMMA SumChangesOne ==
    ASSUME NEW S, IsFiniteSet(S), NEW f, NEW g, NEW e \in S,
           \A x \in S : f[x] \in Int /\ g[x] \in Int,
           \A x \in S \ {e} : f[x] = g[x]
    PROVE  SumFunctionOnSet(g, S) = SumFunctionOnSet(f, S) - f[e] + g[e]
<1>1. IsFiniteSet(S \ {e})
  BY FS_Subset
<1>2. SumFunctionOnSet(f, S \ {e}) = SumFunctionOnSet(g, S \ {e}) /\ SumFunctionOnSet(g, S \ {e}) \in Int
  BY <1>1, SumSame, SumIsInteger
<1>3. /\ SumFunctionOnSet(f, S) = f[e] + SumFunctionOnSet(f, S \ {e})
      /\ SumFunctionOnSet(g, S) = g[e] + SumFunctionOnSet(g, S \ {e})
  BY SumTakesAny
<1> QED
  BY <1>2, <1>3

LEMMA SumOfNaturals ==
    ASSUME NEW S, IsFiniteSet(S), NEW f, \A x \in S : f[x] \in Nat
    PROVE  SumFunctionOnSet(f, S) \in Nat /\ \A e \in S : f[e] <= SumFunctionOnSet(f, S)
<1> DEFINE Natural == {R \in SUBSET S : SumFunctionOnSet(f, R) \in Nat}
<1>1. ASSUME NEW R \in SUBSET S, \A x \in R : R \ {x} \in Natural PROVE R \in Natural
  <2>1. CASE R = {}
    BY <2>1, SumOfNothing
  <2>2. CASE R # {}
    <3>1. SumFunctionOnSet(f, R) = f[First(R)] + SumFunctionOnSet(f, R \ {First(R)})
      BY <2>2, FS_Subset, SumTakesFirst
    <3>2. First(R) \in R
      BY <2>2, FirstIsMember
    <3> QED
      BY <1>1, <3>1, <3>2
  <2> QED
    BY <2>1, <2>2
<1>2. SUBSET S \subseteq Natural
  <2> HIDE DEF Natural
  <2> QED
    BY <1>1, BySize
<1>3. ASSUME NEW e \in S PROVE f[e] <= SumFunctionOnSet(f, S)
  <2>1. SumFunctionOnSet(f, S) = f[e] + SumFunctionOnSet(f, S \ {e})
    BY SumTakesAny
  <2>2. S \ {e} \in Natural
    BY <1>2
  <2> QED
    BY <2>1, <2>2
<1> QED
  BY <1>2, <1>3

-----------------------------------------------------------------------------
(* FinalOrdersAgree                                                           *)

OrderFields == {"side", "amount", "filled", "status"}

BotFields ==
    {"pc", "phase", "flow", "todo", "back", "ord", "seen", "why", "inCancel", "asked",
     "ret", "goal", "amt", "sake"}

\* The records have the fields that the steps assign to.
Shape ==
    /\ DOMAIN ex = Orders /\ \A o \in Orders : DOMAIN ex[o] = OrderFields
    /\ DOMAIN db = Orders
    /\ DOMAIN bot = BotFields /\ DOMAIN bot.seen = Orders

\* What the bot holds as final is what the exchange has.
SeenAgrees == \A o \in Orders : IsFinal(bot.seen[o]) => bot.seen[o] = View(o)

\* The inductive invariant.
Agreement == Shape /\ FinalOrdersAgree /\ SeenAgrees

\* A copy of no order at all.
Blank == [o \in Orders |-> Nothing]

\* A bot record that a step makes from b without looking at the exchange.
Remade(b, c) == DOMAIN c = BotFields /\ (c.seen = b.seen \/ c.seen = Blank)

\* A step that changes neither the exchange nor what is held of its orders, other than
\* to drop it, preserves the invariant.
LEMMA QuietStep ==
    ASSUME Agreement, UNCHANGED ex, UNCHANGED db \/ db' = Blank, Remade(bot, bot')
    PROVE  Agreement'
BY DEF Agreement, Shape, FinalOrdersAgree, SeenAgrees, Remade, Blank, Nothing, IsFinal,
       View, ViewIn

\* The same for a step whose new bot record is built by EXCEPT and leaves seen alone.
LEMMA RemadeByHelpers ==
    ASSUME NEW STATE b, DOMAIN b = BotFields
    PROVE  /\ Remade(b, NextOrder(b))
           /\ Remade(b, Resume(b))
           /\ \A flow, S : Remade(b, Loop(b, flow, S))
           /\ \A phase : Remade(b, Idle(phase))
           /\ Remade(b, Down) /\ Remade(b, Stopped)
<1>1. Remade(b, NextOrder(b))
  BY DEF NextOrder, Remade, Blank, BotFields
<1>2. Remade(b, Resume(b))
  BY DEF NextOrder, Resume, Remade, Blank, BotFields
<1>3. \A flow, S : Remade(b, Loop(b, flow, S))
  BY DEF NextOrder, Loop, Remade, Blank, BotFields
<1>4. \A phase : Remade(b, Idle(phase))
  BY DEF Idle, Remade, Blank, BotFields
<1>5. Remade(b, Down) /\ Remade(b, Stopped)
  BY DEF Idle, Down, Stopped, Remade, Blank, BotFields
<1> QED
  BY <1>1, <1>2, <1>3, <1>4, <1>5

LEMMA InitAgrees == Init => Agreement
BY DEF Init, Agreement, Shape, FinalOrdersAgree, SeenAgrees, Idle, Nothing, IsFinal,
       OrderFields, BotFields

-----------------------------------------------------------------------------
(* Steps of the exchange *)

\* A step that changes one open order on the exchange and nothing that is held of it.
LEMMA OpenOrderChanges ==
    ASSUME Agreement, NEW o \in Orders, NEW STATE r, DOMAIN r = OrderFields,
           ex' = [ex EXCEPT ![o] = r], ex[o].status = "open", UNCHANGED <<db, bot>>
    PROVE  Agreement'
<1>1. /\ DOMAIN ex' = Orders
      /\ \A p \in Orders : ex'[p] = IF p = o THEN r ELSE ex[p]
  BY DEF Agreement, Shape
<1>2. Shape'
  BY <1>1 DEF Agreement, Shape
<1>3. \A v : IsFinal(v) => v # View(o)
  BY DEF IsFinal, View, ViewIn
<1>4. \A p \in Orders : p # o => View(p)' = View(p)
  BY <1>1 DEF View, ViewIn
<1>5. FinalOrdersAgree'
  BY <1>3, <1>4 DEF Agreement, FinalOrdersAgree, IsFinal
<1>6. SeenAgrees'
  BY <1>3, <1>4 DEF Agreement, SeenAgrees, IsFinal
<1> QED
  BY <1>2, <1>5, <1>6 DEF Agreement

\* A final order does not change any more: a fill or a cancellation on the exchange
\* touches only orders that are held as open.
LEMMA ExchangeAgrees == ASSUME Agreement, Exchange PROVE Agreement'
<1>1. ASSUME NEW o \in Orders, Fill(o) PROVE Agreement'
  <2> DEFINE r == [ex[o] EXCEPT !.filled = @ + 1,
                                !.status = IF ex[o].filled + 1 = ex[o].amount
                                           THEN "closed" ELSE "open"]
  <2>1. DOMAIN r = OrderFields /\ ex' = [ex EXCEPT ![o] = r] /\ ex[o].status = "open"
    BY <1>1 DEF Fill, Live, Agreement, Shape, OrderFields
  <2>2. UNCHANGED <<db, bot>>
    BY <1>1 DEF Fill
  <2> QED
    BY <2>1, <2>2, OpenOrderChanges
<1>2. ASSUME NEW o \in Orders, CanceledOnExchange(o) PROVE Agreement'
  <2> DEFINE r == [ex[o] EXCEPT !.status = "canceled"]
  <2>1. DOMAIN r = OrderFields /\ ex' = [ex EXCEPT ![o] = r] /\ ex[o].status = "open"
    BY <1>2 DEF CanceledOnExchange, Live, Agreement, Shape, OrderFields
  <2>2. UNCHANGED <<db, bot>>
    BY <1>2 DEF CanceledOnExchange
  <2> QED
    BY <2>1, <2>2, OpenOrderChanges
<1> QED
  BY <1>1, <1>2 DEF Exchange

-----------------------------------------------------------------------------
(* Steps of the bot *)

\* update_trade_state writes the copy in hand to the database.
LEMMA UpdateAgrees == ASSUME Agreement, UpdateStep PROVE Agreement'
<1>1. CASE UpdateOrder
  BY <1>1 DEF Agreement, Shape, FinalOrdersAgree, SeenAgrees, UpdateOrder, IsFinal, View,
              ViewIn, BotFields
<1>2. CASE UpdateTradeRow
  <2>1. Remade(bot, bot') /\ UNCHANGED <<ex, db>>
    BY <1>2 DEF UpdateTradeRow, Remade, Agreement, Shape, BotFields
  <2> QED
    BY <2>1, QuietStep
<1>3. CASE Updated
  <2>1. Remade(bot, NextOrder(bot)) /\ Remade(bot, Idle("manage"))
    BY RemadeByHelpers DEF Agreement, Shape
  <2>2. Remade(bot, bot') /\ UNCHANGED <<ex, db>>
    BY <1>3, <2>1 DEF Updated, Remade, Agreement, Shape, BotFields
  <2> QED
    BY <2>2, QuietStep
<1> QED
  BY <1>1, <1>2, <1>3 DEF UpdateStep

\* The answer to a cancel request is the order as it is after the request; a request
\* touches only an order that is held as open.
LEMMA CancelAgrees == ASSUME Agreement, CancelStep PROVE Agreement'
<1>1. CASE CancelKeep
  <2>1. Remade(bot, bot') /\ UNCHANGED <<ex, db>>
    BY <1>1 DEF CancelKeep, Remade, Agreement, Shape, BotFields
  <2> QED
    BY <2>1, QuietStep
<1>2. CASE CancelOnExchange
  BY <1>2 DEF Agreement, Shape, FinalOrdersAgree, SeenAgrees, CancelOnExchange,
              RequestCancel, CancelAnswer, Live, IsFinal, View, ViewIn, OrderFields, BotFields
<1>7. CASE CancelRaises
  <2>1. Remade(bot, Down) /\ \A phase : Remade(bot, Idle(phase))
    BY RemadeByHelpers DEF Agreement, Shape
  <2>2. Remade(bot, [bot EXCEPT !.pc = "placed", !.ret = FALSE])
    BY DEF Remade, Agreement, Shape, BotFields
  <2>3. Remade(bot, bot') /\ UNCHANGED db
    BY <1>7, <2>1, <2>2 DEF CancelRaises
  <2>4. CASE UNCHANGED ex
    BY <2>3, <2>4, QuietStep
  <2>5. CASE bot.ord \in Live /\ ex' = [ex EXCEPT ![bot.ord].status = "canceled"]
    <3>1. DOMAIN ex' = Orders /\ \A o \in Orders : DOMAIN ex'[o] = OrderFields
      BY <2>5 DEF Agreement, Shape, OrderFields
    <3>2. \A o \in Orders : IsFinal(View(o)) => View(o)' = View(o)
      BY <2>5 DEF Agreement, Shape, Live, IsFinal, View, ViewIn
    <3>3. Shape'
      BY <2>3, <3>1 DEF Agreement, Shape, Remade, Blank
    <3>4. FinalOrdersAgree'
      BY <2>3, <3>2 DEF Agreement, FinalOrdersAgree
    <3>5. SeenAgrees'
      BY <2>3, <3>2 DEF Agreement, SeenAgrees, Remade, Blank, Nothing, IsFinal
    <3> QED
      BY <3>3, <3>4, <3>5 DEF Agreement
  <2> QED
    BY <1>7, <2>4, <2>5 DEF CancelRaises, RequestCancel
<1>3. CASE CancelKnown
  <2>1. Remade(bot, bot') /\ UNCHANGED <<ex, db>>
    BY <1>3 DEF CancelKnown, Remade, Agreement, Shape, BotFields
  <2> QED
    BY <2>1, QuietStep
<1>4. CASE CancelEnterResult
  <2>1. Remade(bot, bot') /\ UNCHANGED ex /\ (UNCHANGED db \/ db' = Blank)
    BY <1>4 DEF CancelEnterResult, Delete, Blank, Remade, Agreement, Shape, BotFields
  <2> QED
    BY <2>1, QuietStep
<1>5. CASE CancelExitResult
  <2>1. Remade(bot, bot') /\ UNCHANGED <<ex, db>>
    BY <1>5 DEF CancelExitResult, Remade, Agreement, Shape, BotFields
  <2> QED
    BY <2>1, QuietStep
<1>6. CASE Canceled
  <2>1. Remade(bot, NextOrder(bot))
    BY RemadeByHelpers DEF Agreement, Shape
  <2>2. Remade(bot, bot')
    <3>1. CASE Emergency
      BY <1>6, <3>1 DEF Canceled, Emergency, IsReplacing, Place, Remade, Agreement, Shape,
                       BotFields
    <3>2. CASE ~Emergency /\ bot.why \in {"replace", "user"} /\ ~bot.ret
      BY <1>6, <2>1, <3>2 DEF Canceled
    <3>3. CASE ~Emergency /\ bot.why = "replace" /\ bot.ret
      BY <1>6, <3>3 DEF Canceled, Place, Remade, Agreement, Shape, BotFields
    <3>4. CASE ~Emergency /\ ~(bot.why = "replace" /\ bot.ret)
               /\ ~(bot.why \in {"replace", "user"} /\ ~bot.ret)
      <4>1. \E goal : bot' = [NextOrder(bot) EXCEPT !.goal = goal]
        BY <1>6, <3>4 DEF Canceled
      <4> QED
        BY <2>1, <4>1 DEF Remade, BotFields
    <3> QED
      BY <3>1, <3>2, <3>3, <3>4
  <2>3. UNCHANGED ex /\ (UNCHANGED db \/ db' = Blank)
    BY <1>6 DEF Canceled, ReplaceFailed, Delete, Blank
  <2> QED
    BY <2>2, <2>3, QuietStep
<1> QED
  BY <1>1, <1>2, <1>3, <1>4, <1>5, <1>6, <1>7 DEF CancelStep

\* A new order takes a place that is held as empty.
LEMMA PlaceAgrees == ASSUME Agreement, PlaceStep PROVE Agreement'
<1>1. NotPlaced => Remade(bot, bot')
  BY DEF NotPlaced, Remade, Agreement, Shape, BotFields
<1>2. ASSUME PrepareEntry \/ PrepareExit PROVE Remade(bot, bot') /\ UNCHANGED <<ex, db>>
  <2>1. \/ NotPlaced
        \/ \E amt : bot' = [bot EXCEPT !.pc = "create", !.amt = amt]
        \/ \E amt : bot' = [Loop(bot, "similar", OpenOrders) EXCEPT !.amt = amt]
    BY <1>2 DEF PrepareEntry, PrepareExit, ClearTheWay
  <2>2. Remade(bot, Loop(bot, "similar", OpenOrders))
    BY RemadeByHelpers DEF Agreement, Shape
  <2>3. ASSUME NEW amt, bot' = [bot EXCEPT !.pc = "create", !.amt = amt]
        PROVE  Remade(bot, bot')
    BY <2>3 DEF Remade, Agreement, Shape, BotFields
  <2>4. ASSUME NEW amt, bot' = [Loop(bot, "similar", OpenOrders) EXCEPT !.amt = amt]
        PROVE  Remade(bot, bot')
    BY <2>2, <2>4 DEF Remade, BotFields
  <2> QED
    BY <1>1, <1>2, <2>1, <2>3, <2>4 DEF PrepareEntry, PrepareExit
<1>3. CASE PrepareEntry \/ PrepareExit
  BY <1>2, <1>3, QuietStep
<1>5. CASE CreateRejected
  <2>1. Remade(bot, bot') /\ UNCHANGED <<ex, db>>
    BY <1>1, <1>5 DEF CreateRejected
  <2> QED
    BY <2>1, QuietStep
<1>6. CASE CreateOrder
  <2>1. PICK n \in Orders :
          /\ ex[n].status = "none"
          /\ \E r : DOMAIN r = OrderFields /\ ex' = [ex EXCEPT ![n] = r]
          /\ bot' = [bot EXCEPT !.pc = "record", !.flow = "placed",
                                !.ord = n, !.seen[n] = View(n)']
    BY <1>6 DEF CreateOrder, View, OrderFields
  <2>2. UNCHANGED db
    BY <1>6 DEF CreateOrder
  <2>3. /\ DOMAIN ex' = Orders /\ \A o \in Orders : DOMAIN ex'[o] = OrderFields
        /\ \A o \in Orders : o # n => View(o)' = View(o)
    BY <2>1 DEF Agreement, Shape, View, ViewIn
  <2>4. DOMAIN bot' = BotFields /\ bot'.seen = [bot.seen EXCEPT ![n] = View(n)']
    BY <2>1 DEF Agreement, Shape, BotFields
  <2>5. Shape'
    BY <2>2, <2>3, <2>4 DEF Agreement, Shape
  <2>6. \A v : IsFinal(v) => v # View(n)
    BY <2>1 DEF IsFinal, View, ViewIn
  <2>7. FinalOrdersAgree'
    BY <2>2, <2>3, <2>6 DEF Agreement, FinalOrdersAgree, IsFinal
  <2>8. SeenAgrees'
    BY <2>3, <2>4, <2>6 DEF Agreement, Shape, SeenAgrees, IsFinal
  <2> QED
    BY <2>5, <2>7, <2>8 DEF Agreement
<1>7. CASE RecordOrder
  BY <1>7 DEF Agreement, Shape, FinalOrdersAgree, SeenAgrees, RecordOrder, IsFinal, View,
              ViewIn, BotFields
<1>8. CASE Placed
  <2>1. Remade(bot, Resume(bot)) /\ \A phase : Remade(bot, Idle(phase))
    BY RemadeByHelpers DEF Agreement, Shape
  <2>2. ReplaceFailed => UNCHANGED db \/ db' = Blank
    BY DEF ReplaceFailed, Delete, Blank
  <2>3. Remade(bot, bot') /\ UNCHANGED ex /\ (UNCHANGED db \/ db' = Blank)
    BY <1>8, <2>1, <2>2 DEF Placed
  <2> QED
    BY <2>3, QuietStep
<1> QED
  BY <1>3, <1>5, <1>6, <1>7, <1>8 DEF PlaceStep

-----------------------------------------------------------------------------
(* Loops, phases, commands and the rest *)

\* The loops fetch orders as the exchange has them; only an answer "not found" makes
\* the bot invent one.
LEMMA LoopAgrees == ASSUME Agreement, ~OrdersLost, LoopStep PROVE Agreement'
<1>1. /\ Remade(bot, NextOrder(bot)) /\ Remade(bot, Stopped)
      /\ \A phase : Remade(bot, Idle(phase))
  BY RemadeByHelpers DEF Agreement, Shape
<1>2. CASE LoopFetch
  <2>1. PICK o : /\ DOMAIN bot' = BotFields
                 /\ bot'.seen = [bot.seen EXCEPT ![o] = View(o)]
    BY <1>2 DEF LoopFetch, Agreement, Shape, BotFields
  <2>2. UNCHANGED <<ex, db>>
    BY <1>2 DEF LoopFetch
  <2> QED
    BY <2>1, <2>2 DEF Agreement, Shape, FinalOrdersAgree, SeenAgrees, IsFinal, View, ViewIn
<1>3. CASE LoopFetchFails
  <2> DEFINE b == [bot EXCEPT !.todo = @ \ {Min(Left)}]
  <2>1. DOMAIN b = BotFields /\ b.seen = bot.seen
    BY DEF Agreement, Shape, BotFields
  <2>2. Remade(b, NextOrder(b))
    BY <2>1, RemadeByHelpers
  <2>3. bot' = NextOrder(b) \/ bot' = Idle(bot.phase)
    BY <1>3 DEF LoopFetchFails
  <2>4. Remade(bot, bot') /\ UNCHANGED <<ex, db>>
    BY <1>1, <1>3, <2>1, <2>2, <2>3 DEF LoopFetchFails, Remade
  <2> QED
    BY <2>4, QuietStep
<1>4. CASE AssumeCanceled
  BY <1>4 DEF AssumeCanceled
<1>5. CASE RecoverNext
  <2>1. Remade(bot, bot') /\ UNCHANGED <<ex, db>>
    BY <1>5 DEF RecoverNext, Remade, Agreement, Shape, BotFields
  <2> QED
    BY <2>1, QuietStep
<1>6. CASE RecoverEnd
  <2>1. bot' = [Idle("exit") EXCEPT !.pc = "decide"] \/ \E phase : bot' = Idle(phase)
    BY <1>6 DEF RecoverEnd
  <2>2. Remade(bot, bot')
    BY <1>1, <2>1 DEF Remade, BotFields
  <2>3. UNCHANGED ex /\ (UNCHANGED db \/ db' = Blank)
    BY <1>6 DEF RecoverEnd, Delete, Blank
  <2> QED
    BY <2>2, <2>3, QuietStep
<1>7. CASE LoopEnd \/ ForceExitEnd
  <2>1. \/ \E phase : bot' = Idle(phase)
        \/ bot' = Stopped
        \/ bot' = [bot EXCEPT !.pc = "create"]
        \/ bot' = [bot EXCEPT !.pc = "placed", !.ret = FALSE]
        \/ \E amt : bot' = [bot EXCEPT !.pc = "exit", !.amt = amt]
    BY <1>7 DEF LoopEnd, ForceExitEnd
  <2>2. Remade(bot, bot')
    BY <1>1, <2>1 DEF Remade, Agreement, Shape, BotFields
  <2>3. UNCHANGED <<ex, db>>
    BY <1>7 DEF LoopEnd, ForceExitEnd
  <2> QED
    BY <2>2, <2>3, QuietStep
<1> QED
  BY <1>2, <1>3, <1>4, <1>5, <1>6, <1>7 DEF LoopStep

\* handle_onexchange_order fetches all orders at once.
LEMMA RecoverAgrees ==
    ASSUME Agreement, NEW STATE b, DOMAIN b = BotFields, Recover(b), UNCHANGED <<ex, db>>
    PROVE  Agreement'
<1>1. \A flow, S : DOMAIN Loop(b, flow, S) = BotFields
  BY RemadeByHelpers DEF Remade
<1>2. DOMAIN bot' = BotFields /\ bot'.seen = [o \in Orders |-> View(o)]
  BY <1>1 DEF Recover, BotFields
<1> QED
  BY <1>2 DEF Agreement, Shape, FinalOrdersAgree, SeenAgrees, IsFinal, View, ViewIn

\* The phases hold no order yet but the one whose fee is asked for.
LEMMA PhaseAgrees == ASSUME Agreement, PhaseStep PROVE Agreement'
<1>1. /\ \A flow, S : Remade(bot, Loop(bot, flow, S))
      /\ \A phase : Remade(bot, Idle(phase))
  BY RemadeByHelpers DEF Agreement, Shape
<1>2. ASSUME \E phase : bot' = Idle(Follow(phase)), UNCHANGED <<ex, db>> PROVE Agreement'
  BY <1>1, <1>2, QuietStep
<1>3. CASE FeesPhase
  <2>1. CASE Skip("fees")
    BY <1>2, <2>1 DEF Skip
  <2>2. ASSUME NEW o \in FeeOrder,
               bot' = [bot EXCEPT !.pc = "update_order", !.flow = "fees",
                                  !.ord = o, !.seen[o] = View(o)],
               UNCHANGED <<ex, db>>
        PROVE  Agreement'
    <3>1. DOMAIN bot' = BotFields /\ bot'.seen = [bot.seen EXCEPT ![o] = View(o)]
      BY <2>2 DEF Agreement, Shape, BotFields
    <3> QED
      BY <2>2, <3>1 DEF Agreement, Shape, FinalOrdersAgree, SeenAgrees, IsFinal, View, ViewIn
  <2> QED
    BY <1>3, <2>1, <2>2 DEF FeesPhase
<1>4. CASE ManagePhase
  <2>1. CASE Skip("manage")
    BY <1>2, <2>1 DEF Skip
  <2>2. CASE bot' = Loop(bot, "manage", OpenOrders) /\ UNCHANGED <<ex, db>>
    BY <1>1, <2>2, QuietStep
  <2> QED
    BY <1>4, <2>1, <2>2 DEF ManagePhase
<1>5. CASE ExitPhase
  <2>1. CASE Skip("exit")
    BY <1>2, <2>1 DEF Skip
  <2>2. CASE bot' = [bot EXCEPT !.pc = "decide"] /\ UNCHANGED <<ex, db>>
    <3>1. Remade(bot, bot')
      BY <2>2 DEF Remade, Agreement, Shape, BotFields
    <3> QED
      BY <2>2, <3>1, QuietStep
  <2>3. CASE Recover([bot EXCEPT !.sake = "exit"]) /\ UNCHANGED <<ex, db>>
    <3> DEFINE b == [bot EXCEPT !.sake = "exit"]
    <3>1. DOMAIN b = BotFields
      BY DEF Agreement, Shape, BotFields
    <3> QED
      BY <2>3, <3>1, RecoverAgrees
  <2> QED
    BY <1>5, <2>1, <2>2, <2>3 DEF ExitPhase
<1>6. CASE DecideExit
  <2>1. Remade(bot, [bot EXCEPT !.pc = "exit", !.goal = "exit", !.sake = "exit"])
    BY DEF Remade, Agreement, Shape, BotFields
  <2>2. Remade(bot, bot') /\ UNCHANGED <<ex, db>>
    BY <1>1, <1>6, <2>1 DEF DecideExit
  <2> QED
    BY <2>2, QuietStep
<1>7. CASE AdjustPhase
  <2>1. CASE Skip("adjust")
    BY <1>2, <2>1 DEF Skip
  <2>2. ASSUME NEW goal, NEW amt,
               bot' = [bot EXCEPT !.pc = goal, !.goal = goal, !.amt = amt, !.sake = "adjust"],
               UNCHANGED <<ex, db>>
        PROVE  Agreement'
    <3>1. Remade(bot, bot')
      BY <2>2 DEF Remade, Agreement, Shape, BotFields
    <3> QED
      BY <2>2, <3>1, QuietStep
  <2> QED
    BY <1>7, <2>1, <2>2 DEF AdjustPhase
<1>8. CASE EnterPhase
  <2>1. CASE Skip("enter")
    BY <1>2, <2>1 DEF Skip
  <2>2. CASE /\ bot' = [bot EXCEPT !.pc = "create", !.goal = "entry",
                                   !.amt = EntryAmount, !.sake = "enter"]
             /\ UNCHANGED <<ex, db>>
    <3>1. Remade(bot, bot')
      BY <2>2 DEF Remade, Agreement, Shape, BotFields
    <3> QED
      BY <2>2, <3>1, QuietStep
  <2> QED
    BY <1>8, <2>1, <2>2 DEF EnterPhase
<1> QED
  BY <1>3, <1>4, <1>5, <1>6, <1>7, <1>8 DEF PhaseStep

\* delete cancels some live orders and drops everything that is held of the trade.
LEMMA CommandAgrees == ASSUME Agreement, RPC PROVE Agreement'
<1>1. \A flow, S : Remade(bot, Loop(bot, flow, S))
  BY RemadeByHelpers DEF Agreement, Shape
<1>2. CASE ForceExit
  <2>1. Remade(bot, bot') /\ UNCHANGED <<ex, db>>
    BY <1>1, <1>2 DEF ForceExit, Remade, BotFields
  <2> QED
    BY <2>1, QuietStep
<1>3. CASE CancelOpenOrder
  <2>1. Remade(bot, bot') /\ UNCHANGED <<ex, db>>
    BY <1>1, <1>3 DEF CancelOpenOrder
  <2> QED
    BY <2>1, QuietStep
<1>4. CASE DeleteTrade
  <2>1. PICK ok \in SUBSET (OpenOrders \cap Live) :
          ex' = [o \in Orders |->
                   IF o \in ok THEN [ex[o] EXCEPT !.status = "canceled"] ELSE ex[o]]
    BY <1>4 DEF DeleteTrade
  <2>2. db' = Blank /\ UNCHANGED bot
    BY <1>4 DEF DeleteTrade, Delete, Blank
  <2>3. Shape'
    BY <2>1, <2>2 DEF Agreement, Shape, Blank, OrderFields
  <2>4. FinalOrdersAgree'
    BY <2>2 DEF FinalOrdersAgree, Blank, Nothing, IsFinal
  <2>5. \A o \in Orders : IsFinal(View(o)) => View(o)' = View(o)
    BY <2>1 DEF Live, IsFinal, View, ViewIn
  <2>6. SeenAgrees'
    BY <2>2, <2>5 DEF Agreement, SeenAgrees
  <2> QED
    BY <2>3, <2>4, <2>6 DEF Agreement
<1>5. CASE ReloadTrade
  <2>1. Recover(bot) /\ UNCHANGED <<ex, db>> /\ DOMAIN bot = BotFields
    BY <1>5 DEF ReloadTrade, Agreement, Shape
  <2> QED
    BY <2>1, RecoverAgrees
<1> QED
  BY <1>2, <1>3, <1>4, <1>5 DEF RPC

\* A crash loses what the bot held; stop and start begin with nothing in hand.
LEMMA LifecycleAgrees == ASSUME Agreement, Lifecycle PROVE Agreement'
<1>1. /\ \A flow, S : Remade(bot, Loop(bot, flow, S))
      /\ Remade(bot, Down) /\ Remade(bot, Stopped)
  BY RemadeByHelpers DEF Agreement, Shape
<1>2. CASE Stop \/ StoppedCancelAll \/ Crash
  <2>1. Remade(bot, bot') /\ UNCHANGED <<ex, db>>
    BY <1>1, <1>2 DEF Stop, StoppedCancelAll, Crash
  <2> QED
    BY <2>1, QuietStep
<1>3. CASE Startup
  <2>1. DOMAIN Idle("fees") = BotFields /\ Idle("fees").seen = Blank
    BY DEF Idle, Blank, BotFields
  <2>2. Remade(Idle("fees"), Loop(Idle("fees"), "startup", OpenOrders))
    BY <2>1, RemadeByHelpers
  <2>3. Remade(bot, bot') /\ UNCHANGED <<ex, db>>
    BY <1>3, <2>1, <2>2 DEF Startup, Remade
  <2> QED
    BY <2>3, QuietStep
<1> QED
  BY <1>2, <1>3 DEF Lifecycle

-----------------------------------------------------------------------------
(* The theorem *)

LEMMA NextAgrees == ASSUME Agreement, ~OrdersLost, [Next]_vars PROVE Agreement'
<1>1. CASE UNCHANGED vars
  <2>1. UNCHANGED <<ex, db, bot>>
    BY <1>1 DEF vars
  <2> QED
    BY <2>1 DEF Agreement, Shape, FinalOrdersAgree, SeenAgrees, View, ViewIn
<1> QED
  BY <1>1, ExchangeAgrees, UpdateAgrees, CancelAgrees, PlaceAgrees, LoopAgrees, PhaseAgrees,
     CommandAgrees, LifecycleAgrees DEF Next, Bot

\* As long as the exchange finds the orders it holds, an order that the database holds
\* as no longer open is final on the exchange with the same filled amount: through
\* handle_cancel_enter, handle_cancel_exit, update_trade_state, the recovery of orders,
\* the commands and crashes, for any number of orders and any amounts.
THEOREM FinalOrdersAlwaysAgree == ASSUME ~OrdersLost PROVE Spec => []FinalOrdersAgree
<1>1. Init => Agreement
  BY InitAgrees
<1>2. Agreement /\ [Next]_vars => Agreement'
  BY NextAgrees
<1>3. Agreement => FinalOrdersAgree
  BY DEF Agreement
<1> QED
  BY <1>1, <1>2, <1>3, PTL DEF Spec

-----------------------------------------------------------------------------
(* FillsNeverForgotten, also for an exchange that loses orders.  The database *)
(* and the copies in hand are behind the exchange, whose fills only grow; an  *)
(* order that may still be written to the database is in hand with at least   *)
(* the fills recorded of it.  Loops interrupt each other, so this has to be   *)
(* said of the place in the code, not of the copies: after an interruption the *)
(* loop goes on with no copy at all.                                          *)

\* The places in the code where the order in hand may still be written.
Writing == {"update_order", "update_trade", "updated", "cancel", "cancel_result", "record"}

RecoverPlaces == {"loop", "update_order", "update_trade", "updated"}

\* The orders whose copy may still be written.
HeldBy(b) ==
    IF b.flow = "recover" THEN Orders ELSE IF b.pc \in Writing THEN {b.ord} ELSE {}

\* handle_onexchange_order cancels nothing, so nothing interrupts it.
Control(b) ==
    /\ DOMAIN b = BotFields
    /\ b.back.flow # "recover"
    /\ b.flow = "recover" => b.pc \in RecoverPlaces /\ ~b.inCancel

ExchangeTyped ==
    /\ DOMAIN ex = Orders
    /\ \A o \in Orders :
         /\ DOMAIN ex[o] = OrderFields
         /\ ex[o].filled \in Nat
         /\ ex[o].status = "none" => ex[o].filled = 0

RecordsBehind ==
    /\ DOMAIN db = Orders
    /\ \A o \in Orders : db[o].filled \in Nat /\ db[o].filled <= ex[o].filled

SeenBehind ==
    /\ DOMAIN bot.seen = Orders
    /\ \A o \in Orders : bot.seen[o].filled \in Nat /\ bot.seen[o].filled <= ex[o].filled

SeenFresh == \A o \in HeldBy(bot) \cap Orders : db[o].filled <= bot.seen[o].filled

\* The inductive invariant.
Fills == ExchangeTyped /\ RecordsBehind /\ SeenBehind /\ SeenFresh /\ Control(bot)

\* A step of the exchange or of a cancel request: no order loses fills.
Grows ==
    /\ ExchangeTyped'
    /\ \A o \in Orders : ex[o].filled <= ex'[o].filled

\* A step that writes nothing to the orders table, or removes the trade from it.
Kept == UNCHANGED db \/ Delete

\* The bot goes from b to c without looking at the exchange.
Quiet(b, c) ==
    /\ Control(c)
    /\ \/ c.seen = b.seen /\ HeldBy(c) \subseteq HeldBy(b)
       \/ c.seen = Blank /\ HeldBy(c) = {}

LEMMA KeptKeeps == ASSUME Fills, Kept PROVE KeepsFills
<1>1. CASE UNCHANGED db
  BY <1>1 DEF Fills, RecordsBehind, KeepsFills
<1>2. CASE Delete
  BY <1>2 DEF Delete, NoTrade, KeepsFills
<1> QED
  BY <1>1, <1>2 DEF Kept

LEMMA Unmoved == ASSUME Fills, UNCHANGED ex PROVE Grows
BY DEF Fills, ExchangeTyped, Grows

\* A step in which the bot looks at no order.
LEMMA QuietFills == ASSUME Fills, Grows, Kept, Quiet(bot, bot') PROVE Fills' /\ KeepsFills
<1>1. RecordsBehind'
  <2>1. CASE UNCHANGED db
    BY <2>1 DEF Fills, RecordsBehind, ExchangeTyped, Grows
  <2>2. CASE Delete
    BY <2>2 DEF Delete, Nothing, RecordsBehind, Grows, ExchangeTyped
  <2> QED
    BY <2>1, <2>2 DEF Kept
<1>2. \A o \in Orders : db'[o].filled \in Nat /\ (db'[o].filled = db[o].filled \/ db'[o].filled = 0)
  BY <1>1 DEF Kept, Delete, Nothing, RecordsBehind
<1>3. CASE bot'.seen = bot.seen /\ HeldBy(bot') \subseteq HeldBy(bot)
  <2>1. SeenBehind'
    BY <1>3 DEF Fills, SeenBehind, Grows, ExchangeTyped
  <2>2. SeenFresh'
    BY <1>2, <1>3 DEF Fills, SeenBehind, SeenFresh, RecordsBehind
  <2> QED
    BY <1>1, <2>1, <2>2, KeptKeeps DEF Fills, Grows, Quiet
<1>4. CASE bot'.seen = Blank /\ HeldBy(bot') = {}
  <2>1. SeenBehind'
    BY <1>4 DEF SeenBehind, Blank, Nothing, Grows, ExchangeTyped
  <2>2. SeenFresh'
    BY <1>4 DEF SeenFresh
  <2> QED
    BY <1>1, <2>1, <2>2, KeptKeeps DEF Fills, Grows, Quiet
<1> QED
  BY <1>3, <1>4 DEF Quiet

\* A step in which the bot takes one order in hand, no older than what is recorded.
LEMMA FetchFills ==
    ASSUME Fills, Grows, UNCHANGED db, Control(bot'), NEW o, NEW STATE v,
           bot'.seen = [bot.seen EXCEPT ![o] = v], HeldBy(bot') \subseteq {o},
           o \in Orders => /\ v.filled \in Nat
                           /\ db[o].filled <= v.filled /\ v.filled <= ex'[o].filled
    PROVE  Fills' /\ KeepsFills
<1>1. RecordsBehind'
  BY DEF Fills, RecordsBehind, ExchangeTyped, Grows
<1>2. SeenBehind'
  BY DEF Fills, SeenBehind, ExchangeTyped, Grows
<1>3. SeenFresh'
  BY DEF Fills, SeenBehind, SeenFresh
<1> QED
  BY <1>1, <1>2, <1>3, KeptKeeps DEF Fills, Grows, Kept

LEMMA QuietHelpers ==
    ASSUME NEW STATE b, Control(b)
    PROVE  /\ Quiet(b, NextOrder(b))
           /\ Quiet(b, Resume(b))
           /\ \A flow, S : flow # "recover" => Quiet(b, Loop(b, flow, S))
           /\ \A phase : Quiet(b, Idle(phase))
           /\ Quiet(b, Down) /\ Quiet(b, Stopped)
<1>1. Quiet(b, NextOrder(b))
  BY DEF NextOrder, Quiet, Control, HeldBy, Writing, RecoverPlaces, Blank, BotFields
<1>2. Quiet(b, Resume(b))
  BY DEF NextOrder, Resume, NoLoop, Quiet, Control, HeldBy, Writing, RecoverPlaces, Blank, BotFields
<1>3. ASSUME NEW flow, NEW S, flow # "recover" PROVE Quiet(b, Loop(b, flow, S))
  <2> DEFINE c == Loop(b, flow, S)
  <2>1. /\ DOMAIN c = BotFields /\ c.back = b.back /\ c.flow = flow /\ c.pc = "loop"
        /\ c.seen = Blank
    BY <1>3 DEF NextOrder, Loop, Control, Blank, BotFields
  <2> QED
    BY <1>3, <2>1 DEF Quiet, Control, HeldBy, Writing
<1>4. \A phase : Quiet(b, Idle(phase))
  BY DEF Idle, NoLoop, Quiet, Control, HeldBy, Writing, RecoverPlaces, Blank, BotFields
<1>5. Quiet(b, Down) /\ Quiet(b, Stopped)
  BY DEF Idle, Down, Stopped, NoLoop, Quiet, Control, HeldBy, Writing, RecoverPlaces, Blank, BotFields
<1> QED
  BY <1>1, <1>2, <1>3, <1>4, <1>5

-----------------------------------------------------------------------------
(* What the steps do to the copies in hand.                                  *)

\* The bot takes one order in hand.
Fetches(o, v) ==
    /\ Control(bot')
    /\ bot'.seen = [bot.seen EXCEPT ![o] = v]
    /\ HeldBy(bot') \subseteq {o}

LEMMA UpdateQuiet ==
    ASSUME Control(bot), UpdateTradeRow \/ Updated
    PROVE  Quiet(bot, bot') /\ UNCHANGED <<ex, db>>
<1>1. CASE UpdateTradeRow
  BY <1>1 DEF UpdateTradeRow, Quiet, Control, HeldBy, Writing, RecoverPlaces, BotFields
<1>2. CASE Updated
  <2>1. Quiet(bot, NextOrder(bot)) /\ Quiet(bot, Idle("manage"))
    BY QuietHelpers
  <2>2. ASSUME bot.inCancel, NEW r, bot' = [bot EXCEPT !.pc = "canceled", !.inCancel = FALSE, !.ret = r]
        PROVE  Quiet(bot, bot')
    BY <2>2 DEF Quiet, Control, HeldBy, Writing, RecoverPlaces, BotFields
  <2>3. ASSUME bot.flow = "placed", bot' = [bot EXCEPT !.pc = "placed", !.ret = TRUE]
        PROVE  Quiet(bot, bot')
    BY <2>3 DEF Quiet, Control, HeldBy, Writing, RecoverPlaces, BotFields
  <2>4. ASSUME bot.flow = "manage", bot.pc = "updated", NEW why,
               bot' = [bot EXCEPT !.pc = "cancel", !.why = why, !.ret = FALSE]
        PROVE  Quiet(bot, bot')
    BY <2>4 DEF Quiet, Control, HeldBy, Writing, RecoverPlaces, BotFields
  <2>5. Quiet(bot, bot')
    BY <1>2, <2>1, <2>2, <2>3, <2>4 DEF Updated
  <2>6. UNCHANGED <<ex, db>>
    BY <1>2 DEF Updated
  <2> QED
    BY <2>5, <2>6
<1> QED
  BY <1>1, <1>2

LEMMA RequestFetches ==
    ASSUME Control(bot), CancelOnExchange
    PROVE  Fetches(bot.ord, [status |-> ex'[bot.ord].status, filled |-> ex'[bot.ord].filled])
BY DEF Fetches, CancelOnExchange, RequestCancel, CancelAnswer, ViewIn, Control, HeldBy,
       Writing, RecoverPlaces, BotFields

LEMMA CancelQuiet ==
    ASSUME Control(bot), CancelStep
    PROVE  CancelOnExchange \/ Quiet(bot, bot')
<1>1. CASE CancelKeep
  BY <1>1 DEF CancelKeep, Quiet, Control, HeldBy, Writing, RecoverPlaces, BotFields
<1>3. CASE CancelRaises
  <2>1. Quiet(bot, Down) /\ \A phase : Quiet(bot, Idle(phase))
    BY QuietHelpers
  <2>2. ASSUME bot.flow = "similar" PROVE Quiet(bot, [bot EXCEPT !.pc = "placed", !.ret = FALSE])
    BY <2>2 DEF Quiet, Control, HeldBy, Writing, RecoverPlaces, BotFields
  <2> QED
    BY <1>3, <2>1, <2>2 DEF CancelRaises
<1>4. CASE CancelKnown \/ CancelExitResult
  BY <1>4 DEF CancelKnown, CancelExitResult, Quiet, Control, HeldBy, Writing, RecoverPlaces, BotFields
<1>5. CASE CancelEnterResult
  BY <1>5 DEF CancelEnterResult, Quiet, Control, HeldBy, Writing, RecoverPlaces, BotFields
<1>6. CASE Canceled
  <2>1. Quiet(bot, NextOrder(bot))
    BY QuietHelpers
  <2>2. ASSUME NEW goal \in {"entry", "exit"}, NEW amt, NEW sake, Place(goal, amt, sake)
        PROVE  Quiet(bot, bot')
    BY <1>6, <2>2 DEF Canceled, Place, Quiet, Control, HeldBy, Writing, RecoverPlaces, BotFields
  <2>3. ASSUME NEW goal, bot' = [NextOrder(bot) EXCEPT !.goal = goal]
        PROVE  Quiet(bot, bot')
    BY <2>1, <2>3 DEF Quiet, Control, HeldBy, BotFields
  <2>4. CASE Emergency
    <3>1. Place("exit", Remaining(bot.ord), "emergency")
      BY <1>6, <2>4 DEF Canceled, Emergency, IsReplacing
    <3> QED
      BY <2>2, <3>1
  <2>5. CASE ~Emergency /\ bot.why \in {"replace", "user"} /\ ~bot.ret
    BY <1>6, <2>1, <2>5 DEF Canceled
  <2>6. CASE ~Emergency /\ bot.why = "replace" /\ bot.ret
    BY <1>6, <2>2, <2>6 DEF Canceled
  <2>7. CASE ~Emergency /\ ~(bot.why = "replace" /\ bot.ret)
             /\ ~(bot.why \in {"replace", "user"} /\ ~bot.ret)
    <3>1. \E goal : bot' = [NextOrder(bot) EXCEPT !.goal = goal]
      BY <1>6, <2>7 DEF Canceled
    <3> QED
      BY <2>3, <3>1
  <2> QED
    BY <2>4, <2>5, <2>6, <2>7
<1> QED
  BY <1>1, <1>3, <1>4, <1>5, <1>6 DEF CancelStep

LEMMA PlaceQuiet ==
    ASSUME Control(bot), PlaceStep
    PROVE  CreateOrder \/ RecordOrder \/ Quiet(bot, bot')
<1>1. ASSUME bot.flow # "recover", NEW ret, bot' = [bot EXCEPT !.pc = "placed", !.ret = ret]
      PROVE  Quiet(bot, bot')
  BY <1>1 DEF Quiet, Control, HeldBy, Writing, BotFields
<1>2. bot.pc \in {"entry", "exit", "create", "record", "placed"} => bot.flow # "recover"
  BY DEF Control, RecoverPlaces
<1>3. CASE PrepareEntry \/ PrepareExit
  <2>1. \/ NotPlaced
        \/ \E amt : bot' = [bot EXCEPT !.pc = "create", !.amt = amt]
        \/ \E amt : bot' = [Loop(bot, "similar", OpenOrders) EXCEPT !.amt = amt]
    BY <1>3 DEF PrepareEntry, PrepareExit, ClearTheWay
  <2>2. Quiet(bot, Loop(bot, "similar", OpenOrders)) /\ bot.flow # "recover"
    BY <1>2, <1>3, QuietHelpers DEF PrepareEntry, PrepareExit
  <2>3. ASSUME NEW amt, bot' = [bot EXCEPT !.pc = "create", !.amt = amt]
        PROVE  Quiet(bot, bot')
    BY <2>2, <2>3 DEF Quiet, Control, HeldBy, Writing, BotFields
  <2>4. ASSUME NEW amt, bot' = [Loop(bot, "similar", OpenOrders) EXCEPT !.amt = amt]
        PROVE  Quiet(bot, bot')
    BY <2>2, <2>4 DEF Quiet, Control, HeldBy, BotFields
  <2> QED
    BY <1>1, <2>1, <2>2, <2>3, <2>4 DEF NotPlaced
<1>4. CASE CreateRejected
  BY <1>1, <1>2, <1>4 DEF CreateRejected, NotPlaced
<1>5. CASE Placed
  <2>1. Quiet(bot, Resume(bot)) /\ \A phase : Quiet(bot, Idle(phase))
    BY QuietHelpers
  <2> QED
    BY <1>5, <2>1 DEF Placed
<1> QED
  BY <1>3, <1>4, <1>5 DEF PlaceStep

LEMMA CreateFetches ==
    ASSUME Control(bot), NEW n \in Orders,
           bot' = [bot EXCEPT !.pc = "record", !.flow = "placed", !.ord = n, !.seen[n] = ViewIn(ex', n)]
    PROVE  Fetches(n, [status |-> ex'[n].status, filled |-> ex'[n].filled])
BY DEF Fetches, ViewIn, Control, HeldBy, BotFields

LEMMA LoopFetches ==
    ASSUME Control(bot)
    PROVE  /\ LoopFetch => Fetches(Min(Left), [status |-> ex[Min(Left)].status,
                                               filled |-> ex[Min(Left)].filled])
           /\ AssumeCanceled => Fetches(Min(Left), [status |-> "canceled",
                                                    filled |-> db[Min(Left)].filled])
<1>1. ASSUME LoopFetch
      PROVE  Fetches(Min(Left), [status |-> ex[Min(Left)].status, filled |-> ex[Min(Left)].filled])
  BY <1>1 DEF LoopFetch, Fetches, View, ViewIn, Control, HeldBy, BotFields
<1>2. ASSUME AssumeCanceled
      PROVE  Fetches(Min(Left), [status |-> "canceled", filled |-> db[Min(Left)].filled])
  BY <1>2 DEF AssumeCanceled, LostOrder, Fetches, Control, HeldBy, BotFields
<1> QED
  BY <1>1, <1>2

LEMMA LoopQuiet ==
    ASSUME Control(bot), LoopStep
    PROVE  LoopFetch \/ AssumeCanceled \/ Quiet(bot, bot')
<1>1. /\ Quiet(bot, NextOrder(bot)) /\ Quiet(bot, Stopped)
      /\ \A phase : Quiet(bot, Idle(phase))
  BY QuietHelpers
<1>2. CASE LoopFetchFails
  <2> DEFINE b == [bot EXCEPT !.todo = @ \ {Min(Left)}]
  <2>1. Control(b) /\ b.seen = bot.seen /\ HeldBy(b) = HeldBy(bot)
    BY DEF Control, HeldBy, BotFields
  <2>2. Quiet(b, NextOrder(b))
    BY <2>1, QuietHelpers
  <2>3. bot' = NextOrder(b) \/ bot' = Idle(bot.phase)
    BY <1>2 DEF LoopFetchFails
  <2> QED
    BY <1>1, <2>1, <2>2, <2>3 DEF Quiet
<1>3. CASE RecoverNext
  BY <1>3 DEF RecoverNext, Quiet, Control, HeldBy, RecoverPlaces, BotFields
<1>4. CASE RecoverEnd
  <2>1. bot' = [Idle("exit") EXCEPT !.pc = "decide"] \/ \E phase : bot' = Idle(phase)
    BY <1>4 DEF RecoverEnd
  <2>2. Quiet(bot, [Idle("exit") EXCEPT !.pc = "decide"])
    BY <1>1 DEF Idle, NoLoop, Quiet, Control, HeldBy, Writing, Blank, BotFields
  <2> QED
    BY <1>1, <2>1, <2>2
<1>5. CASE LoopEnd \/ ForceExitEnd
  <2>1. \/ \E phase : bot' = Idle(phase)
        \/ bot' = Stopped
        \/ bot' = [bot EXCEPT !.pc = "create"]
        \/ bot' = [bot EXCEPT !.pc = "placed", !.ret = FALSE]
        \/ \E amt : bot' = [bot EXCEPT !.pc = "exit", !.amt = amt]
    BY <1>5 DEF LoopEnd, ForceExitEnd
  <2>2. bot.flow # "recover"
    BY <1>5 DEF LoopEnd, ForceExitEnd
  <2> QED
    BY <1>1, <2>1, <2>2 DEF Quiet, Control, HeldBy, Writing, BotFields
<1> QED
  BY <1>2, <1>3, <1>4, <1>5 DEF LoopStep

\* handle_onexchange_order holds all orders as the exchange has them.
FetchesAll ==
    /\ Control(bot') /\ bot'.flow = "recover" /\ bot'.pc = "loop"
    /\ bot'.seen = [o \in Orders |-> [status |-> ex[o].status, filled |-> ex[o].filled]]

LEMMA RecoverFetches == ASSUME NEW STATE b, Control(b), Recover(b) PROVE FetchesAll
<1>1. \A S : LET c == Loop(b, "recover", S)
             IN  /\ DOMAIN c = BotFields /\ c.back = b.back /\ c.flow = "recover"
                 /\ c.pc = "loop" /\ ~c.inCancel
  BY DEF Loop, NextOrder, Control, BotFields
<1> QED
  BY <1>1 DEF FetchesAll, Recover, View, ViewIn, Control, HeldBy, RecoverPlaces, BotFields

LEMMA PhaseQuiet ==
    ASSUME Control(bot), PhaseStep
    PROVE  /\ UNCHANGED <<ex, db, trade>>
           /\ \/ Quiet(bot, bot') \/ FetchesAll
              \/ /\ bot'.pc = "update_order"
                 /\ \E o \in Orders : Fetches(o, [status |-> ex[o].status, filled |-> ex[o].filled])
<1>1. /\ \A flow, S : flow # "recover" => Quiet(bot, Loop(bot, flow, S))
      /\ \A phase : Quiet(bot, Idle(phase))
  BY QuietHelpers
<1>2. UNCHANGED <<ex, db, trade>>
  BY DEF PhaseStep, FeesPhase, ManagePhase, ExitPhase, DecideExit, AdjustPhase, EnterPhase, Skip
<1>3. \A phase : Skip(phase) => Quiet(bot, bot')
  BY <1>1 DEF Skip
<1>4. ASSUME bot.pc \in {"idle", "decide"}, NEW pc \in {"create", "entry", "exit"}, NEW goal, NEW amt,
             NEW sake, bot' = [bot EXCEPT !.pc = pc, !.goal = goal, !.amt = amt, !.sake = sake]
      PROVE  Quiet(bot, bot')
  BY <1>4 DEF Quiet, Control, HeldBy, Writing, RecoverPlaces, BotFields
<1>5. CASE FeesPhase
  <2>1. ASSUME NEW o \in FeeOrder,
               bot' = [bot EXCEPT !.pc = "update_order", !.flow = "fees",
                                  !.ord = o, !.seen[o] = View(o)]
        PROVE  /\ bot'.pc = "update_order" /\ o \in Orders
               /\ Fetches(o, [status |-> ex[o].status, filled |-> ex[o].filled])
    BY <2>1 DEF FeeOrder, FilledOrders, Fetches, View, ViewIn, Control, HeldBy, BotFields
  <2> QED
    BY <1>2, <1>3, <1>5, <2>1 DEF FeesPhase
<1>6. CASE ManagePhase
  BY <1>1, <1>2, <1>3, <1>6 DEF ManagePhase
<1>7. CASE ExitPhase
  <2>1. CASE bot' = [bot EXCEPT !.pc = "decide"]
    BY <1>2, <1>7, <2>1 DEF ExitPhase, Enter, Quiet, Control, HeldBy, Writing, RecoverPlaces, BotFields
  <2>2. CASE Recover([bot EXCEPT !.sake = "exit"])
    <3> DEFINE b == [bot EXCEPT !.sake = "exit"]
    <3>1. Control(b)
      BY DEF Control, BotFields
    <3> QED
      BY <1>2, <2>2, <3>1, RecoverFetches
  <2> QED
    BY <1>2, <1>3, <1>7, <2>1, <2>2 DEF ExitPhase
<1>8. CASE DecideExit
  <2>1. CASE bot' = [bot EXCEPT !.pc = "exit", !.goal = "exit", !.sake = "exit"]
    BY <1>2, <1>8, <2>1 DEF DecideExit, Quiet, Control, HeldBy, Writing, RecoverPlaces, BotFields
  <2> QED
    BY <1>1, <1>2, <1>8, <2>1 DEF DecideExit
<1>9. CASE AdjustPhase
  <2>1. bot.pc = "idle"
    BY <1>9 DEF AdjustPhase, Enter
  <2>2. ASSUME NEW pc \in {"entry", "exit"}, NEW amt,
               bot' = [bot EXCEPT !.pc = pc, !.goal = pc, !.amt = amt, !.sake = "adjust"]
        PROVE  Quiet(bot, bot')
    BY <1>4, <2>1, <2>2
  <2> QED
    BY <1>2, <1>3, <1>9, <2>2 DEF AdjustPhase
<1>10. CASE EnterPhase
  <2>1. bot.pc = "idle"
    BY <1>10 DEF EnterPhase, Enter
  <2>2. CASE bot' = [bot EXCEPT !.pc = "create", !.goal = "entry",
                                !.amt = EntryAmount, !.sake = "enter"]
    BY <1>2, <1>4, <2>1, <2>2
  <2> QED
    BY <1>2, <1>3, <1>10, <2>2 DEF EnterPhase
<1> QED
  BY <1>5, <1>6, <1>7, <1>8, <1>9, <1>10 DEF PhaseStep

LEMMA CommandQuiet ==
    ASSUME Control(bot), RPC
    PROVE  Quiet(bot, bot') \/ (FetchesAll /\ UNCHANGED <<ex, db, trade>>)
<1>1. \A flow, S : flow # "recover" => Quiet(bot, Loop(bot, flow, S))
  BY QuietHelpers
<1>2. CASE ForceExit
  <2>1. Quiet(bot, Loop(bot, "forceexit", OpenOrders))
    BY <1>1
  <2> QED
    BY <1>2, <2>1 DEF ForceExit, Quiet, Control, HeldBy, BotFields
<1>3. CASE CancelOpenOrder
  BY <1>1, <1>3 DEF CancelOpenOrder
<1>4. CASE DeleteTrade
  BY <1>4 DEF DeleteTrade, Quiet, Control, HeldBy
<1>5. CASE ReloadTrade
  BY <1>5, RecoverFetches DEF ReloadTrade
<1> QED
  BY <1>2, <1>3, <1>4, <1>5 DEF RPC

LEMMA LifecycleQuiet ==
    ASSUME Control(bot), Lifecycle
    PROVE  Quiet(bot, bot') /\ UNCHANGED <<ex, db, trade>>
<1>1. /\ \A flow, S : flow # "recover" => Quiet(bot, Loop(bot, flow, S))
      /\ Quiet(bot, Down) /\ Quiet(bot, Stopped)
  BY QuietHelpers
<1>2. CASE Stop \/ StoppedCancelAll \/ Crash
  BY <1>1, <1>2 DEF Stop, StoppedCancelAll, Crash
<1>3. CASE Startup
  <2>1. Control(Idle("fees")) /\ HeldBy(Idle("fees")) = {} /\ Idle("fees").seen = Blank
    BY DEF Idle, NoLoop, Blank, Control, HeldBy, Writing, BotFields
  <2>2. Quiet(Idle("fees"), bot') /\ UNCHANGED <<ex, db, trade>>
    BY <1>3, <2>1, QuietHelpers DEF Startup
  <2> QED
    BY <2>1, <2>2 DEF Quiet
<1> QED
  BY <1>2, <1>3 DEF Lifecycle

-----------------------------------------------------------------------------
(* The steps keep the fills.                                                 *)

LEMMA InitFills == Init => Fills
BY DEF Init, Fills, ExchangeTyped, RecordsBehind, SeenBehind, SeenFresh, Control, HeldBy, Writing,
       Idle, NoLoop, Nothing, OrderFields, BotFields

LEMMA ExchangeFills == ASSUME Fills, Exchange PROVE Fills' /\ KeepsFills
<1>1. Grows
  <2>1. ASSUME NEW o \in Orders, Fill(o) PROVE Grows
    BY <2>1 DEF Fill, Live, Fills, ExchangeTyped, Grows, OrderFields
  <2>2. ASSUME NEW o \in Orders, CanceledOnExchange(o) PROVE Grows
    BY <2>2 DEF CanceledOnExchange, Live, Fills, ExchangeTyped, Grows, OrderFields
  <2> QED
    BY <2>1, <2>2 DEF Exchange
<1>2. UNCHANGED <<db, bot>>
  BY DEF Exchange, Fill, CanceledOnExchange
<1>3. Quiet(bot, bot')
  BY <1>2 DEF Fills, Quiet, Control, HeldBy
<1> QED
  BY <1>1, <1>2, <1>3, QuietFills DEF Kept

\* update_trade_state and execute_entry write the order in hand, which has at least the
\* recorded fills.
LEMMA WriteFills ==
    ASSUME Fills, UNCHANGED ex, db' = [db EXCEPT ![bot.ord] = bot.seen[bot.ord]],
           bot'.seen = bot.seen, HeldBy(bot') \subseteq HeldBy(bot), Control(bot'),
           bot.pc \in {"update_order", "record"}
    PROVE  Fills' /\ KeepsFills
<1>1. bot.ord \in Orders => bot.ord \in HeldBy(bot)
  BY DEF HeldBy, Writing
<1>2. bot.ord \in Orders => db[bot.ord].filled <= bot.seen[bot.ord].filled
  BY <1>1 DEF Fills, SeenFresh
<1>3. RecordsBehind' /\ KeepsFills
  BY <1>2 DEF Fills, RecordsBehind, SeenBehind, KeepsFills
<1>4. SeenBehind' /\ ExchangeTyped'
  BY DEF Fills, SeenBehind, ExchangeTyped
<1>5. SeenFresh'
  BY DEF Fills, SeenFresh, SeenBehind, RecordsBehind
<1> QED
  BY <1>3, <1>4, <1>5 DEF Fills

\* What UpdateOrder and RecordOrder do.
LEMMA Writes ==
    ASSUME Control(bot), UpdateOrder \/ RecordOrder
    PROVE  /\ UNCHANGED ex /\ db' = [db EXCEPT ![bot.ord] = bot.seen[bot.ord]]
           /\ bot'.seen = bot.seen /\ HeldBy(bot') \subseteq HeldBy(bot) /\ Control(bot')
           /\ bot.pc \in {"update_order", "record"} /\ bot'.pc \notin {"create", "record"}
<1>1. CASE UpdateOrder
  BY <1>1 DEF UpdateOrder, Control, HeldBy, Writing, RecoverPlaces, BotFields
<1>2. CASE RecordOrder
  BY <1>2 DEF RecordOrder, Control, HeldBy, Writing, RecoverPlaces, BotFields
<1> QED
  BY <1>1, <1>2

LEMMA UpdateFills == ASSUME Fills, UpdateStep PROVE Fills' /\ KeepsFills
<1>1. CASE UpdateOrder
  BY <1>1, Writes, WriteFills DEF Fills
<1>2. CASE UpdateTradeRow \/ Updated
  <2>1. Quiet(bot, bot') /\ UNCHANGED <<ex, db>>
    BY <1>2, UpdateQuiet DEF Fills
  <2> QED
    BY <2>1, Unmoved, QuietFills DEF Kept
<1> QED
  BY <1>1, <1>2 DEF UpdateStep

\* A cancel request leaves the fills as they are; its answer has them all.
LEMMA RequestGrows ==
    ASSUME Fills, RequestCancel
    PROVE  Grows /\ \A o \in Orders : ex'[o].filled = ex[o].filled
<1>1. CASE UNCHANGED ex
  BY <1>1, Unmoved
<1>2. CASE bot.ord \in Live /\ ex' = [ex EXCEPT ![bot.ord].status = "canceled"]
  BY <1>2 DEF Live, Fills, ExchangeTyped, Grows, OrderFields
<1> QED
  BY <1>1, <1>2 DEF RequestCancel

LEMMA CancelFills == ASSUME Fills, CancelStep PROVE Fills' /\ KeepsFills
<1>1. CASE CancelOnExchange
  <2>1. Grows /\ \A o \in Orders : ex'[o].filled = ex[o].filled
    BY <1>1, RequestGrows DEF CancelOnExchange
  <2> DEFINE v == [status |-> ex'[bot.ord].status, filled |-> ex'[bot.ord].filled]
  <2>2. Fetches(bot.ord, v) /\ UNCHANGED db
    BY <1>1, RequestFetches DEF Fills, CancelOnExchange
  <2>3. bot.ord \in Orders => /\ v.filled \in Nat
                              /\ db[bot.ord].filled <= v.filled /\ v.filled <= ex'[bot.ord].filled
    BY <2>1 DEF Fills, ExchangeTyped, RecordsBehind
  <2> HIDE DEF v
  <2> QED
    BY <2>1, <2>2, <2>3, FetchFills DEF Fetches
<1>2. CASE ~CancelOnExchange
  <2>1. Kept /\ (UNCHANGED ex \/ RequestCancel)
    BY <1>2 DEF CancelStep, CancelKeep, CancelRaises, CancelKnown, CancelEnterResult, CancelExitResult,
                Canceled, ReplaceFailed, Kept
  <2>2. Quiet(bot, bot')
    BY <1>2, CancelQuiet DEF Fills
  <2> QED
    BY <2>1, <2>2, Unmoved, RequestGrows, QuietFills
<1> QED
  BY <1>1, <1>2

LEMMA PlaceFills == ASSUME Fills, PlaceStep PROVE Fills' /\ KeepsFills
<1>1. CASE CreateOrder
  <2>1. PICK n \in Orders, filled \in {0, bot.amt} :
          /\ ex[n].status = "none"
          /\ ex' = [ex EXCEPT ![n] =
                      [side   |-> IF bot.goal = "entry" THEN "buy" ELSE "sell",
                       amount |-> bot.amt, filled |-> filled,
                       status |-> IF filled = 0 THEN "open" ELSE "closed"]]
          /\ bot' = [bot EXCEPT !.pc = "record", !.flow = "placed",
                                !.ord = n, !.seen[n] = ViewIn(ex', n)]
    BY <1>1 DEF CreateOrder
  <2> DEFINE v == [status |-> ex'[n].status, filled |-> ex'[n].filled]
  <2>2. filled \in Nat
    BY <1>1 DEF CreateOrder
  <2>3. ex[n].filled = 0 /\ ex'[n].filled = filled /\ ex'[n].status # "none"
        /\ DOMAIN ex'[n] = OrderFields
    BY <2>1 DEF Fills, ExchangeTyped, OrderFields
  <2>4. Grows
    BY <2>1, <2>2, <2>3 DEF Fills, ExchangeTyped, Grows
  <2>5. Fetches(n, v)
    BY <2>1, CreateFetches DEF Fills
  <2>6. v.filled \in Nat /\ db[n].filled <= v.filled /\ v.filled <= ex'[n].filled
    BY <2>2, <2>3 DEF Fills, RecordsBehind
  <2>7. UNCHANGED db
    BY <1>1 DEF CreateOrder
  <2> HIDE DEF v
  <2> QED
    BY <2>4, <2>5, <2>6, <2>7, FetchFills DEF Fetches
<1>2. CASE RecordOrder
  BY <1>2, Writes, WriteFills DEF Fills
<1>3. CASE PrepareEntry \/ PrepareExit \/ CreateRejected \/ Placed
  <2>1. UNCHANGED ex /\ Kept
    BY <1>3 DEF PrepareEntry, PrepareExit, CreateRejected, Placed, ReplaceFailed, Kept
  <2>2. CASE Quiet(bot, bot')
    BY <2>1, <2>2, Unmoved, QuietFills
  <2> QED
    BY <1>1, <1>2, <2>2, PlaceQuiet DEF Fills
<1> QED
  BY <1>1, <1>2, <1>3 DEF PlaceStep

\* The exchange has at least the recorded fills of a fetched order; one that is not
\* found keeps those it has.
LEMMA LoopFills == ASSUME Fills, LoopStep PROVE Fills' /\ KeepsFills
<1> DEFINE o == Min(Left)
<1>1. CASE LoopFetch
  <2> DEFINE v == [status |-> ex[o].status, filled |-> ex[o].filled]
  <2>1. Fetches(o, v) /\ UNCHANGED <<ex, db>>
    BY <1>1, LoopFetches DEF Fills, LoopFetch
  <2>2. o \in Orders => /\ v.filled \in Nat
                        /\ db[o].filled <= v.filled /\ v.filled <= ex'[o].filled
    BY <2>1 DEF Fills, ExchangeTyped, RecordsBehind
  <2> HIDE DEF o, v
  <2> QED
    BY <2>1, <2>2, Unmoved, FetchFills DEF Fetches
<1>2. CASE AssumeCanceled
  <2> DEFINE v == [status |-> "canceled", filled |-> db[o].filled]
  <2>1. Fetches(o, v) /\ UNCHANGED <<ex, db>>
    BY <1>2, LoopFetches DEF Fills, AssumeCanceled
  <2>2. o \in Orders => /\ v.filled \in Nat
                        /\ db[o].filled <= v.filled /\ v.filled <= ex'[o].filled
    BY <2>1 DEF Fills, ExchangeTyped, RecordsBehind
  <2> HIDE DEF o, v
  <2> QED
    BY <2>1, <2>2, Unmoved, FetchFills DEF Fetches
<1>3. CASE Quiet(bot, bot')
  <2>1. UNCHANGED ex /\ Kept
    BY DEF LoopStep, LoopFetch, LoopFetchFails, AssumeCanceled, RecoverNext, RecoverEnd, LoopEnd,
           ForceExitEnd, Kept
  <2> QED
    BY <1>3, <2>1, Unmoved, QuietFills
<1> QED
  BY <1>1, <1>2, <1>3, LoopQuiet DEF Fills

LEMMA RecoverFills == ASSUME Fills, FetchesAll, UNCHANGED <<ex, db>> PROVE Fills' /\ KeepsFills
<1>1. SeenBehind' /\ SeenFresh'
  BY DEF FetchesAll, Fills, ExchangeTyped, RecordsBehind, SeenBehind, SeenFresh
<1>2. ExchangeTyped' /\ RecordsBehind'
  BY DEF Fills, ExchangeTyped, RecordsBehind
<1> QED
  BY <1>1, <1>2, KeptKeeps DEF Fills, FetchesAll, Kept

LEMMA PhaseFills == ASSUME Fills, PhaseStep PROVE Fills' /\ KeepsFills
<1>1. UNCHANGED <<ex, db>>
  BY PhaseQuiet DEF Fills
<1>2. ASSUME NEW o \in Orders, Fetches(o, [status |-> ex[o].status, filled |-> ex[o].filled])
      PROVE  Fills' /\ KeepsFills
  <2> DEFINE v == [status |-> ex[o].status, filled |-> ex[o].filled]
  <2>1. v.filled \in Nat /\ db[o].filled <= v.filled /\ v.filled <= ex'[o].filled
    BY <1>1 DEF Fills, ExchangeTyped, RecordsBehind
  <2>2. Fetches(o, v)
    BY <1>2
  <2> HIDE DEF v
  <2> QED
    BY <1>1, <2>1, <2>2, Unmoved, FetchFills DEF Fetches
<1>3. CASE Quiet(bot, bot')
  BY <1>1, <1>3, Unmoved, QuietFills DEF Kept
<1> QED
  BY <1>1, <1>2, <1>3, PhaseQuiet, RecoverFills DEF Fills

LEMMA CommandFills == ASSUME Fills, RPC PROVE Fills' /\ KeepsFills
<1>1. CASE DeleteTrade
  <2>1. PICK ok \in SUBSET (OpenOrders \cap Live) :
          ex' = [o \in Orders |->
                   IF o \in ok THEN [ex[o] EXCEPT !.status = "canceled"] ELSE ex[o]]
    BY <1>1 DEF DeleteTrade
  <2>2. Grows
    BY <2>1 DEF Fills, ExchangeTyped, Grows, OrderFields
  <2>3. Kept /\ Quiet(bot, bot')
    BY <1>1 DEF DeleteTrade, Kept, Quiet, Fills, Control, HeldBy
  <2> QED
    BY <2>2, <2>3, QuietFills
<1>2. CASE ForceExit \/ CancelOpenOrder \/ ReloadTrade
  <2>1. UNCHANGED <<ex, db>>
    BY <1>2 DEF ForceExit, CancelOpenOrder, ReloadTrade
  <2>2. CASE Quiet(bot, bot')
    BY <2>1, <2>2, Unmoved, QuietFills DEF Kept
  <2> QED
    BY <2>1, <2>2, CommandQuiet, RecoverFills DEF Fills
<1> QED
  BY <1>1, <1>2 DEF RPC

LEMMA LifecycleFills == ASSUME Fills, Lifecycle PROVE Fills' /\ KeepsFills
BY LifecycleQuiet, Unmoved, QuietFills DEF Fills, Kept

LEMMA NextFills == ASSUME Fills, [Next]_vars PROVE Fills' /\ [KeepsFills]_vars
<1>1. ASSUME Next PROVE Fills' /\ KeepsFills
  BY <1>1, ExchangeFills, UpdateFills, CancelFills, PlaceFills, LoopFills, PhaseFills,
     CommandFills, LifecycleFills DEF Next, Bot
<1>2. ASSUME UNCHANGED vars PROVE Fills'
  BY <1>2 DEF vars, Fills, ExchangeTyped, RecordsBehind, SeenBehind, SeenFresh, Control, HeldBy
<1> QED
  BY <1>1, <1>2

\* Through every update, cancellation, replacement, recovery, command and crash, for any
\* number of orders, and also when the exchange does not find an order any more, a fill
\* that was recorded of an order stays recorded until the trade is deleted.
THEOREM FillsStayRecorded == Spec => FillsNeverForgotten
<1>1. Init => Fills
  BY InitFills
<1>2. Fills /\ [Next]_vars => Fills' /\ [KeepsFills]_vars
  BY NextFills
<1> QED
  BY <1>1, <1>2, PTL DEF Spec, FillsNeverForgotten

-----------------------------------------------------------------------------
(* The course of the bot: which handler can be active where, and that no      *)
(* handler works on a trade that is not there.                                *)

Resting == {"idle", "down", "stopped"}
Updating == {"update_order", "update_trade", "updated"}
Canceling == {"cancel", "cancel_result", "canceled"}
CancelFlows == {"manage", "startup", "stop", "cancel_open_order", "forceexit"}
LoopFlows == CancelFlows \cup {"recover", "similar"}

\* Which flow can be active at which place, whom an interrupted loop waits for, and for
\* whom an order is replaced.
Course(b) ==
    /\ DOMAIN b = BotFields
    /\ b.inCancel => b.pc \in Updating /\ b.flow \in CancelFlows \cup {"similar"}
    /\ b.pc = "loop" => b.flow \in LoopFlows
    /\ b.pc \in Canceling => b.flow \in CancelFlows \cup {"similar"}
    /\ b.sake \in {"replace", "emergency"} =>
           b.back.flow \in {"manage", "startup", "cancel_open_order"}
    /\ b.why \in {"replace", "user"} => b.flow \in {"manage", "placed"}
    /\ b.pc \in Resting => b.why = "none"
    /\ b.pc \in Canceling \cup Updating \cup {"record"} /\ b.flow # "recover" => b.ord \in Orders

\* Before its first order is recorded a trade is only being created.
Begins ==
    trade.st = "none" =>
      \/ bot.pc \in Resting
      \/ bot.pc = "loop" /\ bot.flow = "startup"
      \/ bot.pc \in {"create", "record", "placed"} /\ bot.goal = "entry" /\ bot.sake = "enter"

\* After its deletion the loop that deleted a trade ends without placing another order.
Ends ==
    trade.st = "deleted" =>
      \/ bot.pc \in Resting
      \/ bot.pc = "loop" /\ bot.flow \in CancelFlows /\ ~(bot.flow = "forceexit" /\ bot.goal = "exit")
      \/ /\ bot.pc = "canceled" /\ bot.flow \in CancelFlows
         /\ bot.ret /\ IsEntry(bot.ord) /\ bot.why # "replace"

\* A trade that is not there has no orders.
NoRecords == trade.st \in {"none", "deleted"} => \A o \in Orders : db[o] = Nothing

Places ==
    /\ DOMAIN trade = {"st", "amount", "fee"}
    /\ Course(bot) /\ Begins /\ Ends /\ NoRecords

Alive == trade.st \notin {"none", "deleted"}

\* The smallest of some natural numbers is one of them.
LEMMA SmallestIsMember ==
    ASSUME NEW S \in SUBSET Nat, S # {}
    PROVE  Min(S) \in S
<1>1. IsWellFoundedOn(OpToRel(<, Nat), Nat)
  BY NatLessThanWellFounded
<1>2. PICK x \in S : \A y \in S : ~(<<y, x>> \in OpToRel(<, Nat))
  BY <1>1, WFMin
<1>3. ASSUME NEW y \in S, y < x
      PROVE  FALSE
  <2>1. <<y, x>> \in Nat \X Nat /\ <<y, x>>[1] < <<y, x>>[2]
    BY <1>3
  <2>2. <<y, x>> \in OpToRel(<, Nat)
    BY <2>1 DEF OpToRel
  <2> QED
    BY <1>2, <2>2
<1>4. \A y \in S : x <= y
  BY <1>3
<1> QED
  BY <1>2, <1>4 DEF Min

LEMMA AliveAt ==
    ASSUME Places
    PROVE  /\ bot.pc \in Updating \cup {"cancel", "cancel_result", "decide", "entry", "exit"} => Alive
           /\ bot.pc = "loop" /\ bot.flow \in {"recover", "similar"} => Alive
           /\ bot.pc = "loop" /\ Left # {} => Alive
<1>1. bot.pc \in Updating \cup {"cancel", "cancel_result", "decide", "entry", "exit"} => Alive
  BY DEF Places, Begins, Ends, Alive, Resting, Updating
<1>2. bot.pc = "loop" /\ bot.flow \in {"recover", "similar"} => Alive
  BY DEF Places, Begins, Ends, Alive, Resting, CancelFlows
<1>3. Left # {} => Alive
  BY DEF Places, NoRecords, Alive, Left, Recorded, Nothing
<1> QED
  BY <1>1, <1>2, <1>3

\* A step with a trade that is there before and after it.
LEMMA StaysAlive ==
    ASSUME Places, Alive, Course(bot'), DOMAIN trade' = DOMAIN trade,
           trade'.st \in {trade.st, "open", "closed"}
    PROVE  Places'
BY DEF Places, Alive, Begins, Ends, NoRecords

LEMMA CourseHelpers ==
    ASSUME NEW STATE b, Course(b)
    PROVE  /\ b.flow \in LoopFlows => Course(NextOrder(b))
           /\ b.sake \in {"replace", "emergency"} => Course(Resume(b))
           /\ \A flow \in LoopFlows : \A S : Course(Loop(b, flow, S))
           /\ \A phase : Course(Idle(phase))
           /\ Course(Down) /\ Course(Stopped)
<1> USE DEF Course, BotFields, Resting, Updating, Canceling, CancelFlows, LoopFlows
<1>1. b.flow \in LoopFlows => Course(NextOrder(b))
  BY DEF NextOrder
<1>2. b.sake \in {"replace", "emergency"} => Course(Resume(b))
  BY DEF NextOrder, Resume, NoLoop
<1>3. \A flow \in LoopFlows : \A S : Course(Loop(b, flow, S))
  <2> TAKE flow \in LoopFlows
  <2> TAKE S
  <2> DEFINE c == Loop(b, flow, S)
  <2>1. /\ DOMAIN c = BotFields /\ c.flow = flow /\ c.pc = "loop" /\ ~c.inCancel
        /\ c.why = "none" /\ c.sake = b.sake /\ c.back = b.back
    BY DEF NextOrder, Loop
  <2> QED
    BY <2>1
<1>4. \A phase : Course(Idle(phase))
  BY DEF Idle
<1>5. Course(Down) /\ Course(Stopped)
  BY DEF Idle, Down, Stopped
<1> QED
  BY <1>1, <1>2, <1>3, <1>4, <1>5

LEMMA InitPlaces == Init => Places
BY DEF Init, Places, Course, Begins, Ends, NoRecords, NoTrade, Idle, Resting, BotFields,
       Updating, Canceling

LEMMA TradeUpdates ==
    ASSUME NEW t, NEW d, NEW o, NEW r, DOMAIN t = {"st", "amount", "fee"}
    PROVE  /\ DOMAIN UpdateTrade(t, d, o, r) = DOMAIN t
           /\ UpdateTrade(t, d, o, r).st \in {t.st, "closed"}
           /\ DOMAIN Recalc(t, d) = DOMAIN t /\ Recalc(t, d).st = t.st
BY DEF UpdateTrade, Close, Recalc

LEMMA UpdatePlaces == ASSUME Places, UpdateStep PROVE Places'
<1>1. Alive
  BY AliveAt DEF UpdateStep, UpdateOrder, UpdateTradeRow, Updated, Updating
<1>2. DOMAIN trade' = DOMAIN trade /\ trade'.st \in {trade.st, "open", "closed"}
  <2>1. CASE UpdateTradeRow
    <3> DEFINE t == UpdateTrade(trade, db, bot.ord, Recalculating)
    <3>1. DOMAIN t = DOMAIN trade /\ t.st \in {trade.st, "closed"}
      BY TradeUpdates DEF Places
    <3>2. trade' = trade \/ trade' = t \/ \E f : trade' = [t EXCEPT !.fee = f]
      BY <2>1 DEF UpdateTradeRow
    <3> HIDE DEF t
    <3> QED
      BY <3>1, <3>2 DEF Places
  <2> QED
    BY <2>1 DEF UpdateStep, UpdateOrder, Updated
<1>3. Course(bot')
  <2>1. CASE UpdateOrder \/ UpdateTradeRow
    <3>1. /\ bot.pc \in Updating
          /\ \E pc \in {"update_trade", "updated"} :
               bot' = [bot EXCEPT !.pc = pc] \/ \E r : bot' = [bot EXCEPT !.pc = pc, !.ret = r]
      BY <2>1 DEF UpdateOrder, UpdateTradeRow, Updating
    <3> QED
      BY <3>1 DEF Places, Course, BotFields, Resting, Updating, Canceling
  <2>2. CASE Updated
    <3>1. Course(Idle("manage")) /\ (bot.flow \in LoopFlows => Course(NextOrder(bot)))
      BY CourseHelpers DEF Places
    <3>2. ASSUME bot.inCancel, NEW r,
                 bot.pc = "updated", bot' = [bot EXCEPT !.pc = "canceled", !.inCancel = FALSE, !.ret = r]
          PROVE  Course(bot')
      BY <3>2 DEF Places, Course, BotFields, Resting, Updating, Canceling, CancelFlows, LoopFlows
    <3>3. ASSUME ~bot.inCancel, bot' = [bot EXCEPT !.pc = "placed", !.ret = TRUE]
          PROVE  Course(bot')
      BY <3>3 DEF Places, Course, BotFields, Resting, Updating, Canceling, CancelFlows, LoopFlows
    <3>4. ASSUME ~bot.inCancel, bot.flow = "manage", bot.pc = "updated", NEW why,
                 bot' = [bot EXCEPT !.pc = "cancel", !.why = why, !.ret = FALSE]
          PROVE  Course(bot')
      BY <3>4 DEF Places, Course, BotFields, Resting, Updating, Canceling, CancelFlows, LoopFlows
    <3>5. {"startup", "recover", "manage"} \subseteq LoopFlows
      BY DEF LoopFlows, CancelFlows
    <3> QED
      BY <2>2, <3>1, <3>2, <3>3, <3>4, <3>5 DEF Updated
  <2> QED
    BY <2>1, <2>2 DEF UpdateStep
<1> QED
  BY <1>1, <1>2, <1>3, StaysAlive

LEMMA ExchangePlaces == ASSUME Fills, Places, Exchange PROVE Places'
<1>1. UNCHANGED <<db, trade, bot>>
  BY DEF Exchange, Fill, CanceledOnExchange
<1>2. \A o \in Orders : IsEntry(o)' = IsEntry(o)
  BY DEF Exchange, Fill, CanceledOnExchange, Live, Fills, ExchangeTyped, OrderFields, IsEntry
<1>3. bot.pc = "canceled" /\ bot.flow \in CancelFlows => IsEntry(bot.ord)' = IsEntry(bot.ord)
  BY <1>1, <1>2 DEF Places, Course, CancelFlows, Canceling
<1>4. Course(bot') /\ Begins' /\ NoRecords'
  BY <1>1 DEF Places, Begins, NoRecords
<1>5. Ends'
  BY <1>1, <1>3 DEF Places, Ends, IsEntry
<1> QED
  BY <1>1, <1>4, <1>5 DEF Places

\* A step that deletes the trade.
LEMMA DeletePlaces == ASSUME Delete, Course(bot'), Ends' PROVE Places'
BY DEF Delete, NoTrade, Places, Begins, NoRecords

\* Where handle_cancel_enter and handle_cancel_exit return to: a trade that they deleted has
\* nothing to place any more.
LEMMA CanceledPlaces == ASSUME Places, Canceled PROVE Places'
<1>1. bot.flow \in CancelFlows \cup {"similar"} /\ ~bot.inCancel /\ DOMAIN bot = BotFields
      /\ bot.pc = "canceled"
  BY DEF Canceled, Places, Course, Updating, Canceling
<1>2. Course(NextOrder(bot)) /\ NextOrder(bot).pc = "loop" /\ NextOrder(bot).flow = bot.flow
  BY <1>1, CourseHelpers DEF NextOrder, Places, LoopFlows, BotFields
<1>3. trade.st # "none"
  BY <1>1 DEF Places, Begins, Resting
<1>4. trade.st = "deleted" => /\ bot.flow \in CancelFlows /\ bot.ret /\ IsEntry(bot.ord)
                              /\ bot.why # "replace"
  BY <1>1 DEF Places, Ends, Resting
<1>5. ASSUME NEW goal \in {"entry", "exit"}, NEW amt, NEW sake \in {"replace", "emergency"}, Alive,
             bot.flow \in {"manage", "startup", "cancel_open_order"},
             Place(goal, amt, sake), UNCHANGED trade
      PROVE  Places'
  <2>1. Course(bot')
    BY <1>1, <1>5 DEF Place, Places, Course, BotFields, Resting, Updating, Canceling
  <2> QED
    BY <1>5, <2>1, StaysAlive
<1>6. CASE Emergency
  <2>1. Place("exit", Remaining(bot.ord), "emergency") /\ UNCHANGED trade
    BY <1>6 DEF Canceled, Emergency, IsReplacing
  <2> QED
    BY <1>3, <1>4, <1>5, <1>6, <2>1 DEF Emergency, Alive
<1>7. CASE ~Emergency /\ bot.why \in {"replace", "user"} /\ ~bot.ret
  <2>1. bot' = NextOrder(bot) /\ ReplaceFailed
    BY <1>7 DEF Canceled
  <2>2. Alive
    BY <1>3, <1>4, <1>7 DEF Alive
  <2>3. bot.flow = "manage"
    BY <1>1, <1>7 DEF Places, Course, CancelFlows
  <2>4. Ends'
    BY <1>2, <2>1, <2>3 DEF Ends, CancelFlows
  <2> QED
    BY <1>2, <2>1, <2>2, <2>4, DeletePlaces, StaysAlive DEF ReplaceFailed
<1>8. CASE ~Emergency /\ bot.why = "replace" /\ bot.ret
  <2>1. Place(IF IsEntry(bot.ord) THEN "entry" ELSE "exit", Remaining(bot.ord), "replace")
        /\ UNCHANGED trade
    BY <1>8 DEF Canceled
  <2>2. bot.flow = "manage"
    BY <1>1, <1>8 DEF Places, Course, CancelFlows
  <2> QED
    BY <1>3, <1>4, <1>5, <1>8, <2>1, <2>2 DEF Alive
<1>9. CASE ~Emergency /\ ~(bot.why = "replace" /\ bot.ret)
           /\ ~(bot.why \in {"replace", "user"} /\ ~bot.ret)
  <2> DEFINE goal == IF bot.flow = "forceexit" /\ IsEntry(bot.ord) /\ bot.ret
                     THEN "none" ELSE NextOrder(bot).goal
  <2>1. bot' = [NextOrder(bot) EXCEPT !.goal = goal] /\ UNCHANGED <<db, trade, ex>>
    BY <1>9 DEF Canceled
  <2>2. DOMAIN NextOrder(bot) = BotFields
    BY <1>2 DEF Course
  <2>3. Course(bot') /\ bot'.pc = "loop" /\ bot'.flow = bot.flow /\ bot'.goal = goal
    BY <1>2, <2>1, <2>2 DEF Course, BotFields
  <2>4. trade.st = "deleted" => ~(bot'.flow = "forceexit" /\ bot'.goal = "exit")
    BY <1>4, <2>3
  <2> HIDE DEF goal
  <2>5. Ends'
    BY <1>4, <2>1, <2>3, <2>4 DEF Ends
  <2> QED
    BY <1>3, <2>1, <2>3, <2>5 DEF Places, Begins, NoRecords
<1> QED
  BY <1>6, <1>7, <1>8, <1>9

LEMMA CancelPlaces == ASSUME Places, CancelStep PROVE Places'
<1>1. CASE CancelKeep \/ CancelKnown \/ CancelExitResult \/ CancelOnExchange \/ CancelRaises
  <2>1. Alive
    BY <1>1, AliveAt DEF CancelKeep, CancelKnown, CancelExitResult, CancelOnExchange, CancelRaises,
       RequestCancel
  <2>2. UNCHANGED trade
    BY <1>1 DEF CancelKeep, CancelKnown, CancelExitResult, CancelOnExchange, CancelRaises
  <2>3. Course(Down) /\ \A phase : Course(Idle(phase))
    BY CourseHelpers DEF Places
  <2>5. CASE CancelRaises
    <3>1. Course([bot EXCEPT !.pc = "placed", !.ret = FALSE])
      BY <2>5 DEF CancelRaises, RequestCancel, Places, Course, BotFields, Resting, Updating, Canceling
    <3> QED
      BY <2>1, <2>2, <2>3, <2>5, <3>1, StaysAlive DEF CancelRaises
  <2>6. CASE CancelKeep \/ CancelKnown \/ CancelOnExchange
    <3>1. /\ bot.pc = "cancel" /\ DOMAIN bot' = BotFields /\ bot'.pc \in Canceling
          /\ bot'.inCancel = bot.inCancel /\ bot'.flow = bot.flow /\ bot'.sake = bot.sake
          /\ bot'.back = bot.back /\ bot'.why = bot.why /\ bot'.ord = bot.ord
      BY <2>6 DEF CancelKeep, CancelKnown, CancelOnExchange, RequestCancel, Places, Course, BotFields,
                  Canceling
    <3>2. Course(bot')
      BY <3>1 DEF Places, Course, Resting, Updating, Canceling
    <3> QED
      BY <2>1, <2>2, <3>2, StaysAlive
  <2>7. CASE CancelExitResult
    <3>1. Course(bot')
      BY <2>7 DEF CancelExitResult, Places, Course, BotFields, Resting, Updating, Canceling,
                  CancelFlows, LoopFlows
    <3> QED
      BY <2>1, <2>2, <3>1, StaysAlive
  <2> QED
    BY <1>1, <2>5, <2>6, <2>7
<1>2. CASE CancelEnterResult
  <2>1. Alive
    BY <1>2, AliveAt DEF CancelEnterResult
  <2>2. /\ bot.pc = "cancel_result" /\ DOMAIN bot' = BotFields
        /\ bot'.flow = bot.flow /\ bot'.sake = bot.sake
        /\ bot'.back = bot.back /\ bot'.why = bot.why /\ bot'.ord = bot.ord
        /\ \/ bot'.pc = "canceled" /\ bot'.inCancel = bot.inCancel
           \/ bot'.pc = "update_order" /\ bot'.inCancel
    BY <1>2 DEF CancelEnterResult, Places, Course, BotFields
  <2>3. Course(bot')
    BY <2>2 DEF Places, Course, Resting, Updating, Canceling, CancelFlows
  <2>4. CASE UNCHANGED trade
    BY <2>1, <2>3, <2>4, StaysAlive
  <2>5. CASE Delete
    <3>0. trade' # trade
      BY <2>1, <2>5 DEF Delete, NoTrade, Alive
    <3>1. /\ ~IsReplacing /\ bot' = [bot EXCEPT !.pc = "canceled", !.ret = TRUE]
          /\ IsEntry(bot.ord) /\ UNCHANGED ex
      BY <1>2, <3>0 DEF CancelEnterResult
    <3>2. /\ bot'.pc = "canceled" /\ bot'.ret /\ bot'.flow # "similar" /\ bot'.why # "replace"
          /\ IsEntry(bot.ord)'
      BY <2>2, <3>1 DEF IsReplacing, IsEntry, Places, Course, BotFields
    <3>3. Ends'
      BY <2>2, <2>3, <3>2 DEF Ends, Course, Canceling, IsEntry
    <3> QED
      BY <2>3, <2>5, <3>3, DeletePlaces
  <2> QED
    BY <1>2, <2>4, <2>5 DEF CancelEnterResult
<1>3. CASE Canceled
  BY <1>3, CanceledPlaces
<1> QED
  BY <1>1, <1>2, <1>3 DEF CancelStep

\* A step after which the bot rests or begins a phase.
LEMMA RestsPlaces ==
    ASSUME Places, Course(bot'), bot'.pc \in Resting, UNCHANGED <<db, trade>>
    PROVE  Places'
BY DEF Places, Begins, Ends, NoRecords

LEMMA PlacePlaces == ASSUME Places, PlaceStep PROVE Places'
<1>1. ASSUME NEW ret, bot.pc \notin Updating, bot' = [bot EXCEPT !.pc = "placed", !.ret = ret]
      PROVE  /\ Course(bot') /\ bot'.pc = "placed" /\ bot'.goal = bot.goal /\ bot'.sake = bot.sake
  BY <1>1 DEF Places, Course, BotFields, Resting, Updating, Canceling
<1>2. CASE PrepareEntry \/ PrepareExit
  <2>1. \/ NotPlaced
        \/ \E amt : bot' = [bot EXCEPT !.pc = "create", !.amt = amt]
        \/ \E amt : bot' = [Loop(bot, "similar", OpenOrders) EXCEPT !.amt = amt]
    BY <1>2 DEF PrepareEntry, PrepareExit, ClearTheWay
  <2>2. bot.pc \in {"entry", "exit"} /\ UNCHANGED trade
    BY <1>2 DEF PrepareEntry, PrepareExit
  <2>3. Course(Loop(bot, "similar", OpenOrders))
    BY CourseHelpers DEF Places, LoopFlows
  <2>4. ASSUME NEW amt, bot' = [bot EXCEPT !.pc = "create", !.amt = amt]
        PROVE  Course(bot')
    BY <2>2, <2>4 DEF Places, Course, BotFields, Resting, Updating, Canceling
  <2>5. ASSUME NEW amt, bot' = [Loop(bot, "similar", OpenOrders) EXCEPT !.amt = amt]
        PROVE  Course(bot')
    BY <2>3, <2>5 DEF Course, BotFields
  <2>6. Course(bot')
    BY <1>1, <2>1, <2>2, <2>4, <2>5 DEF NotPlaced, Updating
  <2> QED
    BY <2>2, <2>6, AliveAt, StaysAlive
<1>3. CASE CreateRejected
  <2>1. Course(bot') /\ bot'.pc = "placed" /\ bot'.goal = bot.goal /\ bot'.sake = bot.sake
    BY <1>1, <1>3 DEF CreateRejected, NotPlaced, Updating
  <2> QED
    BY <1>3, <2>1 DEF CreateRejected, Places, Begins, Ends, NoRecords, Resting
<1>4. CASE CreateOrder
  <2>1. /\ Course(bot') /\ bot'.pc = "record" /\ bot'.goal = bot.goal /\ bot'.sake = bot.sake
    BY <1>4 DEF CreateOrder, Places, Course, BotFields, Resting, Updating, Canceling
  <2> QED
    BY <1>4, <2>1 DEF CreateOrder, Places, Begins, Ends, NoRecords, Resting
<1>5. CASE RecordOrder
  <2>1. Course(bot')
    <3>1. CASE bot' = [bot EXCEPT !.pc = "update_order"]
      BY <1>5, <3>1 DEF RecordOrder, Places, Course, BotFields, Resting, Updating, Canceling
    <3>2. CASE bot' = [bot EXCEPT !.pc = "placed", !.ret = TRUE]
      BY <1>1, <1>5, <3>2 DEF RecordOrder, Updating
    <3> QED
      BY <1>5, <3>1, <3>2 DEF RecordOrder
  <2>2. CASE bot.goal = "entry"
    <3> DEFINE t == [trade EXCEPT !.st = "open"]
    <3>1. DOMAIN t = {"st", "amount", "fee"} /\ t.st = "open"
      BY DEF Places
    <3>2. trade' = Recalc(t, db')
      BY <1>5, <2>2 DEF RecordOrder
    <3> HIDE DEF t
    <3>3. DOMAIN trade' = {"st", "amount", "fee"} /\ trade'.st = "open"
      BY <3>1, <3>2, TradeUpdates
    <3> QED
      BY <2>1, <3>3 DEF Places, Begins, Ends, NoRecords
  <2>3. CASE bot.goal # "entry"
    <3>1. Alive /\ UNCHANGED trade
      BY <1>5, <2>3 DEF RecordOrder, Places, Begins, Ends, Alive, Resting
    <3> QED
      BY <2>1, <3>1, StaysAlive
  <2> QED
    BY <2>2, <2>3
<1>6. CASE Placed
  <2>1. bot.pc = "placed"
    BY <1>6 DEF Placed
  <2>2. trade.st # "deleted" /\ (trade.st = "none" => bot.sake = "enter")
    BY <2>1 DEF Places, Begins, Ends, Resting
  <2>3. (bot.sake \in {"replace", "emergency"} => Course(Resume(bot))) /\ \A phase : Course(Idle(phase))
    BY CourseHelpers DEF Places
  <2>4. CASE bot.sake \in {"replace", "emergency"}
    <3>1. bot' = Resume(bot) /\ Course(bot') /\ Alive /\ (UNCHANGED trade \/ Delete)
      BY <1>6, <2>2, <2>3, <2>4 DEF Placed, ReplaceFailed, Alive
    <3>0. Resume(bot).pc = "loop" /\ Resume(bot).flow = bot.back.flow
      BY DEF Resume, NextOrder, Places, Course, BotFields
    <3>2. bot'.pc = "loop" /\ bot'.flow \in {"manage", "startup", "cancel_open_order"}
      BY <2>4, <3>0, <3>1 DEF Places, Course
    <3>3. Ends'
      BY <3>2 DEF Ends, CancelFlows
    <3> QED
      BY <3>1, <3>3, DeletePlaces, StaysAlive
  <2>5. CASE bot.sake \notin {"replace", "emergency"}
    <3>1. (\E phase : bot' = Idle(phase)) /\ UNCHANGED <<db, trade>>
      BY <1>6, <2>5 DEF Placed
    <3>2. \A phase : Idle(phase).pc \in Resting
      BY DEF Idle, Resting
    <3> QED
      BY <2>3, <3>1, <3>2, RestsPlaces
  <2> QED
    BY <2>4, <2>5
<1> QED
  BY <1>2, <1>3, <1>4, <1>5, <1>6 DEF PlaceStep

LEMMA LoopPlaces == ASSUME Places, LoopStep PROVE Places'
<1>1. /\ Course(Stopped) /\ Stopped.pc \in Resting
      /\ \A phase : Course(Idle(phase)) /\ Idle(phase).pc \in Resting
  BY CourseHelpers DEF Places, Idle, Stopped, Resting
<1>2. /\ bot.flow \in LoopFlows /\ bot.pc = "loop" /\ ~bot.inCancel /\ DOMAIN bot = BotFields
  BY DEF LoopStep, LoopFetch, LoopFetchFails, AssumeCanceled, RecoverNext, RecoverEnd, LoopEnd,
     ForceExitEnd, Places, Course, Updating
<1>3. ASSUME Left # {} PROVE Min(Left) \in Orders
  <2>1. Left \subseteq Orders /\ Orders \subseteq Nat
    BY ConstantsAssumption DEF Left, Recorded, Orders
  <2> QED
    BY <1>3, <2>1, SmallestIsMember
<1>4. CASE LoopFetch \/ AssumeCanceled
  <2>1. Alive /\ UNCHANGED trade
    BY <1>4, AliveAt DEF LoopFetch, AssumeCanceled
  <2>2. /\ DOMAIN bot' = BotFields /\ bot'.pc \in {"update_order", "cancel"}
        /\ bot'.inCancel = bot.inCancel /\ bot'.flow = bot.flow /\ bot'.sake = bot.sake
        /\ bot'.back = bot.back /\ (bot'.why = bot.why \/ bot'.why = "timeout")
        /\ bot'.ord = Min(Left) /\ bot.flow # "recover" /\ Left # {}
    BY <1>2, <1>4 DEF LoopFetch, AssumeCanceled, BotFields
  <2>3. Course(bot')
    BY <1>2, <1>3, <2>2 DEF Places, Course, Resting, Updating, Canceling, LoopFlows
  <2> QED
    BY <2>1, <2>3, StaysAlive
<1>5. CASE LoopFetchFails
  <2> DEFINE b == [bot EXCEPT !.todo = @ \ {Min(Left)}]
  <2>1. Course(b) /\ b.flow = bot.flow
    BY <1>2 DEF Places, Course, BotFields
  <2>2. Course(NextOrder(b))
    BY <1>2, <2>1, CourseHelpers
  <2>3. Alive /\ UNCHANGED trade /\ Course(bot')
    BY <1>1, <1>5, <2>2, AliveAt DEF LoopFetchFails
  <2> QED
    BY <2>3, StaysAlive
<1>6. CASE RecoverNext
  <2>1. Alive /\ UNCHANGED trade
    BY <1>6, AliveAt DEF RecoverNext
  <2>2. Course(bot')
    BY <1>2, <1>6 DEF RecoverNext, Places, Course, BotFields, Resting, Updating, Canceling
  <2> QED
    BY <2>1, <2>2, StaysAlive
<1>7. CASE RecoverEnd
  <2>1. bot' = [Idle("exit") EXCEPT !.pc = "decide"] \/ \E phase : bot' = Idle(phase)
    BY <1>7 DEF RecoverEnd
  <2>2. Alive
    BY <1>7, AliveAt DEF RecoverEnd
  <2>3. Course([Idle("exit") EXCEPT !.pc = "decide"])
    BY <1>1 DEF Idle, Course, BotFields, Resting, Updating, Canceling
  <2>4. Course(bot')
    BY <1>1, <2>1, <2>3
  <2>5. CASE UNCHANGED trade
    BY <2>2, <2>4, <2>5, StaysAlive
  <2>6. CASE Delete /\ \E phase : bot' = Idle(phase)
    <3>1. Ends'
      BY <1>1, <2>6 DEF Ends
    <3> QED
      BY <2>4, <2>6, <3>1, DeletePlaces
  <2> QED
    BY <1>7, <2>5, <2>6 DEF RecoverEnd
<1>8. CASE LoopEnd
  <2>1. CASE bot.flow = "similar"
    <3>1. \/ bot' = [bot EXCEPT !.pc = "create"]
          \/ bot' = [bot EXCEPT !.pc = "placed", !.ret = FALSE]
      BY <1>8, <2>1 DEF LoopEnd
    <3>2. /\ DOMAIN bot' = BotFields /\ bot'.pc \in {"create", "placed"}
          /\ bot'.inCancel = bot.inCancel /\ bot'.flow = bot.flow /\ bot'.sake = bot.sake
          /\ bot'.back = bot.back /\ bot'.why = bot.why
      BY <1>2, <3>1 DEF BotFields
    <3>3. Course(bot')
      BY <1>2, <3>2 DEF Places, Course, Resting, Updating, Canceling
    <3> QED
      BY <1>2, <1>8, <2>1, <3>3, AliveAt, StaysAlive DEF LoopEnd
  <2>2. CASE bot.flow # "similar"
    <3>1. bot' = Stopped \/ \E phase : bot' = Idle(phase)
      BY <1>2, <1>8, <2>2 DEF LoopEnd, LoopFlows, CancelFlows
    <3> QED
      BY <1>1, <1>8, <3>1, RestsPlaces DEF LoopEnd
  <2> QED
    BY <2>1, <2>2
<1>9. CASE ForceExitEnd
  <2>1. CASE \E phase : bot' = Idle(phase)
    BY <1>1, <1>9, <2>1, RestsPlaces DEF ForceExitEnd
  <2>2. CASE bot.goal = "exit" /\ \E amt : bot' = [bot EXCEPT !.pc = "exit", !.amt = amt]
    <3>1. Alive /\ UNCHANGED trade
      BY <1>2, <1>9, <2>2 DEF ForceExitEnd, Places, Begins, Ends, Alive, Resting
    <3>2. Course(bot')
      BY <1>2, <2>2 DEF Places, Course, BotFields, Resting, Updating, Canceling
    <3> QED
      BY <3>1, <3>2, StaysAlive
  <2> QED
    BY <1>9, <2>1, <2>2 DEF ForceExitEnd
<1> QED
  BY <1>4, <1>5, <1>6, <1>7, <1>8, <1>9 DEF LoopStep

LEMMA RecoverStays ==
    ASSUME Places, NEW STATE b, Course(b), Recover(b), Alive, UNCHANGED trade
    PROVE  Places'
<1>1. Course(Loop(b, "recover", {o \in Orders : ex[o].status # "none"}))
  BY CourseHelpers DEF LoopFlows
<1>2. Course(bot')
  BY <1>1 DEF Recover, Course, BotFields
<1> QED
  BY <1>2, StaysAlive

LEMMA PhasePlaces == ASSUME Places, PhaseStep PROVE Places'
<1>1. /\ \A phase : Course(Idle(phase)) /\ Idle(phase).pc \in Resting
      /\ \A flow \in LoopFlows : \A S : Course(Loop(bot, flow, S))
  BY CourseHelpers DEF Places, Idle, Resting
<1>2. ASSUME NEW phase, Skip(phase) PROVE Places'
  BY <1>1, <1>2, RestsPlaces DEF Skip
<1>3. ASSUME bot.pc \in {"idle", "decide"}, NEW pc \in {"decide", "create", "entry", "exit"}, NEW goal, NEW amt,
             NEW sake \in {"exit", "adjust", "enter"},
             bot' = [bot EXCEPT !.pc = pc, !.goal = goal, !.amt = amt, !.sake = sake]
      PROVE  /\ Course(bot') /\ bot'.pc = pc /\ bot'.goal = goal /\ bot'.sake = sake
  BY <1>3 DEF Places, Course, BotFields, Resting, Updating, Canceling
<1>4. CASE FeesPhase
  <2>1. ASSUME NEW o \in FeeOrder,
               bot' = [bot EXCEPT !.pc = "update_order", !.flow = "fees",
                                  !.ord = o, !.seen[o] = View(o)]
        PROVE  Places'
    <3>1. bot.pc = "idle" /\ UNCHANGED trade /\ o \in Orders /\ Alive
      BY <1>4, <2>1 DEF FeesPhase, Enter, Skip, FeeOrder, FilledOrders, Alive
    <3>2. Course(bot')
      BY <2>1, <3>1 DEF Places, Course, BotFields, Resting, Updating, Canceling
    <3> QED
      BY <3>1, <3>2, StaysAlive
  <2> QED
    BY <1>2, <1>4, <2>1 DEF FeesPhase
<1>5. CASE ManagePhase
  <2>1. CASE Managed /\ bot' = Loop(bot, "manage", OpenOrders) /\ UNCHANGED trade
    <3>1. Course(bot') /\ Alive
      BY <1>1, <2>1 DEF LoopFlows, CancelFlows, Managed, Alive
    <3> QED
      BY <2>1, <3>1, StaysAlive
  <2> QED
    BY <1>2, <1>5, <2>1 DEF ManagePhase
<1>6. CASE ExitPhase
  <2>1. CASE trade.st = "open" /\ UNCHANGED trade /\ bot' = [bot EXCEPT !.pc = "decide"]
    <3>1. Course(bot')
      BY <1>6, <2>1 DEF ExitPhase, Enter, Places, Course, BotFields, Resting, Updating, Canceling
    <3> QED
      BY <2>1, <3>1, StaysAlive DEF Alive
  <2>2. CASE trade.st = "open" /\ UNCHANGED trade /\ Recover([bot EXCEPT !.sake = "exit"])
    <3> DEFINE b == [bot EXCEPT !.sake = "exit"]
    <3>1. Course(b)
      BY DEF Places, Course, BotFields
    <3> QED
      BY <2>2, <3>1, RecoverStays DEF Alive
  <2> QED
    BY <1>2, <1>6, <2>1, <2>2 DEF ExitPhase
<1>7. CASE DecideExit
  <2>1. Alive /\ UNCHANGED trade
    BY <1>7, AliveAt DEF DecideExit
  <2>2. CASE bot' = [bot EXCEPT !.pc = "exit", !.goal = "exit", !.sake = "exit"]
    <3>1. Course(bot')
      BY <1>7, <2>2 DEF DecideExit, Places, Course, BotFields, Resting, Updating, Canceling
    <3> QED
      BY <2>1, <3>1, StaysAlive
  <2> QED
    BY <1>1, <1>7, <2>1, <2>2, StaysAlive DEF DecideExit
<1>8. CASE AdjustPhase
  <2>1. ASSUME trade.st = "open", bot.pc = "idle", NEW pc \in {"entry", "exit"}, NEW amt, UNCHANGED trade,
               bot' = [bot EXCEPT !.pc = pc, !.goal = pc, !.amt = amt, !.sake = "adjust"]
        PROVE  Places'
    <3>1. Course(bot')
      BY <1>3, <2>1
    <3> QED
      BY <2>1, <3>1, StaysAlive DEF Alive
  <2> QED
    BY <1>2, <1>8, <2>1 DEF AdjustPhase, Enter
<1>9. CASE EnterPhase
  <2>1. CASE /\ trade.st = "none" /\ UNCHANGED <<db, trade>>
             /\ bot' = [bot EXCEPT !.pc = "create", !.goal = "entry",
                                   !.amt = EntryAmount, !.sake = "enter"]
    <3>1. bot.pc = "idle"
      BY <1>9 DEF EnterPhase, Enter
    <3>2. Course(bot') /\ bot'.pc = "create" /\ bot'.goal = "entry" /\ bot'.sake = "enter"
      BY <1>3, <2>1, <3>1
    <3> QED
      BY <2>1, <3>2 DEF Places, Begins, Ends, NoRecords
  <2> QED
    BY <1>2, <1>9, <2>1 DEF EnterPhase
<1> QED
  BY <1>4, <1>5, <1>6, <1>7, <1>8, <1>9 DEF PhaseStep

LEMMA CommandPlaces == ASSUME Places, RPC PROVE Places'
<1>1. \A flow \in LoopFlows : \A S : Course(Loop(bot, flow, S))
  BY CourseHelpers DEF Places
<1>2. CASE ForceExit
  <2>1. Course(Loop(bot, "forceexit", OpenOrders))
    BY <1>1 DEF LoopFlows, CancelFlows
  <2>2. Course(bot')
    BY <1>2, <2>1 DEF ForceExit, Course, BotFields
  <2> QED
    BY <1>2, <2>2, StaysAlive DEF ForceExit, Alive
<1>3. CASE CancelOpenOrder
  <2>1. Course(bot')
    BY <1>1, <1>3 DEF CancelOpenOrder, LoopFlows, CancelFlows
  <2> QED
    BY <1>3, <2>1, StaysAlive DEF CancelOpenOrder, Alive
<1>4. CASE DeleteTrade
  <2>1. Delete /\ UNCHANGED bot /\ bot.pc = "idle"
    BY <1>4 DEF DeleteTrade, Command
  <2>2. Course(bot') /\ Ends'
    BY <2>1 DEF Places, Ends, Resting
  <2> QED
    BY <2>1, <2>2, DeletePlaces
<1>5. CASE ReloadTrade
  BY <1>5, RecoverStays DEF ReloadTrade, Places, Alive
<1> QED
  BY <1>2, <1>3, <1>4, <1>5 DEF RPC

LEMMA LifecyclePlaces == ASSUME Places, Lifecycle PROVE Places'
<1>1. /\ \A flow \in LoopFlows : \A S : Course(Loop(bot, flow, S))
      /\ Course(Down) /\ Course(Stopped) /\ Down.pc \in Resting /\ Stopped.pc \in Resting
  BY CourseHelpers DEF Places, Down, Stopped, Idle, Resting
<1>2. CASE Stop \/ Crash
  BY <1>1, <1>2, RestsPlaces DEF Stop, Crash
<1>3. CASE StoppedCancelAll
  <2>1. Course(bot')
    BY <1>1, <1>3 DEF StoppedCancelAll, LoopFlows, CancelFlows
  <2> QED
    BY <1>3, <2>1, StaysAlive DEF StoppedCancelAll, Alive
<1>4. CASE Startup
  <2> DEFINE b == Idle("fees")
             c == Loop(b, "startup", OpenOrders)
  <2>1. Course(b) /\ DOMAIN b = BotFields
    BY CourseHelpers DEF Places, Course
  <2>2. Course(c)
    BY <2>1, CourseHelpers DEF LoopFlows, CancelFlows
  <2> HIDE DEF b
  <2>3. c.pc = "loop" /\ c.flow = "startup"
    BY <2>1 DEF Loop, NextOrder, BotFields
  <2>4. bot' = c /\ UNCHANGED <<db, trade>>
    BY <1>4 DEF Startup, b
  <2> QED
    BY <2>2, <2>3, <2>4 DEF Places, Begins, Ends, NoRecords, CancelFlows
<1> QED
  BY <1>2, <1>3, <1>4 DEF Lifecycle

LEMMA NextPlaces == ASSUME Fills, Places, [Next]_vars PROVE Places'
<1>1. CASE UNCHANGED vars
  BY <1>1 DEF vars, Places, Begins, Ends, NoRecords, IsEntry
<1> QED
  BY <1>1, ExchangePlaces, UpdatePlaces, CancelPlaces, PlacePlaces, LoopPlaces, PhasePlaces,
     CommandPlaces, LifecyclePlaces DEF Next, Bot


-----------------------------------------------------------------------------
(* OneLiveOrder, for a bot that is not killed and an exchange that loses no   *)
(* order.  A live order is known to the database, or it is the one about to   *)
(* be recorded; so when the database holds no open order, none is live.       *)

\* An order that may still be written is not held as final while it is live.
SeenLive == \A o \in HeldBy(bot) \cap Orders : ex[o].status = "open" => bot.seen[o].status = "open"

\* The database knows of every live order of a trade that was not deleted.
LiveRecorded ==
    \A o \in Orders :
      ex[o].status = "open" =>
         \/ db[o].status = "open"
         \/ bot.pc = "record" /\ bot.ord = o
         \/ trade.st = "deleted"

NoneLive == \A o \in Orders : ex[o].status # "open"

Single == \A o, p \in Orders : ex[o].status = "open" /\ ex[p].status = "open" => o = p

Alone == SeenLive /\ LiveRecorded /\ Single /\ (bot.pc = "create" => NoneLive)

\* No order becomes live.
Settles == \A o \in Orders : ex'[o].status = "open" => ex[o].status = "open"

\* A deleted trade stays deleted.
StaysDeleted == trade.st = "deleted" => trade'.st = "deleted"

LEMMA NoOpenNoneLive ==
    ASSUME Alone, bot.pc # "record", trade.st # "deleted", OpenOrders = {}
    PROVE  NoneLive
BY DEF Alone, LiveRecorded, NoneLive, OpenOrders

LEMMA WhereTo ==
    ASSUME NEW STATE b, DOMAIN b = BotFields
    PROVE  /\ NextOrder(b).pc = "loop" /\ Resume(b).pc = "loop"
           /\ \A flow, S : Loop(b, flow, S).pc = "loop" /\ DOMAIN Loop(b, flow, S) = BotFields
           /\ \A phase : Idle(phase).pc = "idle"
           /\ Down.pc = "down" /\ Stopped.pc = "stopped"
<1>1. NextOrder(b).pc = "loop"
  BY DEF NextOrder, BotFields
<1>2. Resume(b).pc = "loop"
  BY DEF Resume, NextOrder, BotFields
<1>3. \A flow, S : Loop(b, flow, S).pc = "loop" /\ DOMAIN Loop(b, flow, S) = BotFields
  BY DEF Loop, NextOrder, BotFields
<1>4. /\ \A phase : Idle(phase).pc = "idle"
      /\ Down.pc = "down" /\ Stopped.pc = "stopped"
  BY DEF Idle, Down, Stopped
<1> QED
  BY <1>1, <1>2, <1>3, <1>4

\* A step in which the bot looks at no order.
LEMMA QuietAlone ==
    ASSUME Alone, Settles, Kept, StaysDeleted, Quiet(bot, bot'), bot.pc # "record" \/ UNCHANGED bot,
           bot'.pc = "create" => NoneLive
    PROVE  Alone'
<1>1. SeenLive'
  BY DEF Alone, SeenLive, Settles, Quiet
<1>2. LiveRecorded'
  <2>1. CASE UNCHANGED db
    BY <2>1 DEF Alone, LiveRecorded, Settles, StaysDeleted
  <2>2. CASE Delete
    BY <2>2 DEF Delete, NoTrade, LiveRecorded
  <2> QED
    BY <2>1, <2>2 DEF Kept
<1>3. Single' /\ (bot'.pc = "create" => NoneLive')
  BY DEF Alone, Single, Settles, NoneLive
<1> QED
  BY <1>1, <1>2, <1>3 DEF Alone

\* A step in which the bot takes one order in hand as the exchange has it.
LEMMA FetchAlone ==
    ASSUME Alone, Settles, UNCHANGED db, StaysDeleted, bot.pc # "record", bot'.pc # "create",
           DOMAIN bot.seen = Orders, NEW o, NEW STATE v, Fetches(o, v),
           o \in Orders /\ ex'[o].status = "open" => v.status = "open"
    PROVE  Alone'
<1>1. SeenLive'
  BY DEF Fetches, SeenLive
<1>2. LiveRecorded'
  BY DEF Alone, LiveRecorded, Settles, StaysDeleted
<1>3. Single'
  BY DEF Alone, Single, Settles
<1> QED
  BY <1>1, <1>2, <1>3 DEF Alone

LEMMA FetchAllAlone ==
    ASSUME Alone, UNCHANGED <<ex, db, trade>>, bot.pc # "record", FetchesAll
    PROVE  Alone'
<1>1. SeenLive'
  BY DEF FetchesAll, SeenLive
<1>2. LiveRecorded' /\ Single'
  BY DEF Alone, LiveRecorded, Single
<1> QED
  BY <1>1, <1>2 DEF Alone, FetchesAll

\* A step in which the order in hand is written.
LEMMA WriteAlone ==
    ASSUME Alone, Fills, UpdateOrder \/ RecordOrder, trade.st # "deleted"
    PROVE  Alone'
<1>1. /\ UNCHANGED ex /\ db' = [db EXCEPT ![bot.ord] = bot.seen[bot.ord]]
      /\ bot'.seen = bot.seen /\ HeldBy(bot') \subseteq HeldBy(bot)
      /\ bot.pc \in {"update_order", "record"} /\ bot'.pc \notin {"create", "record"}
  BY Writes DEF Fills
<1>2. bot.ord \in Orders => bot.ord \in HeldBy(bot)
  BY <1>1 DEF HeldBy, Writing
<1>3. SeenLive'
  BY <1>1 DEF Alone, SeenLive
<1>4. LiveRecorded'
  BY <1>1, <1>2 DEF Alone, SeenLive, LiveRecorded, Fills, RecordsBehind
<1>5. Single'
  BY <1>1 DEF Alone, Single
<1> QED
  BY <1>1, <1>3, <1>4, <1>5 DEF Alone

LEMMA InitAlone == Init => Alone
BY DEF Init, Alone, SeenLive, LiveRecorded, Single, NoneLive, Idle

LEMMA ExchangeAlone == ASSUME Alone, Fills, Exchange PROVE Alone'
<1>1. Settles
  <2>1. ASSUME NEW o \in Orders, Fill(o) PROVE Settles
    BY <2>1 DEF Fill, Live, Settles, Fills, ExchangeTyped
  <2>2. ASSUME NEW o \in Orders, CanceledOnExchange(o) PROVE Settles
    BY <2>2 DEF CanceledOnExchange, Live, Settles, Fills, ExchangeTyped, OrderFields
  <2> QED
    BY <2>1, <2>2 DEF Exchange
<1>2. UNCHANGED <<db, trade, bot>>
  BY DEF Exchange, Fill, CanceledOnExchange
<1>3. Quiet(bot, bot')
  BY <1>2 DEF Fills, Quiet, Control, HeldBy
<1> QED
  BY <1>1, <1>2, <1>3, QuietAlone DEF Alone, Kept, StaysDeleted

LEMMA UpdateAlone == ASSUME Alone, Fills, Places, UpdateStep PROVE Alone'
<1>1. bot.pc \in Updating /\ trade.st # "deleted"
  BY AliveAt DEF UpdateStep, UpdateOrder, UpdateTradeRow, Updated, Updating, Alive
<1>2. CASE UpdateTradeRow \/ Updated
  <2>1. Quiet(bot, bot') /\ UNCHANGED <<ex, db>>
    BY <1>2, UpdateQuiet DEF Fills
  <2>2. bot'.pc # "create"
    BY <1>2, WhereTo DEF UpdateTradeRow, Updated, Fills, Control, BotFields
  <2> QED
    BY <1>1, <2>1, <2>2, QuietAlone DEF Settles, Kept, StaysDeleted, Updating
<1> QED
  BY <1>1, <1>2, WriteAlone DEF UpdateStep

LEMMA CancelAlone == ASSUME Alone, Fills, Places, CancelStep PROVE Alone'
<1>1. bot.pc \in Canceling
  BY DEF CancelStep, CancelKeep, CancelOnExchange, CancelRaises, RequestCancel, CancelKnown,
         CancelEnterResult, CancelExitResult, Canceled, Canceling
<1>2. Settles
  <2>1. RequestCancel \/ UNCHANGED ex
    BY DEF CancelStep, CancelKeep, CancelOnExchange, CancelRaises, CancelKnown,
           CancelEnterResult, CancelExitResult, Canceled
  <2> QED
    BY <2>1 DEF RequestCancel, Live, Settles, Fills, ExchangeTyped, OrderFields
<1>3. Kept /\ StaysDeleted
  BY DEF CancelStep, CancelKeep, CancelOnExchange, CancelRaises, CancelKnown,
         CancelEnterResult, CancelExitResult, Canceled, ReplaceFailed, Delete, NoTrade, Kept, StaysDeleted
<1>4. bot'.pc # "create"
  <2>1. ASSUME Canceled PROVE bot'.pc # "create"
    <3> DEFINE next == NextOrder(bot)
    <3>1. DOMAIN next = BotFields /\ next.pc = "loop" /\ DOMAIN bot = BotFields
      BY WhereTo, RemadeByHelpers DEF Fills, Control, Remade
    <3> HIDE DEF next
    <3>2. \/ \E goal \in {"entry", "exit"} : \E amt, sake : Place(goal, amt, sake)
          \/ bot' = next \/ \E goal : bot' = [next EXCEPT !.goal = goal]
      BY <2>1 DEF Canceled, next
    <3> QED
      BY <3>1, <3>2 DEF Place, BotFields
  <2>2. ASSUME CancelRaises PROVE bot'.pc # "create"
    BY <2>2, WhereTo DEF CancelRaises, Fills, Control, BotFields
  <2> QED
    BY <2>1, <2>2 DEF CancelStep, CancelKeep, CancelOnExchange, CancelKnown,
         CancelEnterResult, CancelExitResult, Fills, Control, BotFields
<1>5. CASE CancelOnExchange
  <2> DEFINE v == [status |-> ex'[bot.ord].status, filled |-> ex'[bot.ord].filled]
  <2>1. Fetches(bot.ord, v) /\ UNCHANGED db
    BY <1>5, RequestFetches DEF Fills, CancelOnExchange
  <2>2. v.status = ex'[bot.ord].status
    OBVIOUS
  <2> HIDE DEF v
  <2> QED
    BY <1>1, <1>2, <1>3, <1>4, <2>1, <2>2, FetchAlone DEF Fills, SeenBehind, Canceling
<1>6. CASE Quiet(bot, bot')
  BY <1>1, <1>2, <1>3, <1>4, <1>6, QuietAlone DEF Canceling
<1> QED
  BY <1>5, <1>6, CancelQuiet DEF Fills

\* The exchange gets a new order when none is live.
LEMMA CreateAlone == ASSUME Alone, Fills, Places, CreateOrder PROVE Alone'
<1>1. PICK n \in Orders, filled \in {0, bot.amt} :
        /\ ex' = [ex EXCEPT ![n] =
                    [side   |-> IF bot.goal = "entry" THEN "buy" ELSE "sell",
                     amount |-> bot.amt, filled |-> filled,
                     status |-> IF filled = 0 THEN "open" ELSE "closed"]]
        /\ bot' = [bot EXCEPT !.pc = "record", !.flow = "placed",
                              !.ord = n, !.seen[n] = ViewIn(ex', n)]
  BY DEF CreateOrder
<1>2. NoneLive
  BY DEF CreateOrder, Alone
<1>3. \A o \in Orders : ex'[o].status = "open" => o = n
  BY <1>1, <1>2 DEF NoneLive, Fills, ExchangeTyped
<1>4. Fetches(n, [status |-> ex'[n].status, filled |-> ex'[n].filled])
  BY <1>1, CreateFetches DEF Fills
<1>5. bot'.pc = "record" /\ bot'.ord = n
  BY <1>1 DEF Fills, Control, BotFields
<1>6. SeenLive'
  BY <1>3, <1>4 DEF SeenLive, Fetches, Fills, SeenBehind
<1>7. LiveRecorded' /\ Single'
  BY <1>3, <1>5 DEF LiveRecorded, Single
<1> QED
  BY <1>5, <1>6, <1>7 DEF Alone

LEMMA PlaceAlone == ASSUME Alone, Fills, Places, PlaceStep PROVE Alone'
<1>1. CASE RecordOrder
  <2>1. trade.st # "deleted"
    BY <1>1 DEF RecordOrder, Places, Ends, Resting
  <2> QED
    BY <1>1, <2>1, WriteAlone
<1>2. CASE (PrepareEntry \/ PrepareExit \/ CreateRejected \/ Placed) /\ Quiet(bot, bot')
  <2>1. bot.pc # "record" /\ UNCHANGED ex /\ Kept
    BY <1>2 DEF PrepareEntry, PrepareExit, CreateRejected, Placed, ReplaceFailed, Kept
  <2>2. StaysDeleted
    BY <1>2 DEF PrepareEntry, PrepareExit, CreateRejected, Placed, ReplaceFailed, Delete, NoTrade,
                StaysDeleted
  <2>3. ASSUME bot'.pc = "create" PROVE NoneLive
    <3>1. CASE PrepareEntry \/ PrepareExit
      <4>1. trade.st # "deleted"
        BY <3>1, AliveAt DEF PrepareEntry, PrepareExit, Alive
      <4>2. \A flow, S : Loop(bot, flow, S).pc = "loop" /\ DOMAIN Loop(bot, flow, S) = BotFields
        BY RemadeByHelpers DEF Loop, NextOrder, Fills, Control, BotFields, Remade
      <4>3. ASSUME NEW amt, bot' = [Loop(bot, "similar", OpenOrders) EXCEPT !.amt = amt]
            PROVE  FALSE
        BY <2>3, <4>2, <4>3 DEF BotFields
      <4>4. OpenOrders = {}
        BY <2>3, <3>1, <4>3 DEF PrepareEntry, PrepareExit, ClearTheWay, NotPlaced, Fills, Control,
                                BotFields
      <4> QED
        BY <2>1, <4>1, <4>4, NoOpenNoneLive
    <3>2. CASE CreateRejected
      BY <2>3, <3>2 DEF CreateRejected, NotPlaced, Fills, Control, BotFields
    <3>3. CASE Placed
      <4>1. Resume(bot).pc = "loop" /\ \A phase : Idle(phase).pc = "idle"
        BY DEF Resume, NextOrder, Idle, Fills, Control, BotFields
      <4> QED
        BY <2>3, <3>3, <4>1 DEF Placed
    <3> QED
      BY <1>2, <3>1, <3>2, <3>3
  <2> QED
    BY <1>2, <2>1, <2>2, <2>3, QuietAlone DEF Settles
<1> QED
  BY <1>1, <1>2, CreateAlone, PlaceQuiet DEF PlaceStep, Fills

\* Only a fetched order is taken for what it is on the exchange.
LEMMA LoopAlone == ASSUME Alone, Fills, Places, ~OrdersLost, LoopStep PROVE Alone'
<1>1. bot.pc = "loop" /\ UNCHANGED ex /\ Kept
  BY DEF LoopStep, LoopFetch, LoopFetchFails, AssumeCanceled, RecoverNext, RecoverEnd, LoopEnd,
         ForceExitEnd, Kept
<1>2. StaysDeleted
  BY DEF LoopStep, LoopFetch, LoopFetchFails, AssumeCanceled, RecoverNext, RecoverEnd, LoopEnd,
         ForceExitEnd, Delete, NoTrade, StaysDeleted
<1>3. CASE LoopFetch
  <2> DEFINE o == Min(Left)
             v == [status |-> ex[o].status, filled |-> ex[o].filled]
  <2>1. Fetches(o, v) /\ UNCHANGED db
    BY <1>3, LoopFetches DEF Fills, LoopFetch
  <2>2. v.status = ex'[o].status
    BY <1>1
  <2>3. bot'.pc # "create"
    BY <1>3 DEF LoopFetch, Fills, Control, BotFields
  <2> HIDE DEF o, v
  <2> QED
    BY <1>1, <1>2, <2>1, <2>2, <2>3, FetchAlone DEF Fills, SeenBehind, Settles
<1>4. CASE Quiet(bot, bot') /\ ~LoopFetch
  <2>1. ASSUME bot'.pc = "create" PROVE NoneLive
    <3>1. bot.flow = "similar" /\ OpenOrders = {}
      <4>1. CASE LoopEnd
        <5>1. bot.flow \in LoopFlows /\ DOMAIN bot = BotFields
          BY <1>1 DEF Places, Course
        <5>2. bot' # Stopped /\ \A phase : bot' # Idle(phase)
          BY <2>1, <5>1, WhereTo
        <5>3. bot.flow = "similar"
          BY <4>1, <5>1, <5>2 DEF LoopEnd, LoopFlows, CancelFlows
        <5>4. AllCanceled
          BY <2>1, <4>1, <5>1, <5>3 DEF LoopEnd, BotFields
        <5> QED
          BY <5>3, <5>4 DEF AllCanceled
      <4>2. CASE LoopFetchFails
        <5> DEFINE b == [bot EXCEPT !.todo = @ \ {Min(Left)}]
        <5>1. DOMAIN b = BotFields
          BY DEF Fills, Control, BotFields
        <5>2. bot' = NextOrder(b) \/ bot' = Idle(bot.phase)
          BY <4>2 DEF LoopFetchFails
        <5> HIDE DEF b
        <5> QED
          BY <2>1, <5>1, <5>2, WhereTo
      <4>3. CASE RecoverNext \/ RecoverEnd \/ ForceExitEnd
        <5>1. \/ \E phase : bot' = Idle(phase) \/ bot' = [Idle("exit") EXCEPT !.pc = "decide"]
              \/ bot'.pc \in {"update_order", "exit"}
          BY <4>3 DEF RecoverNext, RecoverEnd, ForceExitEnd, Fills, Control, BotFields
        <5>2. [Idle("exit") EXCEPT !.pc = "decide"].pc = "decide"
          BY DEF Idle
        <5> QED
          BY <2>1, <5>1, <5>2, WhereTo DEF Fills, Control
      <4> QED
        BY <1>4, <4>1, <4>2, <4>3 DEF LoopStep, AssumeCanceled
    <3>2. trade.st # "deleted"
      BY <1>1, <3>1, AliveAt DEF Alive
    <3> QED
      BY <1>1, <3>1, <3>2, NoOpenNoneLive
  <2> QED
    BY <1>1, <1>2, <1>4, <2>1, QuietAlone DEF Settles
<1> QED
  BY <1>3, <1>4, LoopQuiet DEF Fills, AssumeCanceled

LEMMA PhaseAlone == ASSUME Alone, Fills, Places, PhaseStep PROVE Alone'
<1>1. bot.pc \in {"idle", "decide"} /\ UNCHANGED <<ex, db, trade>>
  BY PhaseQuiet DEF Fills, PhaseStep, FeesPhase, ManagePhase, ExitPhase, DecideExit, AdjustPhase, EnterPhase,
                    Enter
<1>2. Settles /\ Kept /\ StaysDeleted
  BY <1>1 DEF Settles, Kept, StaysDeleted
<1>3. ASSUME NEW o \in Orders, Fetches(o, [status |-> ex[o].status, filled |-> ex[o].filled]),
             bot'.pc = "update_order"
      PROVE  Alone'
  <2> DEFINE v == [status |-> ex[o].status, filled |-> ex[o].filled]
  <2>1. Fetches(o, v) /\ v.status = ex'[o].status
    BY <1>1, <1>3
  <2> HIDE DEF v
  <2> QED
    BY <1>1, <1>2, <1>3, <2>1, FetchAlone DEF Fills, SeenBehind
<1>4. ASSUME bot'.pc = "create" PROVE NoneLive
  <2>1. EnterPhase /\ trade.st = "none"
    <3>1. \A phase : Idle(phase).pc = "idle"
      BY DEF Idle
    <3>2. ~Skip("enter")
      BY <1>4, <3>1 DEF Skip
    <3>3. CASE ~EnterPhase
      <4>1. \A flow, S : Loop(bot, flow, S).pc = "loop"
        BY DEF Loop, NextOrder, Fills, Control, BotFields
      <4>2. \A b : Control(b) /\ Recover(b) => bot'.pc = "loop"
        BY RecoverFetches DEF FetchesAll
      <4> QED
        BY <1>4, <3>1, <3>3, <4>1, <4>2 DEF PhaseStep, FeesPhase, ManagePhase, ExitPhase, DecideExit,
             AdjustPhase, Skip, Fills, Control, BotFields
    <3> QED
      BY <3>2, <3>3 DEF EnterPhase
  <2>2. OpenOrders = {}
    BY <2>1 DEF Places, NoRecords, OpenOrders, Nothing
  <2> QED
    BY <1>1, <2>1, <2>2, NoOpenNoneLive
<1>5. CASE Quiet(bot, bot')
  BY <1>1, <1>2, <1>4, <1>5, QuietAlone
<1>6. CASE FetchesAll
  BY <1>1, <1>6, FetchAllAlone
<1> QED
  BY <1>3, <1>5, <1>6, PhaseQuiet DEF Fills

LEMMA CommandAlone == ASSUME Alone, Fills, Places, RPC PROVE Alone'
<1>1. bot.pc = "idle" /\ Kept /\ Settles
  BY DEF RPC, ForceExit, CancelOpenOrder, DeleteTrade, ReloadTrade, Command, Kept, Live, Settles
<1>2. StaysDeleted
  BY DEF RPC, ForceExit, CancelOpenOrder, DeleteTrade, ReloadTrade, StaysDeleted, Delete, NoTrade
<1>3. Quiet(bot, bot') => bot'.pc # "create"
  <2>1. \A flow, S : Loop(bot, flow, S).pc = "loop" /\ DOMAIN Loop(bot, flow, S) = BotFields
    BY WhereTo DEF Fills, Control
  <2>3. ForceExit => bot'.pc = "loop"
    BY <2>1 DEF ForceExit, BotFields
  <2>2. ReloadTrade => bot'.pc = "loop"
    BY RecoverFetches DEF ReloadTrade, FetchesAll, Fills
  <2> QED
    BY <1>1, <2>1, <2>2, <2>3 DEF RPC, CancelOpenOrder, DeleteTrade
<1>4. CASE Quiet(bot, bot')
  BY <1>1, <1>2, <1>3, <1>4, QuietAlone
<1>5. CASE FetchesAll /\ UNCHANGED <<ex, db, trade>>
  BY <1>1, <1>5, FetchAllAlone
<1> QED
  BY <1>4, <1>5, CommandQuiet DEF Fills

\* Only a crash can come between an order and its record.
LEMMA LifecycleAlone == ASSUME Alone, Fills, ~Crash, Lifecycle PROVE Alone'
<1>1. Quiet(bot, bot') /\ UNCHANGED <<ex, db, trade>>
  BY LifecycleQuiet DEF Fills
<1>2. bot.pc \in Resting
  BY DEF Lifecycle, Stop, StoppedCancelAll, Startup, Command, Resting
<1>3. bot'.pc # "create"
  <2>1. Loop(bot, "stop", OpenOrders).pc = "loop" /\ Stopped.pc = "stopped"
    BY DEF Loop, NextOrder, Idle, Stopped, Fills, Control, BotFields
  <2>2. DOMAIN Idle("fees") = BotFields
    BY DEF Idle, BotFields
  <2>3. Loop(Idle("fees"), "startup", OpenOrders).pc = "loop"
    BY <2>2 DEF Loop, NextOrder, BotFields
  <2> QED
    BY <2>1, <2>3 DEF Lifecycle, Stop, StoppedCancelAll, Startup
<1> QED
  BY <1>1, <1>2, <1>3, QuietAlone DEF Settles, Kept, StaysDeleted, Resting

LEMMA NoCrashes ==
    ASSUME MaxCrashes = 0, crashes = 0, [Next]_vars
    PROVE  ~Crash /\ crashes' = 0
<1>1. ~Crash
  BY DEF Crash
<1>2. ASSUME Exchange PROVE crashes' = 0
  BY <1>2 DEF Exchange, Fill, CanceledOnExchange
<1>3. ASSUME UpdateStep PROVE crashes' = 0
  BY <1>3 DEF UpdateStep, UpdateOrder, UpdateTradeRow, Updated
<1>4. ASSUME CancelStep PROVE crashes' = 0
  BY <1>4 DEF CancelStep, CancelKeep, CancelOnExchange, CancelRaises, CancelKnown, CancelEnterResult,
              CancelExitResult, Canceled
<1>5. ASSUME PlaceStep PROVE crashes' = 0
  BY <1>5 DEF PlaceStep, PrepareEntry, PrepareExit, CreateRejected, CreateOrder, RecordOrder, Placed
<1>6. ASSUME LoopStep PROVE crashes' = 0
  BY <1>6 DEF LoopStep, LoopFetch, LoopFetchFails, AssumeCanceled, RecoverNext, RecoverEnd, LoopEnd,
              ForceExitEnd
<1>7. ASSUME PhaseStep PROVE crashes' = 0
  BY <1>7 DEF PhaseStep, FeesPhase, ManagePhase, ExitPhase, DecideExit, AdjustPhase, EnterPhase, Skip
<1>8. ASSUME RPC PROVE crashes' = 0
  BY <1>8 DEF RPC, ForceExit, CancelOpenOrder, DeleteTrade, ReloadTrade
<1>9. ASSUME Lifecycle PROVE crashes' = 0
  BY <1>1, <1>9 DEF Lifecycle, Stop, StoppedCancelAll, Startup
<1>10. ASSUME UNCHANGED vars PROVE crashes' = 0
  BY <1>10 DEF vars
<1> QED
  BY <1>1, <1>2, <1>3, <1>4, <1>5, <1>6, <1>7, <1>8, <1>9, <1>10 DEF Next, Bot

LEMMA NextAlone ==
    ASSUME Alone, Fills, Places, ~OrdersLost, ~Crash, [Next]_vars
    PROVE  Alone'
<1>1. CASE UNCHANGED vars
  BY <1>1 DEF vars, Alone, SeenLive, LiveRecorded, Single, NoneLive, HeldBy
<1> QED
  BY <1>1, ExchangeAlone, UpdateAlone, CancelAlone, PlaceAlone, LoopAlone, PhaseAlone,
     CommandAlone, LifecycleAlone DEF Next, Bot

LEMMA AloneIsOne == Alone => OneLiveOrder
<1> SUFFICES ASSUME Alone PROVE Cardinality(Live) <= 1
  BY DEF OneLiveOrder
<1>1. CASE Live = {}
  BY <1>1, FS_EmptySet
<1>2. ASSUME NEW o \in Live PROVE Cardinality(Live) <= 1
  <2>1. Live = {o}
    BY <1>2 DEF Live, Alone, Single
  <2> QED
    BY <2>1, FS_Singleton
<1> QED
  BY <1>1, <1>2

\* A trade never has two live orders on the exchange, through replacement, adjustment,
\* emergency and forced exits and all commands, for any number of orders and any amounts, as
\* long as the process is not killed between an order and its record, and the exchange finds
\* its orders.
THEOREM NeverTwoLiveOrders ==
    ASSUME ~OrdersLost, MaxCrashes = 0 PROVE Spec => []OneLiveOrder
<1> DEFINE Inv == Fills /\ Places /\ Alone /\ crashes = 0
<1>1. Init => Inv
  BY InitFills, InitPlaces, InitAlone DEF Init
<1>2. Inv /\ [Next]_vars => Inv'
  BY NextFills, NextPlaces, NextAlone, NoCrashes
<1>3. Inv => OneLiveOrder
  BY AloneIsOne
<1> QED
  BY <1>1, <1>2, <1>3, PTL DEF Spec

-----------------------------------------------------------------------------
(* TypeOK, for every value of the constants.  The amount of a trade stays a    *)
(* natural number because recalc_trade_from_orders takes over only a sum that  *)
(* is positive, and that sum is an integer.                                    *)

OrderState == [side : {"buy", "sell"}, amount : Nat, filled : Nat, status : Statuses]

TradeRow == [st : {"none", "open", "closed", "deleted"}, amount : Nat, fee : BOOLEAN]

BotTyped(b) ==
    /\ DOMAIN b = BotFields
    /\ b.seen \in [Orders -> OrderRecord]
    /\ b.ord \in Orders /\ b.todo \subseteq Orders /\ b.back.todo \subseteq Orders

Typed ==
    /\ ex \in [Orders -> OrderState]
    /\ db \in [Orders -> OrderRecord]
    /\ trade \in TradeRow
    /\ BotTyped(bot)
    /\ crashes \in 0 .. MaxCrashes /\ torn \in BOOLEAN

LEMMA OrdersFinite == IsFiniteSet(Orders) /\ 1 \in Orders /\ Orders \subseteq Nat
<1>1. Orders = 1 .. MaxOrders /\ MaxOrders \in Nat /\ MaxOrders >= 1
  BY ConstantsAssumption DEF Orders
<1> QED
  BY <1>1, FS_Interval

\* The orders that have been taken for final: what the trade is computed from.
LEMMA NetIsInteger ==
    ASSUME NEW d \in [Orders -> OrderRecord]
    PROVE  NetAmount(d) \in Int
<1> DEFINE S == {o \in Orders : IsFinal(d[o])}
           f == Flow(d)
<1>1. IsFiniteSet(S)
  BY OrdersFinite, FS_Subset
<1>2. \A o \in S : f[o] \in Int
  BY DEF Flow, OrderRecord
<1> HIDE DEF S, f
<1>3. SumFunctionOnSet(f, S) \in Int
  BY <1>1, <1>2, SumIsInteger
<1> QED
  BY <1>3 DEF NetAmount, S, f

LEMMA RecalcTyped ==
    ASSUME NEW t \in TradeRow, NEW d \in [Orders -> OrderRecord]
    PROVE  Recalc(t, d) \in TradeRow
<1>1. NetAmount(d) \in Int
  BY NetIsInteger
<1>2. NetAmount(d) > 0 => NetAmount(d) \in Nat
  BY <1>1
<1> QED
  BY <1>2 DEF Recalc, TradeRow

LEMMA UpdateTyped ==
    ASSUME NEW t \in TradeRow, NEW d \in [Orders -> OrderRecord], NEW o \in Orders, NEW r
    PROVE  UpdateTrade(t, d, o, r) \in TradeRow
<1>1. [t EXCEPT !.amount = d[o].filled] \in TradeRow /\ [t EXCEPT !.st = "closed"] \in TradeRow
  BY DEF TradeRow, OrderRecord
<1> QED
  BY <1>1, RecalcTyped DEF UpdateTrade, Close

LEMMA BotHelpersTyped ==
    ASSUME NEW STATE b, BotTyped(b)
    PROVE  /\ BotTyped(NextOrder(b)) /\ BotTyped(Resume(b))
           /\ \A flow : \A S \in SUBSET Orders : BotTyped(Loop(b, flow, S))
           /\ \A phase : BotTyped(Idle(phase))
           /\ BotTyped(Down) /\ BotTyped(Stopped)
<1>1. Blank \in [Orders -> OrderRecord]
  BY DEF Blank, Nothing, OrderRecord, Statuses
<1>2. BotTyped(NextOrder(b))
  BY <1>1, OrdersFinite DEF NextOrder, BotTyped, BotFields, Blank
<1>3. BotTyped(Resume(b))
  BY <1>1, OrdersFinite DEF NextOrder, Resume, NoLoop, BotTyped, BotFields, Blank
<1>4. \A flow : \A S \in SUBSET Orders : BotTyped(Loop(b, flow, S))
  <2> TAKE flow
  <2> TAKE S \in SUBSET Orders
  <2> DEFINE c == [b EXCEPT !.flow = flow, !.todo = S]
  <2>1. BotTyped(c)
    BY DEF BotTyped, BotFields
  <2>2. BotTyped(NextOrder(c))
    <3> HIDE DEF c
    <3> QED
      BY <1>1, <2>1, OrdersFinite DEF NextOrder, BotTyped, BotFields, Blank
  <2> QED
    BY <2>2 DEF Loop
<1>5. \A phase : BotTyped(Idle(phase))
  BY <1>1, OrdersFinite DEF Idle, NoLoop, BotTyped, BotFields, Blank
<1>6. BotTyped(Down) /\ BotTyped(Stopped)
  BY <1>1, OrdersFinite DEF Down, Stopped, Idle, NoLoop, BotTyped, BotFields, Blank
<1> QED
  BY <1>2, <1>3, <1>4, <1>5, <1>6

LEMMA InitTyped == Init => Typed
<1>1. BotTyped(Idle("fees"))
  BY OrdersFinite DEF Idle, NoLoop, BotTyped, BotFields, Nothing, OrderRecord, Statuses
<1>2. Init => ex \in [Orders -> OrderState]
  BY DEF Init, OrderState, Statuses
<1>3. Init => db \in [Orders -> OrderRecord] /\ trade \in TradeRow
  BY DEF Init, OrderRecord, Statuses, Nothing, NoTrade, TradeRow
<1>4. MaxCrashes \in Nat
  BY ConstantsAssumption
<1>5. crashes = 0 => crashes \in 0 .. MaxCrashes
  BY <1>4
<1> QED
  BY <1>1, <1>2, <1>3, <1>5 DEF Init, Typed

LEMMA ViewTyped ==
    ASSUME NEW e \in [Orders -> OrderState], NEW o \in Orders
    PROVE  ViewIn(e, o) \in OrderRecord
BY DEF ViewIn, OrderState, OrderRecord

\* A deletion leaves typed records.
LEMMA DeleteTyped == Delete => trade' \in TradeRow /\ db' \in [Orders -> OrderRecord]
<1>1. Nothing \in OrderRecord
  BY DEF Nothing, OrderRecord, Statuses
<1>2. [NoTrade EXCEPT !.st = "deleted"] \in TradeRow
  BY DEF NoTrade, TradeRow
<1> QED
  BY <1>1, <1>2 DEF Delete

LEMMA ExchangeTypes == ASSUME Typed, Exchange PROVE Typed'
<1>1. ASSUME NEW o \in Orders, Fill(o) PROVE ex' \in [Orders -> OrderState]
  <2> DEFINE r == [ex[o] EXCEPT !.filled = @ + 1,
                                !.status = IF ex[o].filled + 1 = ex[o].amount
                                           THEN "closed" ELSE "open"]
  <2>1. r \in OrderState
    <3>1. ex[o] \in OrderState
      BY DEF Typed
    <3>2. ex[o].filled + 1 \in Nat
      BY <3>1 DEF OrderState
    <3>3. {"closed", "open"} \subseteq Statuses
      BY DEF Statuses
    <3> QED
      BY <3>1, <3>2, <3>3 DEF OrderState
  <2>2. ex' = [ex EXCEPT ![o] = r]
    BY <1>1 DEF Fill, Typed, OrderState
  <2> HIDE DEF r
  <2> QED
    BY <2>1, <2>2 DEF Typed
<1>2. ASSUME NEW o \in Orders, CanceledOnExchange(o) PROVE ex' \in [Orders -> OrderState]
  BY <1>2 DEF Typed, CanceledOnExchange, OrderState, Statuses
<1>3. UNCHANGED <<db, trade, bot, crashes, torn>>
  BY DEF Exchange, Fill, CanceledOnExchange
<1> QED
  BY <1>1, <1>2, <1>3 DEF Exchange, Typed, BotTyped

LEMMA UpdateTypes == ASSUME Typed, UpdateStep PROVE Typed'
<1>1. CASE UpdateOrder
  <2>1. db' \in [Orders -> OrderRecord]
    BY <1>1 DEF Typed, BotTyped, UpdateOrder
  <2>2. BotTyped(bot')
    BY <1>1 DEF Typed, BotTyped, UpdateOrder, BotFields
  <2> QED
    BY <1>1, <2>1, <2>2 DEF Typed, UpdateOrder
<1>2. CASE UpdateTradeRow
  <2>1. BotTyped(bot')
    BY <1>2 DEF Typed, BotTyped, UpdateTradeRow, BotFields
  <2> DEFINE t == UpdateTrade(trade, db, bot.ord, Recalculating)
             reset == ~Recalculating /\ Cardinality(FilledOrders("buy")) > 1
  <2>2. t \in TradeRow
    BY UpdateTyped DEF Typed, BotTyped
  <2>3. \/ UNCHANGED <<trade, torn>>
        \/ torn' = FALSE /\ (trade' = t \/ \E found : trade' = [t EXCEPT !.fee = found /\ ~reset])
    BY <1>2 DEF UpdateTradeRow
  <2> HIDE DEF t
  <2>4. trade' \in TradeRow /\ torn' \in BOOLEAN
    BY <2>2, <2>3 DEF Typed, TradeRow
  <2> QED
    BY <1>2, <2>1, <2>4 DEF Typed, UpdateTradeRow
<1>3. CASE Updated
  <2>1. BotTyped(NextOrder(bot)) /\ \A phase : BotTyped(Idle(phase))
    BY BotHelpersTyped DEF Typed
  <2>2. BotTyped(bot')
    BY <1>3, <2>1 DEF Updated, Typed, BotTyped, BotFields
  <2> QED
    BY <1>3, <2>2 DEF Typed, Updated
<1> QED
  BY <1>1, <1>2, <1>3 DEF UpdateStep

LEMMA CancelTypes == ASSUME Typed, CancelStep PROVE Typed'
<1>1. UNCHANGED <<crashes, torn>>
  BY DEF CancelStep, CancelKeep, CancelOnExchange, CancelRaises, CancelKnown, CancelEnterResult,
         CancelExitResult, Canceled
<1>2. trade' \in TradeRow /\ db' \in [Orders -> OrderRecord]
  <2>1. UNCHANGED <<db, trade>> \/ Delete
    BY DEF CancelStep, CancelKeep, CancelOnExchange, CancelRaises, CancelKnown, CancelEnterResult,
           CancelExitResult, Canceled, ReplaceFailed
  <2> QED
    BY <2>1, DeleteTyped DEF Typed
<1>3. ex' \in [Orders -> OrderState]
  <2>1. UNCHANGED ex \/ RequestCancel
    BY DEF CancelStep, CancelKeep, CancelOnExchange, CancelRaises, CancelKnown, CancelEnterResult,
           CancelExitResult, Canceled
  <2> QED
    BY <2>1 DEF RequestCancel, Typed, OrderState, Statuses
<1>4. /\ BotTyped(NextOrder(bot)) /\ BotTyped(Down) /\ \A phase : BotTyped(Idle(phase))
  BY BotHelpersTyped DEF Typed
<1>5. BotTyped(bot')
  <2>1. CASE CancelKeep \/ CancelKnown \/ CancelEnterResult \/ CancelExitResult
    BY <2>1 DEF CancelKeep, CancelKnown, CancelEnterResult, CancelExitResult, Typed, BotTyped, BotFields
  <2>2. CASE CancelOnExchange
    <3>1. CancelAnswer(bot.ord) \in OrderRecord
      BY <1>3, ViewTyped DEF CancelAnswer, Typed, BotTyped
    <3> QED
      BY <2>2, <3>1 DEF CancelOnExchange, Typed, BotTyped, BotFields
  <2>3. CASE CancelRaises
    <3>1. BotTyped([bot EXCEPT !.pc = "placed", !.ret = FALSE])
      BY DEF Typed, BotTyped, BotFields
    <3> QED
      BY <1>4, <2>3, <3>1 DEF CancelRaises
  <2>4. CASE Canceled
    <3> DEFINE next == NextOrder(bot)
    <3>1. BotTyped(next)
      BY <1>4
    <3>2. \/ \E goal, amt, sake : Place(goal, amt, sake)
          \/ bot' = next \/ \E goal : bot' = [next EXCEPT !.goal = goal]
      BY <2>4 DEF Canceled
    <3> HIDE DEF next
    <3>3. ASSUME NEW goal, NEW amt, NEW sake, Place(goal, amt, sake) PROVE BotTyped(bot')
      BY <3>3 DEF Place, Typed, BotTyped, BotFields
    <3>4. ASSUME NEW goal, bot' = [next EXCEPT !.goal = goal] PROVE BotTyped(bot')
      BY <3>1, <3>4 DEF BotTyped, BotFields
    <3> QED
      BY <3>1, <3>2, <3>3, <3>4
  <2> QED
    BY <2>1, <2>2, <2>3, <2>4 DEF CancelStep
<1> QED
  BY <1>1, <1>2, <1>3, <1>5 DEF Typed

LEMMA PlaceTypes == ASSUME Typed, PlaceStep PROVE Typed'
<1>1. CASE PrepareEntry \/ PrepareExit \/ CreateRejected
  <2>1. \/ NotPlaced
        \/ \E amt : bot' = [bot EXCEPT !.pc = "create", !.amt = amt]
        \/ \E amt : bot' = [Loop(bot, "similar", OpenOrders) EXCEPT !.amt = amt]
    BY <1>1 DEF PrepareEntry, PrepareExit, CreateRejected, ClearTheWay
  <2> DEFINE c == Loop(bot, "similar", OpenOrders)
  <2>2. OpenOrders \in SUBSET Orders
    BY DEF OpenOrders
  <2>3. BotTyped(c)
    BY <2>2, BotHelpersTyped DEF Typed
  <2> HIDE DEF c
  <2>4. ASSUME NEW amt, bot' = [c EXCEPT !.amt = amt] PROVE BotTyped(bot')
    BY <2>3, <2>4 DEF BotTyped, BotFields
  <2>5. ASSUME NotPlaced \/ \E amt : bot' = [bot EXCEPT !.pc = "create", !.amt = amt]
        PROVE  BotTyped(bot')
    BY <2>5 DEF NotPlaced, Typed, BotTyped, BotFields
  <2>6. BotTyped(bot')
    BY <2>1, <2>4, <2>5 DEF c
  <2> QED
    BY <1>1, <2>6 DEF Typed, PrepareEntry, PrepareExit, CreateRejected
<1>2. CASE CreateOrder
  <2>1. PICK n \in Orders, filled \in {0, bot.amt} :
          /\ ex' = [ex EXCEPT ![n] =
                      [side   |-> IF bot.goal = "entry" THEN "buy" ELSE "sell",
                       amount |-> bot.amt, filled |-> filled,
                       status |-> IF filled = 0 THEN "open" ELSE "closed"]]
          /\ bot' = [bot EXCEPT !.pc = "record", !.flow = "placed",
                                !.ord = n, !.seen[n] = ViewIn(ex', n)]
    BY <1>2 DEF CreateOrder
  <2>2. bot.amt \in Nat
    BY <1>2 DEF CreateOrder
  <2>3. ex' \in [Orders -> OrderState]
    BY <2>1, <2>2 DEF Typed, OrderState, Statuses
  <2>4. ViewIn(ex', n) \in OrderRecord
    BY <2>3, ViewTyped
  <2>5. BotTyped(bot')
    BY <2>1, <2>4 DEF Typed, BotTyped, BotFields
  <2> QED
    BY <1>2, <2>3, <2>5 DEF Typed, CreateOrder
<1>3. CASE RecordOrder
  <2>1. db' \in [Orders -> OrderRecord]
    BY <1>3 DEF Typed, BotTyped, RecordOrder
  <2>2. BotTyped(bot')
    BY <1>3 DEF Typed, BotTyped, RecordOrder, BotFields
  <2>3. [trade EXCEPT !.st = "open"] \in TradeRow
    BY DEF Typed, TradeRow
  <2>4. trade' \in TradeRow /\ torn' \in BOOLEAN
    BY <1>3, <2>1, <2>3, RecalcTyped DEF Typed, RecordOrder
  <2> QED
    BY <1>3, <2>1, <2>2, <2>4 DEF Typed, RecordOrder
<1>4. CASE Placed
  <2>1. BotTyped(Resume(bot)) /\ \A phase : BotTyped(Idle(phase))
    BY BotHelpersTyped DEF Typed
  <2>2. BotTyped(bot') /\ UNCHANGED <<ex, crashes, torn>> /\ (UNCHANGED <<db, trade>> \/ Delete)
    BY <1>4, <2>1 DEF Placed, ReplaceFailed
  <2> QED
    BY <2>2, DeleteTyped DEF Typed
<1> QED
  BY <1>1, <1>2, <1>3, <1>4 DEF PlaceStep

LEMMA LoopTypes == ASSUME Typed, LoopStep PROVE Typed'
<1>1. UNCHANGED <<ex, crashes, torn>> /\ (UNCHANGED <<db, trade>> \/ Delete)
  BY DEF LoopStep, LoopFetch, LoopFetchFails, AssumeCanceled, RecoverNext, RecoverEnd, LoopEnd,
         ForceExitEnd
<1>2. /\ BotTyped(NextOrder(bot)) /\ BotTyped(Stopped) /\ \A phase : BotTyped(Idle(phase))
  BY BotHelpersTyped DEF Typed
<1>3. ASSUME NEW S \in SUBSET Orders, S # {} PROVE Min(S) \in S /\ Min(S) \in Orders
  BY <1>3, SmallestIsMember, OrdersFinite
<1>4. Left \in SUBSET Orders /\ bot.todo \in SUBSET Orders
  BY DEF Left, Recorded, Typed, BotTyped
<1>5. BotTyped(bot')
  <2>1. CASE LoopFetch
    <3> DEFINE o == Min(Left)
    <3>1. o \in Orders /\ View(o) \in OrderRecord
      BY <1>3, <1>4, <2>1, ViewTyped DEF LoopFetch, View, Typed
    <3>2. \E pc, why : bot' = [bot EXCEPT !.pc = pc, !.ord = o, !.todo = @ \ {o}, !.seen[o] = View(o), !.why = why]
      BY <2>1 DEF LoopFetch
    <3> HIDE DEF o
    <3> QED
      BY <3>1, <3>2 DEF Typed, BotTyped, BotFields
  <2>2. CASE LoopFetchFails
    <3> DEFINE b == [bot EXCEPT !.todo = @ \ {Min(Left)}]
    <3>1. BotTyped(b)
      BY DEF Typed, BotTyped, BotFields
    <3>2. BotTyped(NextOrder(b))
      <4> HIDE DEF b
      <4> QED
        BY <3>1, BotHelpersTyped
    <3> QED
      BY <1>2, <2>2, <3>2 DEF LoopFetchFails
  <2>3. CASE AssumeCanceled
    <3> DEFINE o == Min(Left)
    <3>1. o \in Orders
      BY <1>3, <1>4, <2>3 DEF AssumeCanceled
    <3>2. \E pc, why : bot' = [bot EXCEPT !.pc = pc, !.ord = o, !.todo = @ \ {o}, !.why = why, !.seen[o] = LostOrder(o)]
      BY <2>3 DEF AssumeCanceled
    <3> HIDE DEF o
    <3>3. LostOrder(o) \in OrderRecord
      BY <3>1 DEF LostOrder, OrderRecord, Statuses, Typed
    <3> QED
      BY <3>1, <3>2, <3>3 DEF Typed, BotTyped, BotFields
  <2>4. CASE RecoverNext
    <3> DEFINE o == Min(bot.todo)
    <3>1. o \in Orders
      BY <1>3, <1>4, <2>4 DEF RecoverNext
    <3>2. bot' = [bot EXCEPT !.pc = "update_order", !.ord = o, !.todo = @ \ {o}]
      BY <2>4 DEF RecoverNext
    <3> HIDE DEF o
    <3> QED
      BY <3>1, <3>2 DEF Typed, BotTyped, BotFields
  <2>5. CASE RecoverEnd
    <3>1. bot' = [Idle("exit") EXCEPT !.pc = "decide"] \/ \E phase : bot' = Idle(phase)
      BY <2>5 DEF RecoverEnd
    <3> QED
      BY <1>2, <3>1 DEF BotTyped, BotFields
  <2>6. CASE LoopEnd \/ ForceExitEnd
    <3>1. \/ \E phase : bot' = Idle(phase)
          \/ bot' = Stopped
          \/ bot' = [bot EXCEPT !.pc = "create"]
          \/ bot' = [bot EXCEPT !.pc = "placed", !.ret = FALSE]
          \/ \E amt : bot' = [bot EXCEPT !.pc = "exit", !.amt = amt]
      BY <2>6 DEF LoopEnd, ForceExitEnd
    <3> QED
      BY <1>2, <3>1 DEF Typed, BotTyped, BotFields
  <2> QED
    BY <2>1, <2>2, <2>3, <2>4, <2>5, <2>6 DEF LoopStep
<1> QED
  BY <1>1, <1>5, DeleteTyped DEF Typed

LEMMA RecoverTyped ==
    ASSUME Typed, NEW STATE b, BotTyped(b), Recover(b)
    PROVE  BotTyped(bot')
<1> DEFINE S == {o \in Orders : ex[o].status # "none"}
           c == Loop(b, "recover", S)
<1>1. BotTyped(c)
  BY BotHelpersTyped
<1>2. [o \in Orders |-> View(o)] \in [Orders -> OrderRecord]
  BY ViewTyped DEF View, Typed
<1>3. bot' = [c EXCEPT !.seen = [o \in Orders |-> View(o)]]
  BY DEF Recover
<1> HIDE DEF c
<1> QED
  BY <1>1, <1>2, <1>3 DEF BotTyped, BotFields

LEMMA PhaseTypes == ASSUME Typed, PhaseStep PROVE Typed'
<1>1. UNCHANGED <<ex, db, trade, crashes, torn>>
  BY DEF PhaseStep, FeesPhase, ManagePhase, ExitPhase, DecideExit, AdjustPhase, EnterPhase, Skip
<1>2. \A phase : BotTyped(Idle(phase))
  BY BotHelpersTyped DEF Typed
<1>3. OpenOrders \in SUBSET Orders
  BY DEF OpenOrders
<1>4. BotTyped(Loop(bot, "manage", OpenOrders))
  BY <1>3, BotHelpersTyped DEF Typed
<1>5. \A phase : Skip(phase) => BotTyped(bot')
  BY <1>2 DEF Skip
<1>6. ASSUME NEW pc, NEW goal, NEW amt, NEW sake
      PROVE  BotTyped([bot EXCEPT !.pc = pc, !.goal = goal, !.amt = amt, !.sake = sake])
  BY DEF Typed, BotTyped, BotFields
<1>7. CASE FeesPhase
  <2>1. ASSUME NEW o \in FeeOrder,
               bot' = [bot EXCEPT !.pc = "update_order", !.flow = "fees", !.ord = o, !.seen[o] = View(o)]
        PROVE  BotTyped(bot')
    <3>1. o \in Orders
      BY DEF FeeOrder, FilledOrders
    <3>2. View(o) \in OrderRecord
      BY <3>1, ViewTyped DEF View, Typed
    <3> QED
      BY <2>1, <3>1, <3>2 DEF Typed, BotTyped, BotFields
  <2> QED
    BY <1>1, <1>5, <1>7, <2>1 DEF FeesPhase, Typed
<1>8. CASE ManagePhase
  BY <1>1, <1>4, <1>5, <1>8 DEF ManagePhase, Typed
<1>9. CASE ExitPhase
  <2> DEFINE b == [bot EXCEPT !.sake = "exit"]
  <2>1. BotTyped(b)
    BY DEF Typed, BotTyped, BotFields
  <2>2. Recover(b) => BotTyped(bot')
    BY <2>1, RecoverTyped
  <2>3. bot' = [bot EXCEPT !.pc = "decide"] => BotTyped(bot')
    BY DEF Typed, BotTyped, BotFields
  <2> HIDE DEF b
  <2>4. BotTyped(bot')
    BY <1>5, <1>9, <2>2, <2>3 DEF ExitPhase, b
  <2> QED
    BY <1>1, <2>4 DEF Typed
<1>10. CASE DecideExit
  <2>1. bot' = [bot EXCEPT !.pc = "exit", !.goal = "exit", !.sake = "exit"] => BotTyped(bot')
    BY DEF Typed, BotTyped, BotFields
  <2> QED
    BY <1>1, <1>2, <1>10, <2>1 DEF DecideExit, Typed
<1>11. CASE AdjustPhase
  <2>1. BotTyped(bot')
    <3>1. BotTyped([bot EXCEPT !.pc = "entry", !.goal = "entry",
                                 !.amt = AdjustAmount, !.sake = "adjust"])
      BY <1>6
    <3>2. \A part : BotTyped([bot EXCEPT !.pc = "exit", !.goal = "exit",
                                           !.amt = part, !.sake = "adjust"])
      BY <1>6
    <3> QED
      BY <1>5, <1>11, <3>1, <3>2 DEF AdjustPhase
  <2> QED
    BY <1>1, <2>1 DEF Typed
<1>12. CASE EnterPhase
  <2>1. BotTyped(bot')
    <3>1. BotTyped([bot EXCEPT !.pc = "create", !.goal = "entry",
                                 !.amt = EntryAmount, !.sake = "enter"])
      BY <1>6
    <3> QED
      BY <1>5, <1>12, <3>1 DEF EnterPhase
  <2> QED
    BY <1>1, <2>1 DEF Typed
<1> QED
  BY <1>7, <1>8, <1>9, <1>10, <1>11, <1>12 DEF PhaseStep

LEMMA CommandTypes == ASSUME Typed, RPC PROVE Typed'
<1>1. OpenOrders \in SUBSET Orders
  BY DEF OpenOrders
<1>2. \A flow : BotTyped(Loop(bot, flow, OpenOrders))
  BY <1>1, BotHelpersTyped DEF Typed
<1>3. CASE ForceExit \/ CancelOpenOrder
  <2> DEFINE c == Loop(bot, "forceexit", OpenOrders)
  <2>1. BotTyped(c)
    BY <1>2
  <2> HIDE DEF c
  <2>2. bot' = [c EXCEPT !.goal = "exit", !.sake = "forceexit"] => BotTyped(bot')
    BY <2>1 DEF BotTyped, BotFields
  <2> QED
    BY <1>2, <1>3, <2>2 DEF ForceExit, CancelOpenOrder, Typed, c
<1>4. CASE DeleteTrade
  <2>1. ex' \in [Orders -> OrderState]
    BY <1>4 DEF DeleteTrade, Typed, OrderState, Statuses
  <2> QED
    BY <1>4, <2>1, DeleteTyped DEF DeleteTrade, Typed
<1>5. CASE ReloadTrade
  BY <1>5, RecoverTyped DEF ReloadTrade, Typed
<1> QED
  BY <1>3, <1>4, <1>5 DEF RPC

LEMMA LifecycleTypes == ASSUME Typed, Lifecycle PROVE Typed'
<1>1. OpenOrders \in SUBSET Orders
  BY DEF OpenOrders
<1>2. /\ BotTyped(Loop(bot, "stop", OpenOrders)) /\ BotTyped(Down) /\ BotTyped(Stopped)
      /\ BotTyped(Idle("fees"))
  BY <1>1, BotHelpersTyped DEF Typed
<1>3. BotTyped(Loop(Idle("fees"), "startup", OpenOrders))
  BY <1>1, <1>2, BotHelpersTyped
<1>4. BotTyped(bot')
  BY <1>2, <1>3 DEF Lifecycle, Stop, StoppedCancelAll, Startup, Crash
<1>5. MaxCrashes \in Nat
  BY ConstantsAssumption
<1>6. UNCHANGED <<ex, db, trade>> /\ crashes' \in 0 .. MaxCrashes
  BY <1>5 DEF Typed, Lifecycle, Stop, StoppedCancelAll, Startup, Crash
<1>7. torn' \in BOOLEAN
  BY DEF Typed, Lifecycle, Stop, StoppedCancelAll, Startup, Crash
<1> QED
  BY <1>4, <1>6, <1>7 DEF Typed

LEMMA NextTyped == ASSUME Typed, [Next]_vars PROVE Typed'
<1>1. CASE UNCHANGED vars
  BY <1>1 DEF vars, Typed
<1> QED
  BY <1>1, ExchangeTypes, UpdateTypes, CancelTypes, PlaceTypes, LoopTypes, PhaseTypes,
     CommandTypes, LifecycleTypes DEF Next, Bot

\* Every record keeps its type, for any number of orders, any amounts and any crashes, and a
\* trade that does not exist has no orders (Trade.delete, recalc_trade_from_orders).
THEOREM RecordsTyped == Spec => []TypeOK
<1> DEFINE Inv == Fills /\ Places /\ Typed
<1>1. Init => Inv
  BY InitFills, InitPlaces, InitTyped
<1>2. Inv /\ [Next]_vars => Inv'
  BY NextFills, NextPlaces, NextTyped
<1>3. Inv => TypeOK
  BY DEF TypeOK, Typed, BotTyped, OrderState, TradeRow, Places, NoRecords, Recorded, Nothing
<1> QED
  BY <1>1, <1>2, <1>3, PTL DEF Spec

-----------------------------------------------------------------------------
(* The sums of the records.  NetAmount adds up the orders that are recorded as *)
(* final; taken over all orders, with nothing for the others, a step changes   *)
(* at most one term of it.                                                     *)

LEMMA SumOfPart ==
    ASSUME NEW S, IsFiniteSet(S), NEW R \in SUBSET S, NEW f, NEW g,
           \A x \in S : f[x] \in Int /\ g[x] = IF x \in R THEN f[x] ELSE 0
    PROVE  SumFunctionOnSet(f, R) = SumFunctionOnSet(g, S)
<1> DEFINE Same == {Q \in SUBSET S : SumFunctionOnSet(f, Q \cap R) = SumFunctionOnSet(g, Q)}
<1>1. ASSUME NEW Q \in SUBSET S, \A x \in Q : Q \ {x} \in Same PROVE Q \in Same
  <2>1. CASE Q = {}
    <3>1. Q \cap R = {}
      BY <2>1
    <3> QED
      BY <2>1, <3>1, SumOfNothing
  <2>2. CASE Q # {}
    <3>1. PICK x \in Q : TRUE
      BY <2>2
    <3>2. IsFiniteSet(Q) /\ IsFiniteSet(Q \cap R)
      BY FS_Subset
    <3>3. \A y \in Q : g[y] \in Int /\ f[y] \in Int
      OBVIOUS
    <3>4. SumFunctionOnSet(g, Q) = g[x] + SumFunctionOnSet(g, Q \ {x})
      BY <3>2, <3>3, SumTakesAny
    <3>5. SumFunctionOnSet(f, (Q \ {x}) \cap R) = SumFunctionOnSet(g, Q \ {x})
      BY <1>1
    <3>6. CASE x \in R
      <4>1. (Q \ {x}) \cap R = (Q \cap R) \ {x} /\ x \in Q \cap R
        BY <3>6
      <4>2. SumFunctionOnSet(f, Q \cap R) = f[x] + SumFunctionOnSet(f, (Q \cap R) \ {x})
        BY <3>2, <3>3, <4>1, SumTakesAny
      <4> QED
        BY <3>4, <3>5, <3>6, <4>1, <4>2
    <3>7. CASE x \notin R
      <4>1. (Q \ {x}) \cap R = Q \cap R
        BY <3>7
      <4>2. IsFiniteSet(Q \ {x}) /\ \A y \in Q \ {x} : g[y] \in Int
        BY <3>2, <3>3, FS_Subset
      <4>3. SumFunctionOnSet(g, Q \ {x}) \in Int
        BY <4>2, SumIsInteger
      <4>4. g[x] = 0
        BY <3>7
      <4>5. SumFunctionOnSet(g, Q) = SumFunctionOnSet(g, Q \ {x})
        BY <3>4, <4>3, <4>4
      <4> QED
        BY <3>5, <4>1, <4>5
    <3> QED
      BY <3>6, <3>7
  <2> QED
    BY <2>1, <2>2
<1>2. SUBSET S \subseteq Same
  <2> HIDE DEF Same
  <2> QED
    BY <1>1, BySize
<1>3. S \in Same /\ S \cap R = R
  BY <1>2
<1> QED
  BY <1>3

\* What a recorded order adds to the sum, with the sides of e.
Share(e, d, o) ==
    IF ~IsFinal(d[o]) THEN 0 ELSE IF e[o].side = "buy" THEN d[o].filled ELSE -d[o].filled

Shares(e, d) == [o \in Orders |-> Share(e, d, o)]

Total(e, d) == SumFunctionOnSet(Shares(e, d), Orders)

\* NetAmount, with the sides of e.
NetOf(e, d) ==
    SumFunctionOnSet([o \in Orders |-> IF e[o].side = "buy" THEN d[o].filled ELSE -d[o].filled],
                     {o \in Orders : IsFinal(d[o])})

LEMMA NetIsTotal ==
    ASSUME NEW e, NEW d, d \in [Orders -> OrderRecord]
    PROVE  NetOf(e, d) = Total(e, d)
<1> DEFINE f == [o \in Orders |-> IF e[o].side = "buy" THEN d[o].filled ELSE -d[o].filled]
           R == {o \in Orders : IsFinal(d[o])}
           g == Shares(e, d)
<1>1. \A o \in Orders : f[o] \in Int /\ g[o] = IF o \in R THEN f[o] ELSE 0
  BY DEF OrderRecord, Shares, Share
<1>2. IsFiniteSet(Orders) /\ R \in SUBSET Orders
  BY OrdersFinite
<1>3. NetOf(e, d) = SumFunctionOnSet(f, R) /\ Total(e, d) = SumFunctionOnSet(g, Orders)
  BY DEF NetOf, Total
<1> HIDE DEF f, g, R
<1>4. SumFunctionOnSet(f, R) = SumFunctionOnSet(g, Orders)
  BY <1>1, <1>2, SumOfPart
<1> QED
  BY <1>3, <1>4

LEMMA SharesAreIntegers ==
    ASSUME NEW e, NEW d, d \in [Orders -> OrderRecord]
    PROVE  /\ \A o \in Orders : Shares(e, d)[o] = Share(e, d, o) /\ Share(e, d, o) \in Int
           /\ Total(e, d) \in Int
<1>1. \A o \in Orders : Shares(e, d)[o] = Share(e, d, o) /\ Share(e, d, o) \in Int
  BY DEF Shares, Share, OrderRecord
<1> QED
  BY <1>1, OrdersFinite, SumIsInteger DEF Total

LEMMA NetNow == ASSUME Typed PROVE NetAmount(db) = Total(ex, db) /\ NetAmount(db) \in Int
<1>1. NetAmount(db) = NetOf(ex, db)
  BY DEF NetAmount, NetOf, Flow, IsEntry
<1> QED
  BY <1>1, NetIsTotal, NetIsInteger DEF Typed

LEMMA NetThen == ASSUME Typed' PROVE NetAmount(db)' = Total(ex', db') /\ NetAmount(db)' \in Int
<1>1. NetAmount(db)' = NetOf(ex', db')
  BY DEF NetAmount, NetOf, Flow, IsEntry
<1>2. db' \in [Orders -> OrderRecord]
  BY DEF Typed
<1>3. NetOf(ex', db') = Total(ex', db')
  BY <1>2, NetIsTotal
<1>4. Total(ex', db') \in Int
  BY <1>2, SharesAreIntegers
<1> QED
  BY <1>1, <1>3, <1>4

\* The sum stays if no order's share changes.
LEMMA TotalStays ==
    ASSUME NEW e, NEW d, NEW e2, NEW d2, d \in [Orders -> OrderRecord],
           \A o \in Orders : Share(e2, d2, o) = Share(e, d, o)
    PROVE  Total(e2, d2) = Total(e, d)
<1> DEFINE f == Shares(e, d)
           g == Shares(e2, d2)
<1>1. \A o \in Orders : f[o] = g[o]
  BY DEF Shares
<1>2. Total(e, d) = SumFunctionOnSet(f, Orders) /\ Total(e2, d2) = SumFunctionOnSet(g, Orders)
  BY DEF Total
<1> HIDE DEF f, g
<1> QED
  BY <1>1, <1>2, OrdersFinite, SumSame

LEMMA TotalChangesOne ==
    ASSUME NEW e, NEW d, NEW e2, NEW d2, NEW p \in Orders,
           d \in [Orders -> OrderRecord], d2 \in [Orders -> OrderRecord],
           \A o \in Orders \ {p} : Share(e2, d2, o) = Share(e, d, o)
    PROVE  Total(e2, d2) = Total(e, d) - Share(e, d, p) + Share(e2, d2, p)
<1> DEFINE f == Shares(e, d)
           g == Shares(e2, d2)
<1>1. \A o \in Orders : f[o] \in Int /\ g[o] \in Int
  BY SharesAreIntegers
<1>2. \A o \in Orders \ {p} : f[o] = g[o]
  BY DEF Shares
<1>5. f[p] = Share(e, d, p) /\ g[p] = Share(e2, d2, p)
  BY DEF Shares
<1>3. Total(e, d) = SumFunctionOnSet(f, Orders) /\ Total(e2, d2) = SumFunctionOnSet(g, Orders)
  BY DEF Total
<1> HIDE DEF f, g
<1>4. SumFunctionOnSet(g, Orders) = SumFunctionOnSet(f, Orders) - f[p] + g[p]
  <2>1. IsFiniteSet(Orders)
    BY OrdersFinite
  <2> QED
    BY <1>1, <1>2, <2>1, SumChangesOne
<1> QED
  BY <1>3, <1>4, <1>5

\* A positive sum has a filled entry in it.
LEMMA PositiveTotal ==
    ASSUME NEW e, NEW d, d \in [Orders -> OrderRecord], Total(e, d) > 0
    PROVE  \E o \in Orders : Share(e, d, o) > 0
<1>1. SUFFICES ASSUME \A o \in Orders : ~(Share(e, d, o) > 0) PROVE FALSE
  OBVIOUS
<1> DEFINE f == [o \in Orders |-> -Shares(e, d)[o]]
           g == Shares(e, d)
<1>2. \A o \in Orders : f[o] \in Nat /\ g[o] \in Int /\ f[o] = -g[o]
  BY <1>1, SharesAreIntegers
<1>3. Total(e, d) = SumFunctionOnSet(g, Orders)
  BY DEF Total
<1> DEFINE Opposite == {Q \in SUBSET Orders : SumFunctionOnSet(g, Q) = -SumFunctionOnSet(f, Q)}
<1> HIDE DEF f, g
<1>4. ASSUME NEW Q \in SUBSET Orders, \A x \in Q : Q \ {x} \in Opposite PROVE Q \in Opposite
  <2>1. CASE Q = {}
    BY <2>1, SumOfNothing
  <2>2. CASE Q # {}
    <3>1. PICK x \in Q : TRUE
      BY <2>2
    <3>2. IsFiniteSet(Q) /\ IsFiniteSet(Q \ {x})
      BY OrdersFinite, FS_Subset
    <3>6. \A y \in Q : f[y] \in Int /\ g[y] \in Int
      BY <1>2
    <3>3. /\ SumFunctionOnSet(f, Q) = f[x] + SumFunctionOnSet(f, Q \ {x})
          /\ SumFunctionOnSet(g, Q) = g[x] + SumFunctionOnSet(g, Q \ {x})
      BY <3>2, <3>6, SumTakesAny
    <3>4. SumFunctionOnSet(f, Q \ {x}) \in Int
      BY <3>2, <3>6, SumIsInteger
    <3>5. SumFunctionOnSet(g, Q \ {x}) = -SumFunctionOnSet(f, Q \ {x})
      BY <1>4
    <3> QED
      <4>1. f[x] = -g[x] /\ f[x] \in Int /\ g[x] \in Int
        BY <1>2
      <4>2. SumFunctionOnSet(g, Q) = -SumFunctionOnSet(f, Q)
        BY <3>3, <3>4, <3>5, <4>1
      <4> QED
        BY <4>2
  <2> QED
    BY <2>1, <2>2
<1>5. SUBSET Orders \subseteq Opposite
  <2> HIDE DEF Opposite
  <2> QED
    BY <1>4, OrdersFinite, BySize
<1>6. SumFunctionOnSet(g, Orders) = -SumFunctionOnSet(f, Orders)
  BY <1>5
<1>7. SumFunctionOnSet(f, Orders) \in Nat
  BY <1>2, OrdersFinite, SumOfNaturals
<1> QED
  BY <1>3, <1>6, <1>7

-----------------------------------------------------------------------------
(* From where to where a step takes the bot, and what it does to the copies    *)
(* in hand.                                                                    *)

\* The bot takes an order in hand as the exchange has it.
Looks ==
    /\ UNCHANGED db
    /\ \E o \in Orders : Fetches(o, [status |-> ex'[o].status, filled |-> ex'[o].filled])

\* Every step but the answer "not found" is one of four kinds.
LEMMA StepKinds ==
    ASSUME Fills, Places, ~OrdersLost, Next
    PROVE  \/ Quiet(bot, bot') /\ Kept
           \/ Looks
           \/ FetchesAll /\ UNCHANGED <<ex, db>>
           \/ UpdateOrder \/ RecordOrder
<1> USE DEF Fills
<1>1. CASE Exchange
  <2>1. UNCHANGED <<db, bot>>
    BY <1>1 DEF Exchange, Fill, CanceledOnExchange
  <2> QED
    BY <2>1 DEF Quiet, Control, HeldBy, Kept
<1>2. CASE UpdateStep
  BY <1>2, UpdateQuiet DEF UpdateStep, Kept
<1>3. CASE CancelStep
  <2>1. CASE CancelOnExchange
    <3>1. bot.ord \in Orders
      BY <2>1 DEF CancelOnExchange, RequestCancel, Places, Course, Canceling, CancelFlows
    <3>2. UNCHANGED db
      BY <2>1 DEF CancelOnExchange
    <3>3. Fetches(bot.ord, [status |-> ex'[bot.ord].status, filled |-> ex'[bot.ord].filled])
      BY <2>1, RequestFetches
    <3> QED
      BY <3>1, <3>2, <3>3 DEF Looks
  <2>2. Kept
    BY <1>3 DEF CancelStep, CancelKeep, CancelOnExchange, CancelRaises, CancelKnown, CancelEnterResult,
                CancelExitResult, Canceled, ReplaceFailed, Kept
  <2> QED
    BY <1>3, <2>1, <2>2, CancelQuiet
<1>4. CASE PlaceStep
  <2>1. CASE CreateOrder
    <3>1. PICK n \in Orders : bot' = [bot EXCEPT !.pc = "record", !.flow = "placed",
                                                 !.ord = n, !.seen[n] = ViewIn(ex', n)]
      BY <2>1 DEF CreateOrder
    <3>2. Fetches(n, [status |-> ex'[n].status, filled |-> ex'[n].filled])
      BY <3>1, CreateFetches
    <3>3. UNCHANGED db
      BY <2>1 DEF CreateOrder
    <3> QED
      BY <3>2, <3>3 DEF Looks
  <2>2. CASE ~CreateOrder /\ ~RecordOrder
    <3>1. Kept
      BY <1>4, <2>2 DEF PlaceStep, PrepareEntry, PrepareExit, CreateRejected, Placed, ReplaceFailed, Kept
    <3> QED
      BY <1>4, <2>2, <3>1, PlaceQuiet
  <2> QED
    BY <2>1, <2>2
<1>5. CASE LoopStep
  <2>1. CASE LoopFetch
    <3> DEFINE o == Min(Left)
    <3>1. o \in Orders
      <4>1. Left \subseteq Orders /\ Left # {} /\ Orders \subseteq Nat
        BY <2>1, OrdersFinite DEF LoopFetch, Left, Recorded
      <4> QED
        BY <4>1, SmallestIsMember
    <3>2. UNCHANGED <<ex, db>>
      BY <2>1 DEF LoopFetch
    <3>3. Fetches(o, [status |-> ex[o].status, filled |-> ex[o].filled])
      BY <2>1, LoopFetches
    <3> HIDE DEF o
    <3> QED
      BY <3>1, <3>2, <3>3 DEF Looks
  <2>2. Kept
    BY <1>5 DEF LoopStep, LoopFetch, LoopFetchFails, AssumeCanceled, RecoverNext, RecoverEnd, LoopEnd,
                ForceExitEnd, Kept
  <2> QED
    BY <1>5, <2>1, <2>2, LoopQuiet DEF AssumeCanceled
<1>6. CASE PhaseStep
  <2>1. UNCHANGED <<ex, db>>
    BY <1>6, PhaseQuiet
  <2>2. ASSUME NEW o \in Orders, Fetches(o, [status |-> ex[o].status, filled |-> ex[o].filled])
        PROVE  Looks
    BY <2>1, <2>2 DEF Looks
  <2> QED
    BY <1>6, <2>1, <2>2, PhaseQuiet DEF Kept
<1>7. CASE RPC
  <2>1. Kept
    BY <1>7 DEF RPC, ForceExit, CancelOpenOrder, DeleteTrade, ReloadTrade, Kept
  <2> QED
    BY <1>7, <2>1, CommandQuiet
<1>8. CASE Lifecycle
  BY <1>8, LifecycleQuiet DEF Kept
<1> QED
  BY <1>1, <1>2, <1>3, <1>4, <1>5, <1>6, <1>7, <1>8 DEF Next, Bot

\* The places that a step of a handler leads to.
LEMMA UpdateMoves ==
    ASSUME DOMAIN bot = BotFields
    PROVE  /\ UpdateOrder => bot.pc = "update_order" /\ bot'.pc \in {"update_trade", "updated"}
           /\ UpdateTradeRow => bot.pc = "update_trade" /\ bot'.pc = "updated"
           /\ Updated => bot.pc = "updated" /\ bot'.pc \in {"canceled", "loop", "idle", "placed", "cancel"}
<1>1. UpdateOrder => bot.pc = "update_order" /\ bot'.pc \in {"update_trade", "updated"}
  BY DEF UpdateOrder, BotFields
<1>2. UpdateTradeRow => bot.pc = "update_trade" /\ bot'.pc = "updated"
  BY DEF UpdateTradeRow, BotFields
<1>3. Updated => bot.pc = "updated" /\ bot'.pc \in {"canceled", "loop", "idle", "placed", "cancel"}
  BY WhereTo DEF Updated, BotFields
<1> QED
  BY <1>1, <1>2, <1>3

LEMMA CancelMoves ==
    ASSUME DOMAIN bot = BotFields, CancelStep
    PROVE  /\ bot.pc \in Canceling
           /\ bot'.pc \in {"cancel_result", "canceled", "placed", "idle", "down", "update_order", "exit",
                           "entry", "loop"}
           /\ bot'.pc = "update_order" => bot.pc = "cancel_result" /\ bot'.flow = bot.flow /\ bot'.inCancel
<1> USE DEF Canceling
<1>1. CASE CancelKeep \/ CancelOnExchange \/ CancelKnown
  BY <1>1 DEF CancelKeep, CancelOnExchange, CancelKnown, RequestCancel, BotFields
<1>2. CASE CancelRaises
  BY <1>2, WhereTo DEF CancelRaises, RequestCancel, BotFields
<1>3. CASE CancelEnterResult \/ CancelExitResult
  BY <1>3 DEF CancelEnterResult, CancelExitResult, BotFields
<1>4. CASE Canceled
  <2> DEFINE next == NextOrder(bot)
  <2>1. DOMAIN next = BotFields /\ next.pc = "loop"
    BY WhereTo, RemadeByHelpers DEF Remade
  <2>2. \/ \E goal \in {"entry", "exit"} : \E amt, sake : Place(goal, amt, sake)
        \/ bot' = next \/ \E goal : bot' = [next EXCEPT !.goal = goal]
    BY <1>4 DEF Canceled
  <2> HIDE DEF next
  <2>3. bot'.pc \in {"exit", "entry", "loop"}
    BY <2>1, <2>2 DEF Place, BotFields
  <2> QED
    BY <1>4, <2>3 DEF Canceled
<1> QED
  BY <1>1, <1>2, <1>3, <1>4 DEF CancelStep

LEMMA PlaceMoves ==
    ASSUME DOMAIN bot = BotFields
    PROVE  /\ PrepareEntry => bot.pc = "entry" /\ bot'.pc \in {"placed", "create", "loop"}
           /\ PrepareExit => bot.pc = "exit" /\ bot'.pc \in {"placed", "create", "loop"}
           /\ CreateRejected => bot.pc = "create" /\ bot'.pc = "placed"
           /\ CreateOrder => bot.pc = "create" /\ bot'.pc = "record" /\ bot'.flow = "placed"
           /\ RecordOrder => bot.pc = "record" /\ bot'.pc \in {"update_order", "placed"} /\ bot'.flow = bot.flow
           /\ Placed => bot.pc = "placed" /\ bot'.pc \in {"loop", "idle"}
<1>1. PrepareEntry \/ PrepareExit => bot'.pc \in {"placed", "create", "loop"}
  <2> DEFINE c == Loop(bot, "similar", OpenOrders)
  <2>1. c.pc = "loop" /\ DOMAIN c = BotFields
    BY WhereTo
  <2> HIDE DEF c
  <2>2. NotPlaced => bot'.pc = "placed"
    BY DEF NotPlaced, BotFields
  <2>3. \A amt : ClearTheWay(amt) => bot'.pc \in {"placed", "create", "loop"}
    BY <2>1, <2>2 DEF ClearTheWay, c, BotFields
  <2> QED
    BY <2>2, <2>3 DEF PrepareEntry, PrepareExit
<1>2. CreateRejected => bot.pc = "create" /\ bot'.pc = "placed"
  BY DEF CreateRejected, NotPlaced, BotFields
<1>3. CreateOrder => bot.pc = "create" /\ bot'.pc = "record" /\ bot'.flow = "placed"
  BY DEF CreateOrder, BotFields
<1>4. RecordOrder => bot.pc = "record" /\ bot'.pc \in {"update_order", "placed"} /\ bot'.flow = bot.flow
  BY DEF RecordOrder, BotFields
<1>5. Placed => bot.pc = "placed" /\ bot'.pc \in {"loop", "idle"}
  BY WhereTo DEF Placed
<1> QED
  BY <1>1, <1>2, <1>3, <1>4, <1>5 DEF PrepareEntry, PrepareExit

LEMMA LoopMoves ==
    ASSUME DOMAIN bot = BotFields, LoopStep
    PROVE  /\ bot.pc = "loop"
           /\ bot'.pc \in {"update_order", "cancel", "loop", "idle", "decide", "stopped", "create", "placed",
                           "exit"}
           /\ bot'.pc = "update_order" => bot'.flow = bot.flow
<1>1. bot.pc = "loop"
  BY DEF LoopStep, LoopFetch, LoopFetchFails, AssumeCanceled, RecoverNext, RecoverEnd, LoopEnd, ForceExitEnd
<1>2. CASE LoopFetch \/ AssumeCanceled
  BY <1>1, <1>2 DEF LoopFetch, AssumeCanceled, BotFields
<1>3. CASE LoopFetchFails
  <2> DEFINE b == [bot EXCEPT !.todo = @ \ {Min(Left)}]
  <2>1. DOMAIN b = BotFields
    BY DEF BotFields
  <2>2. bot' = NextOrder(b) \/ bot' = Idle(bot.phase)
    BY <1>3 DEF LoopFetchFails
  <2> HIDE DEF b
  <2> QED
    BY <1>1, <2>1, <2>2, WhereTo
<1>4. CASE RecoverNext
  BY <1>1, <1>4 DEF RecoverNext, BotFields
<1>5. CASE RecoverEnd
  <2>1. bot' = [Idle("exit") EXCEPT !.pc = "decide"] \/ \E phase : bot' = Idle(phase)
    BY <1>5 DEF RecoverEnd
  <2>2. [Idle("exit") EXCEPT !.pc = "decide"].pc = "decide"
    BY DEF Idle
  <2> QED
    BY <1>1, <2>1, <2>2, WhereTo
<1>6. CASE LoopEnd \/ ForceExitEnd
  <2>1. \/ \E phase : bot' = Idle(phase)
        \/ bot' = Stopped
        \/ bot' = [bot EXCEPT !.pc = "create"]
        \/ bot' = [bot EXCEPT !.pc = "placed", !.ret = FALSE]
        \/ \E amt : bot' = [bot EXCEPT !.pc = "exit", !.amt = amt]
    BY <1>6 DEF LoopEnd, ForceExitEnd
  <2> QED
    BY <1>1, <2>1, WhereTo DEF BotFields
<1> QED
  BY <1>2, <1>3, <1>4, <1>5, <1>6 DEF LoopStep

LEMMA RecoverMoves ==
    ASSUME NEW STATE b, DOMAIN b = BotFields, Recover(b)
    PROVE  bot'.pc = "loop" /\ bot'.flow = "recover"
<1> DEFINE c == Loop(b, "recover", {o \in Orders : ex[o].status # "none"})
<1>1. c.pc = "loop" /\ c.flow = "recover" /\ DOMAIN c = BotFields
  BY DEF Loop, NextOrder, BotFields
<1>2. bot' = [c EXCEPT !.seen = [o \in Orders |-> View(o)]]
  BY DEF Recover
<1> HIDE DEF c
<1> QED
  BY <1>1, <1>2 DEF BotFields

LEMMA PhaseMoves ==
    ASSUME DOMAIN bot = BotFields, PhaseStep
    PROVE  /\ bot.pc \in {"idle", "decide"}
           /\ bot'.pc \in {"idle", "update_order", "loop", "decide", "exit", "entry", "create"}
           /\ bot'.pc = "update_order" => bot'.flow = "fees"
<1>1. bot.pc \in {"idle", "decide"}
  BY DEF PhaseStep, FeesPhase, ManagePhase, ExitPhase, DecideExit, AdjustPhase, EnterPhase, Enter
<1>2. \A phase : Skip(phase) => bot'.pc = "idle"
  BY WhereTo DEF Skip
<1>3. ASSUME FeesPhase PROVE bot'.pc = "idle" \/ (bot'.pc = "update_order" /\ bot'.flow = "fees")
  <2>1. ASSUME NEW o \in FeeOrder,
               bot' = [bot EXCEPT !.pc = "update_order", !.flow = "fees", !.ord = o, !.seen[o] = View(o)]
        PROVE  bot'.pc = "update_order" /\ bot'.flow = "fees"
    BY <2>1 DEF BotFields
  <2>2. CASE Skip("fees")
    BY <2>2, WhereTo DEF Skip
  <2> QED
    BY <1>3, <2>1, <2>2 DEF FeesPhase
<1>4. ManagePhase => bot'.pc \in {"idle", "loop"}
  BY <1>2, WhereTo DEF ManagePhase
<1>5. ExitPhase => bot'.pc \in {"idle", "loop", "decide"}
  <2> DEFINE b == [bot EXCEPT !.sake = "exit"]
  <2>1. DOMAIN b = BotFields
    BY DEF BotFields
  <2>2. Recover(b) => bot'.pc = "loop"
    BY <2>1, RecoverMoves
  <2> QED
    BY <1>2, <2>2 DEF ExitPhase, BotFields
<1>6. DecideExit => bot'.pc \in {"exit", "idle"}
  BY WhereTo DEF DecideExit, BotFields
<1>7. AdjustPhase => bot'.pc \in {"idle", "entry", "exit"}
  BY <1>2 DEF AdjustPhase, BotFields
<1>8. EnterPhase => bot'.pc \in {"idle", "create"}
  BY <1>2 DEF EnterPhase, BotFields
<1> QED
  BY <1>1, <1>3, <1>4, <1>5, <1>6, <1>7, <1>8 DEF PhaseStep

LEMMA CommandMoves ==
    ASSUME DOMAIN bot = BotFields, RPC
    PROVE  bot.pc = "idle" /\ bot'.pc \in {"idle", "loop"}
<1> DEFINE c == Loop(bot, "forceexit", OpenOrders)
<1>1. c.pc = "loop" /\ DOMAIN c = BotFields
  BY WhereTo
<1> HIDE DEF c
<1>2. ForceExit => bot'.pc = "loop"
  BY <1>1 DEF ForceExit, c, BotFields
<1>3. CancelOpenOrder => bot'.pc = "loop"
  BY WhereTo DEF CancelOpenOrder
<1>4. ReloadTrade => bot'.pc = "loop"
  BY RecoverMoves DEF ReloadTrade
<1> QED
  BY <1>2, <1>3, <1>4 DEF RPC, ForceExit, CancelOpenOrder, DeleteTrade, ReloadTrade, Command

LEMMA LifecycleMoves ==
    ASSUME DOMAIN bot = BotFields, Lifecycle
    PROVE  bot'.pc \in {"stopped", "loop", "down"} /\ (~Crash => bot.pc \in Resting)
<1>1. DOMAIN Idle("fees") = BotFields
  BY DEF Idle, BotFields
<1>2. Loop(Idle("fees"), "startup", OpenOrders).pc = "loop" /\ Loop(bot, "stop", OpenOrders).pc = "loop"
  BY <1>1, WhereTo
<1> QED
  BY <1>2, WhereTo DEF Lifecycle, Stop, StoppedCancelAll, Startup, Crash, Command, Resting

-----------------------------------------------------------------------------
(* What the steps do to the rows of the database, and to the sides of orders.  *)

\* Only update_trade_state, the recording of an order and Trade.delete write.
LEMMA Writers ==
    ASSUME Next
    PROVE  \/ UpdateOrder \/ UpdateTradeRow \/ RecordOrder
           \/ Crash /\ UNCHANGED <<ex, db, trade>>
           \/ torn' = torn /\ crashes' = crashes /\ (UNCHANGED <<db, trade>> \/ Delete)
<1>1. CASE Exchange
  BY <1>1 DEF Exchange, Fill, CanceledOnExchange
<1>2. CASE UpdateStep
  BY <1>2 DEF UpdateStep, Updated
<1>3. CASE CancelStep
  BY <1>3 DEF CancelStep, CancelKeep, CancelOnExchange, CancelRaises, CancelKnown, CancelEnterResult,
              CancelExitResult, Canceled, ReplaceFailed
<1>4. CASE PlaceStep
  BY <1>4 DEF PlaceStep, PrepareEntry, PrepareExit, CreateRejected, CreateOrder, Placed, ReplaceFailed
<1>5. CASE LoopStep
  BY <1>5 DEF LoopStep, LoopFetch, LoopFetchFails, AssumeCanceled, RecoverNext, RecoverEnd, LoopEnd,
              ForceExitEnd
<1>6. CASE PhaseStep
  BY <1>6 DEF PhaseStep, FeesPhase, ManagePhase, ExitPhase, DecideExit, AdjustPhase, EnterPhase, Skip
<1>7. CASE RPC
  BY <1>7 DEF RPC, ForceExit, CancelOpenOrder, DeleteTrade, ReloadTrade
<1>8. CASE Lifecycle
  BY <1>8 DEF Lifecycle, Stop, StoppedCancelAll, Startup, Crash
<1> QED
  BY <1>1, <1>2, <1>3, <1>4, <1>5, <1>6, <1>7, <1>8 DEF Next, Bot

\* An order that exists keeps its side and its amount.
Lasting ==
    \A o \in Orders : ex[o].status # "none" =>
      ex'[o].status # "none" /\ ex'[o].side = ex[o].side /\ ex'[o].amount = ex[o].amount

LEMMA OrdersLast == ASSUME Typed, Next PROVE Lasting
<1> USE DEF Typed, OrderState, Lasting
<1>1. CASE UNCHANGED ex
  BY <1>1
<1>2. CASE Exchange
  BY <1>2 DEF Exchange, Fill, CanceledOnExchange, Live
<1>3. CASE UpdateStep
  BY <1>1, <1>3 DEF UpdateStep, UpdateOrder, UpdateTradeRow, Updated
<1>4. CASE CancelStep
  <2>1. CASE RequestCancel
    BY <2>1 DEF RequestCancel, Live
  <2> QED
    BY <1>1, <1>4, <2>1 DEF CancelStep, CancelKeep, CancelOnExchange, CancelRaises, CancelKnown,
                            CancelEnterResult, CancelExitResult, Canceled
<1>5. CASE PlaceStep
  <2>1. CASE CreateOrder
    BY <2>1 DEF CreateOrder
  <2> QED
    BY <1>1, <1>5, <2>1 DEF PlaceStep, PrepareEntry, PrepareExit, CreateRejected, RecordOrder, Placed
<1>6. CASE LoopStep
  BY <1>1, <1>6 DEF LoopStep, LoopFetch, LoopFetchFails, AssumeCanceled, RecoverNext, RecoverEnd, LoopEnd,
                    ForceExitEnd
<1>7. CASE PhaseStep
  BY <1>1, <1>7 DEF PhaseStep, FeesPhase, ManagePhase, ExitPhase, DecideExit, AdjustPhase, EnterPhase, Skip
<1>8. CASE RPC
  <2>1. CASE DeleteTrade
    BY <2>1 DEF DeleteTrade, Live
  <2> QED
    BY <1>1, <1>8, <2>1 DEF RPC, ForceExit, CancelOpenOrder, ReloadTrade
<1>9. CASE Lifecycle
  BY <1>1, <1>9 DEF Lifecycle, Stop, StoppedCancelAll, Startup, Crash
<1> QED
  BY <1>2, <1>3, <1>4, <1>5, <1>6, <1>7, <1>8, <1>9 DEF Next, Bot

\* Where update_trade_state is active only its steps, the exchange and a crash move.
LEMMA UpdatingSteps ==
    ASSUME Next, DOMAIN bot = BotFields, bot.pc \in Updating
    PROVE  Exchange \/ UpdateStep \/ Crash
BY CancelMoves, PlaceMoves, LoopMoves, PhaseMoves, CommandMoves, LifecycleMoves
   DEF Next, Bot, PlaceStep, Updating, Canceling, Resting

-----------------------------------------------------------------------------
(* LedgerSound, with the copies in hand: where the bot looks at an order that   *)
(* is recorded as final, what it holds is final too, so that nothing it writes *)
(* takes a fill out of the sum again.                                          *)

SeenFinal == \A o \in HeldBy(bot) \cap Orders : IsFinal(db[o]) => IsFinal(bot.seen[o])

\* An order that was filled at once is given to update_trade_state.
PlacedFills ==
    /\ bot.pc = "record" =>
         bot.flow = "placed" /\ (IsFinal(bot.seen[bot.ord]) => bot.seen[bot.ord].filled > 0)
    /\ bot.pc = "update_order" /\ bot.flow = "placed" =>
         /\ IsFinal(bot.seen[bot.ord]) /\ bot.seen[bot.ord].filled > 0
         /\ db[bot.ord] = bot.seen[bot.ord]

\* Between the commit of an order and that of the trade.
Mid ==
    \/ bot.pc = "update_trade" /\ IsFinal(db[bot.ord])
    \/ bot.pc = "update_order" /\ bot.flow = "placed"

Balanced ==
    ~torn /\ trade.st = "open" /\ NetAmount(db) > 0 /\ ~Mid => trade.amount = NetAmount(db)

\* The inductive invariant.
Ledger == Agreement /\ Fills /\ Places /\ Typed /\ SeenFinal /\ PlacedFills /\ Balanced

LEMMA NextSeenFinal ==
    ASSUME Agreement, Agreement', Fills, Places, SeenFinal, ~OrdersLost, Next
    PROVE  SeenFinal'
<1> USE DEF Fills, SeenBehind
<1>1. CASE Quiet(bot, bot') /\ Kept
  <2>1. \A o \in Orders : IsFinal(db'[o]) => IsFinal(db[o])
    BY <1>1 DEF Kept, Delete, Nothing, IsFinal
  <2> QED
    BY <1>1, <2>1 DEF Quiet, SeenFinal
<1>2. CASE Looks
  <2>1. PICK o \in Orders : Fetches(o, [status |-> ex'[o].status, filled |-> ex'[o].filled])
    BY <1>2 DEF Looks
  <2>2. IsFinal(db'[o]) => IsFinal(bot'.seen[o])
    BY <2>1 DEF Agreement, FinalOrdersAgree, View, ViewIn, IsFinal, Fetches
  <2> QED
    BY <2>1, <2>2 DEF Fetches, SeenFinal
<1>3. CASE FetchesAll /\ UNCHANGED <<ex, db>>
  <2>1. \A o \in Orders : bot'.seen[o].status = ex'[o].status
    BY <1>3 DEF FetchesAll, View, ViewIn
  <2>2. ASSUME NEW o \in Orders, IsFinal(db'[o]) PROVE db'[o].status = ex'[o].status
    <3>1. db'[o] = [status |-> ex'[o].status, filled |-> ex'[o].filled]
      BY <2>2 DEF Agreement, FinalOrdersAgree, View, ViewIn, IsFinal
    <3> QED
      BY <3>1
  <2> QED
    BY <2>1, <2>2 DEF SeenFinal, IsFinal
<1>4. CASE UpdateOrder \/ RecordOrder
  <2>1. /\ db' = [db EXCEPT ![bot.ord] = bot.seen[bot.ord]]
        /\ bot'.seen = bot.seen /\ HeldBy(bot') \subseteq HeldBy(bot)
    BY <1>4, Writes
  <2> QED
    BY <2>1 DEF SeenFinal, RecordsBehind
<1> QED
  BY <1>1, <1>2, <1>3, <1>4, StepKinds

LEMMA NextPlacedFills ==
    ASSUME Typed, Typed', Fills, Places, PlacedFills, ~OrdersLost, Next
    PROVE  PlacedFills'
<1>0. DOMAIN bot = BotFields /\ Course(bot)
  BY DEF Places, Course
<1> DEFINE Away == bot'.pc # "record" /\ (bot'.pc = "update_order" => bot'.flow # "placed")
<1>1. CASE Away
  BY <1>1 DEF PlacedFills
<1>2. CASE Exchange
  BY <1>2 DEF Exchange, Fill, CanceledOnExchange, PlacedFills
<1>3. CASE UpdateStep
  BY <1>0, <1>1, <1>3, UpdateMoves DEF UpdateStep
<1>4. CASE CancelStep
  <2>1. bot.flow \in CancelFlows \cup {"similar"}
    BY <1>0, <1>4, CancelMoves DEF Course
  <2> QED
    BY <1>0, <1>1, <1>4, <2>1, CancelMoves DEF CancelFlows
<1>5. CASE PlaceStep
  <2>1. CASE CreateOrder
    <3>1. PICK n \in Orders, filled \in {0, bot.amt} :
             /\ ex' = [ex EXCEPT ![n] =
                         [side   |-> IF bot.goal = "entry" THEN "buy" ELSE "sell",
                          amount |-> bot.amt, filled |-> filled,
                          status |-> IF filled = 0 THEN "open" ELSE "closed"]]
             /\ bot' = [bot EXCEPT !.pc = "record", !.flow = "placed",
                                   !.ord = n, !.seen[n] = ViewIn(ex', n)]
      BY <2>1 DEF CreateOrder
    <3>2. bot.amt \in Nat \ {0}
      BY <2>1 DEF CreateOrder
    <3>3. bot'.pc = "record" /\ bot'.flow = "placed" /\ bot'.ord = n /\ bot'.seen[n] = ViewIn(ex', n)
      BY <1>0, <3>1 DEF Typed, BotTyped, BotFields
    <3>4. ex'[n].filled = filled /\ ex'[n].status = IF filled = 0 THEN "open" ELSE "closed"
      BY <3>1 DEF Typed
    <3>5. filled = 0 \/ filled > 0
      BY <3>2
    <3>6. IsFinal(ViewIn(ex', n)) => ViewIn(ex', n).filled > 0
      BY <3>4, <3>5 DEF IsFinal, ViewIn
    <3> QED
      BY <3>3, <3>6 DEF PlacedFills
  <2>2. CASE RecordOrder
    <3>1. db' = [db EXCEPT ![bot.ord] = bot.seen[bot.ord]] /\ bot'.seen = bot.seen
      BY <1>0, <2>2, Writes DEF Fills
    <3>2. bot.pc = "record" /\ bot'.pc \in {"update_order", "placed"} /\ bot'.ord = bot.ord
      BY <1>0, <2>2 DEF RecordOrder, BotFields
    <3>3. bot'.pc = "update_order" => IsFinal(bot.seen[bot.ord])
      BY <1>0, <2>2 DEF RecordOrder, BotFields
    <3>4. db'[bot.ord] = bot.seen[bot.ord]
      BY <3>1 DEF Typed, BotTyped
    <3> QED
      BY <3>1, <3>2, <3>3, <3>4 DEF PlacedFills
  <2> QED
    BY <1>0, <1>1, <1>5, <2>1, <2>2, PlaceMoves DEF PlaceStep
<1>6. CASE LoopStep
  <2>1. bot.flow \in LoopFlows
    BY <1>0, <1>6, LoopMoves DEF Course
  <2> QED
    BY <1>0, <1>1, <1>6, <2>1, LoopMoves DEF LoopFlows, CancelFlows
<1>7. CASE PhaseStep
  BY <1>0, <1>1, <1>7, PhaseMoves
<1>8. CASE RPC
  BY <1>0, <1>1, <1>8, CommandMoves
<1>9. CASE Lifecycle
  BY <1>0, <1>1, <1>9, LifecycleMoves
<1> QED
  BY <1>2, <1>3, <1>4, <1>5, <1>6, <1>7, <1>8, <1>9 DEF Next, Bot

\* The sum stays in a step that does not touch the orders table.
LEMMA NetStays ==
    ASSUME Agreement, Typed, Typed', Next, UNCHANGED db
    PROVE  NetAmount(db)' = NetAmount(db)
<1>1. Lasting
  BY OrdersLast
<1>2. ASSUME NEW o \in Orders PROVE Share(ex', db', o) = Share(ex, db, o)
  <2>1. IsFinal(db[o]) => db[o] = [status |-> ex[o].status, filled |-> ex[o].filled]
    BY DEF Agreement, FinalOrdersAgree, View, ViewIn
  <2>2. IsFinal(db[o]) => ex[o].status # "none"
    BY <2>1 DEF IsFinal
  <2> QED
    BY <1>1, <2>2 DEF Lasting, Share
<1>3. Total(ex', db') = Total(ex, db)
  BY <1>2, TotalStays DEF Typed
<1> QED
  BY <1>3, NetNow, NetThen

\* What is written of an order changes its share in the sum, and no other.
LEMMA NetWritten ==
    ASSUME Agreement, Typed, Typed', UpdateOrder \/ RecordOrder
    PROVE  /\ NetAmount(db)' = NetAmount(db) - Share(ex, db, bot.ord) + Share(ex, db', bot.ord)
           /\ Share(ex, db, bot.ord) \in Int /\ Share(ex, db', bot.ord) \in Int
<1>1. UNCHANGED ex /\ db' = [db EXCEPT ![bot.ord] = bot.seen[bot.ord]]
  BY DEF UpdateOrder, RecordOrder
<1>2. bot.ord \in Orders /\ db \in [Orders -> OrderRecord] /\ db' \in [Orders -> OrderRecord]
  BY DEF Typed, BotTyped
<1>3. \A o \in Orders \ {bot.ord} : Share(ex, db', o) = Share(ex, db, o)
  BY <1>1, <1>2 DEF Share
<1>4. Total(ex, db') = Total(ex, db) - Share(ex, db, bot.ord) + Share(ex, db', bot.ord)
  BY <1>2, <1>3, TotalChangesOne
<1>5. Total(ex', db') = Total(ex, db')
  BY <1>1
<1>6. NetAmount(db)' = Total(ex', db') /\ NetAmount(db) = Total(ex, db)
  BY NetNow, NetThen
<1> QED
  BY <1>2, <1>4, <1>5, <1>6, SharesAreIntegers

\* A record that is not final, or final without a fill, leaves the sum as it was.
LEMMA NothingWritten ==
    ASSUME Agreement, Fills, Typed, Typed', SeenFinal, UpdateOrder \/ RecordOrder,
           ~IsFinal(bot.seen[bot.ord]) \/ CanceledEmpty(bot.seen[bot.ord])
    PROVE  NetAmount(db)' = NetAmount(db)
<1> DEFINE o == bot.ord
           v == bot.seen[o]
<1>1. o \in Orders /\ o \in HeldBy(bot) /\ db'[o] = v
  BY DEF Typed, BotTyped, HeldBy, Writing, UpdateOrder, RecordOrder
<1>2. IsFinal(db[o]) => IsFinal(v)
  BY <1>1 DEF SeenFinal
<1>3. IsFinal(db[o]) => db[o] = v
  BY <1>1, <1>2 DEF Agreement, FinalOrdersAgree, SeenAgrees
<1>4. Share(ex, db, o) = 0 /\ Share(ex, db', o) = 0
  BY <1>1, <1>3 DEF Share, CanceledEmpty
<1>5. NetAmount(db) \in Int
  BY NetNow
<1> QED
  BY <1>4, <1>5, NetWritten

LEMMA RecalcGives ==
    ASSUME NEW t \in TradeRow, NEW d, NetAmount(d) > 0
    PROVE  Recalc(t, d).amount = NetAmount(d)
BY DEF Recalc, TradeRow

LEMMA UpdateOrderBalanced ==
    ASSUME Ledger, Typed', UpdateOrder
    PROVE  Balanced'
<1> DEFINE o == bot.ord
           v == bot.seen[o]
<1>1. DOMAIN bot = BotFields /\ o \in Orders
  BY DEF Ledger, Typed, BotTyped
<1>2. UNCHANGED <<trade, torn>> /\ bot.pc = "update_order" /\ db' = [db EXCEPT ![o] = v]
  BY DEF UpdateOrder
<1>3. CASE IsFinal(v) /\ ~CanceledEmpty(v)
  <2>1. bot'.pc = "update_trade" /\ bot'.ord = o
    BY <1>1, <1>3 DEF UpdateOrder, BotFields
  <2>2. db'[o] = v
    BY <1>1, <1>2 DEF Ledger, Typed
  <2> QED
    BY <1>3, <2>1, <2>2 DEF Balanced, Mid
<1>4. CASE ~IsFinal(v) \/ CanceledEmpty(v)
  <2>1. NetAmount(db)' = NetAmount(db)
    BY <1>4, NothingWritten DEF Ledger
  <2>2. ~Mid
    <3>1. CASE bot.flow = "placed"
      <4>1. IsFinal(v) /\ v.filled > 0
        BY <1>2, <3>1 DEF Ledger, PlacedFills
      <4> QED
        BY <1>4, <4>1 DEF CanceledEmpty
    <3> QED
      BY <1>2, <3>1 DEF Mid
  <2> QED
    BY <1>2, <2>1, <2>2 DEF Ledger, Balanced
<1> QED
  BY <1>3, <1>4

LEMMA UpdateTradeBalanced ==
    ASSUME Ledger, Typed', UpdateTradeRow
    PROVE  Balanced'
<1>1. UNCHANGED <<ex, db>> /\ bot.pc = "update_trade"
  BY DEF UpdateTradeRow
<1>2. NetAmount(db)' = NetAmount(db)
  BY <1>1 DEF NetAmount, Flow, IsEntry
<1>3. CASE ~IsFinal(db[bot.ord])
  <2>1. UNCHANGED <<trade, torn>>
    BY <1>3 DEF UpdateTradeRow
  <2>2. ~Mid
    BY <1>1, <1>3 DEF Mid
  <2> QED
    BY <1>2, <2>1, <2>2 DEF Ledger, Balanced
<1>4. CASE IsFinal(db[bot.ord])
  <2> DEFINE t == UpdateTrade(trade, db, bot.ord, Recalculating)
  <2>1. trade' = t \/ \E fee : trade' = [t EXCEPT !.fee = fee]
    BY <1>4 DEF UpdateTradeRow
  <2>2. t \in TradeRow
    BY UpdateTyped DEF Ledger, Typed, BotTyped
  <2>3. t.st = "open" /\ NetAmount(db) > 0 => t.amount = NetAmount(db)
    <3>1. \A u \in TradeRow : NetAmount(db) > 0 => Recalc(u, db).amount = NetAmount(db)
      BY RecalcGives
    <3>2. trade \in TradeRow /\ [trade EXCEPT !.amount = db[bot.ord].filled] \in TradeRow
      BY DEF Ledger, Typed, BotTyped, TradeRow, OrderRecord
    <3>3. [trade EXCEPT !.st = "closed"] \in TradeRow
      BY <3>2 DEF TradeRow
    <3> QED
      BY <3>1, <3>2, <3>3 DEF UpdateTrade, Close
  <2>4. trade'.st = t.st /\ trade'.amount = t.amount
    BY <2>1, <2>2 DEF TradeRow
  <2> QED
    BY <1>2, <2>3, <2>4 DEF Balanced
<1> QED
  BY <1>3, <1>4

LEMMA RecordBalanced ==
    ASSUME Ledger, Typed', RecordOrder
    PROVE  Balanced'
<1>1. UNCHANGED ex /\ bot.pc = "record" /\ DOMAIN bot = BotFields /\ bot.flow = "placed"
  BY DEF RecordOrder, Ledger, Typed, BotTyped, PlacedFills
<1>2. CASE bot.goal = "entry"
  <2>1. trade' = Recalc([trade EXCEPT !.st = "open"], db')
    BY <1>2 DEF RecordOrder
  <2>2. NetAmount(db') = NetAmount(db)'
    BY <1>1 DEF NetAmount, Flow, IsEntry
  <2>3. [trade EXCEPT !.st = "open"] \in TradeRow
    BY DEF Ledger, Typed, TradeRow
  <2>4. NetAmount(db') > 0 => trade'.amount = NetAmount(db')
    BY <2>1, <2>3, RecalcGives
  <2> QED
    BY <2>2, <2>4 DEF Balanced
<1>3. CASE bot.goal # "entry"
  <2>1. UNCHANGED <<trade, torn>>
    BY <1>3 DEF RecordOrder
  <2>2. CASE IsFinal(bot.seen[bot.ord])
    <3>1. bot'.pc = "update_order" /\ bot'.flow = "placed"
      BY <1>1, <2>2 DEF RecordOrder, BotFields
    <3> QED
      BY <3>1 DEF Balanced, Mid
  <2>3. CASE ~IsFinal(bot.seen[bot.ord])
    <3>1. NetAmount(db)' = NetAmount(db)
      BY <2>3, NothingWritten DEF Ledger
    <3> QED
      BY <1>1, <2>1, <3>1 DEF Ledger, Balanced, Mid
  <2> QED
    BY <2>2, <2>3
<1> QED
  BY <1>2, <1>3

LEMMA NextBalanced ==
    ASSUME Ledger, Typed', Next
    PROVE  Balanced'
<1>0. DOMAIN bot = BotFields /\ bot.ord \in Orders
  BY DEF Ledger, Typed, BotTyped
<1>1. CASE Crash
  <2>0. UNCHANGED <<ex, db, trade>>
    BY <1>1 DEF Crash
  <2>1. NetAmount(db)' = NetAmount(db)
    BY <2>0, NetStays DEF Ledger
  <2>2. Mid => torn'
    BY <1>1 DEF Mid, Crash, Ledger, PlacedFills
  <2>3. torn => torn'
    BY <1>1 DEF Crash
  <2> QED
    BY <2>0, <2>1, <2>2, <2>3 DEF Ledger, Balanced
<1>2. CASE Delete
  <2>1. trade'.st = "deleted"
    BY <1>2 DEF Delete, NoTrade
  <2> QED
    BY <2>1 DEF Balanced
<1>3. CASE /\ torn' = torn /\ UNCHANGED <<db, trade>>
           /\ ~Crash /\ ~UpdateOrder /\ ~UpdateTradeRow /\ ~RecordOrder
  <2>1. NetAmount(db)' = NetAmount(db)
    BY <1>3, NetStays DEF Ledger
  <2>2. Mid => Mid'
    <3>1. SUFFICES ASSUME Mid PROVE Mid'
      OBVIOUS
    <3>2. Exchange \/ UpdateStep
      BY <1>0, <1>3, <3>1, UpdatingSteps DEF Mid, Updating
    <3>3. ~Updated
      BY <3>1 DEF Mid, Updated
    <3>4. Exchange
      BY <1>3, <3>2, <3>3 DEF UpdateStep
    <3>5. UNCHANGED <<db, bot>>
      BY <3>4 DEF Exchange, Fill, CanceledOnExchange
    <3> QED
      BY <3>1, <3>5 DEF Mid
  <2> QED
    BY <1>3, <2>1, <2>2 DEF Ledger, Balanced
<1> QED
  BY <1>1, <1>2, <1>3, Writers, UpdateOrderBalanced, UpdateTradeBalanced, RecordBalanced

LEMMA NextLedger ==
    ASSUME Ledger, ~OrdersLost, [Next]_vars
    PROVE  Ledger'
<1>1. Agreement' /\ Fills' /\ Places' /\ Typed'
  BY NextAgrees, NextFills, NextPlaces, NextTyped DEF Ledger
<1>2. CASE Next
  <2>1. SeenFinal' /\ PlacedFills' /\ Balanced'
    BY <1>1, <1>2, NextSeenFinal, NextPlacedFills, NextBalanced DEF Ledger
  <2> QED
    BY <1>1, <2>1 DEF Ledger
<1>3. CASE UNCHANGED vars
  <2>1. NetAmount(db)' = NetAmount(db)
    BY <1>3 DEF vars, NetAmount, Flow, IsEntry
  <2>2. SeenFinal'
    BY <1>3 DEF vars, Ledger, SeenFinal, HeldBy
  <2>3. PlacedFills'
    BY <1>3 DEF vars, Ledger, PlacedFills
  <2>4. Balanced'
    BY <1>3, <2>1 DEF vars, Ledger, Balanced, Mid
  <2> QED
    BY <1>1, <2>2, <2>3, <2>4 DEF Ledger
<1> QED
  BY <1>2, <1>3

LEMMA InitLedger == Init => Ledger
<1> SUFFICES ASSUME Init PROVE Ledger
  OBVIOUS
<1>1. Agreement /\ Fills /\ Places /\ Typed
  BY InitAgrees, InitFills, InitPlaces, InitTyped
<1>2. bot.pc = "idle" /\ bot.flow = "none" /\ trade.st = "none"
  BY DEF Init, Idle, NoTrade
<1>3. SeenFinal /\ PlacedFills /\ Balanced
  BY <1>2 DEF SeenFinal, HeldBy, Writing, PlacedFills, Balanced
<1> QED
  BY <1>1, <1>3 DEF Ledger

LEMMA LedgerHolds ==
    ASSUME Ledger
    PROVE  LedgerSound /\ RecordsSound
<1>1. AtRest => ~Mid
  BY DEF AtRest, Mid
<1> QED
  BY <1>1 DEF Ledger, Balanced, Agreement, LedgerSound, RecordsSound

\* The amount of an open trade is the sum of the fills that are recorded, after any sequence of
\* entries, partial exits, replacements, cancellations, commands, reloads and restarts, for any
\* number of orders and any amounts, unless a crash fell between the two commits of
\* update_trade_state (update_trade, recalc_trade_from_orders).
THEOREM LedgerAlwaysSound ==
    ASSUME ~OrdersLost PROVE Spec => []LedgerSound
<1>1. Ledger /\ [Next]_vars => Ledger'
  BY NextLedger
<1>2. Ledger => LedgerSound
  BY LedgerHolds
<1> QED
  BY InitLedger, <1>1, <1>2, PTL DEF Spec

\* No fill of a final order is missed and the amount is the sum of the fills, before and after
\* any number of restarts (FinalOrdersAgree with LedgerSound).
THEOREM RecordsAlwaysSound ==
    ASSUME ~OrdersLost PROVE Spec => []RecordsSound
<1>1. Ledger /\ [Next]_vars => Ledger'
  BY NextLedger
<1>2. Ledger => RecordsSound
  BY LedgerHolds
<1> QED
  BY InitLedger, <1>1, <1>2, PTL DEF Spec

-----------------------------------------------------------------------------
(* DeletionsSafe.  As long as no filled entry is recorded nothing was sold:    *)
(* the trade has no amount, and without an amount no exit is ever placed.      *)

\* What the helpers make of the bot's record.
LEMMA HelperFields ==
    ASSUME NEW STATE b, DOMAIN b = BotFields
    PROVE  /\ LET c == NextOrder(b)
              IN  /\ DOMAIN c = BotFields /\ c.pc = "loop" /\ c.flow = b.flow /\ c.todo = b.todo
                  /\ c.goal = b.goal /\ c.amt = b.amt /\ c.sake = b.sake /\ c.why = "none"
                  /\ c.back = b.back
           /\ LET c == Resume(b)
              IN  /\ DOMAIN c = BotFields /\ c.pc = "loop" /\ c.flow = b.back.flow /\ c.todo = b.back.todo
                  /\ c.goal = "none" /\ c.amt = 0 /\ c.sake = "none" /\ c.why = "none" /\ c.back = NoLoop
<1>1. LET c == NextOrder(b)
      IN  /\ DOMAIN c = BotFields /\ c.pc = "loop" /\ c.flow = b.flow /\ c.todo = b.todo
          /\ c.goal = b.goal /\ c.amt = b.amt /\ c.sake = b.sake /\ c.why = "none"
          /\ c.back = b.back
  BY DEF NextOrder, BotFields
<1>2. LET c == Resume(b)
      IN  /\ DOMAIN c = BotFields /\ c.pc = "loop" /\ c.flow = b.back.flow /\ c.todo = b.back.todo
          /\ c.goal = "none" /\ c.amt = 0 /\ c.sake = "none" /\ c.why = "none" /\ c.back = NoLoop
  BY DEF NextOrder, Resume, NoLoop, BotFields
<1> QED
  BY <1>1, <1>2

LEMMA LoopSets ==
    ASSUME NEW STATE b, DOMAIN b = BotFields, NEW flow, NEW S
    PROVE  LET c == Loop(b, flow, S)
           IN  /\ DOMAIN c = BotFields /\ c.pc = "loop" /\ c.flow = flow /\ c.todo = S
               /\ c.goal = b.goal /\ c.amt = b.amt /\ c.sake = b.sake /\ c.why = "none"
               /\ c.back = b.back
BY DEF NextOrder, Loop, BotFields

LEMMA RestFields ==
    /\ \A phase : LET c == Idle(phase)
                  IN  /\ DOMAIN c = BotFields /\ c.pc = "idle" /\ c.phase = phase /\ c.flow = "none"
                      /\ c.todo = {} /\ c.goal = "none" /\ c.amt = 0 /\ c.sake = "none"
                      /\ c.why = "none" /\ c.back = NoLoop
    /\ \A c \in {Down, Stopped} :
         /\ DOMAIN c = BotFields /\ c.pc \in {"down", "stopped"} /\ c.flow = "none"
         /\ c.todo = {} /\ c.goal = "none" /\ c.amt = 0 /\ c.sake = "none"
         /\ c.why = "none" /\ c.back = NoLoop
BY DEF Idle, Down, Stopped, BotFields

\* Parts of the bot's record that a step leaves alone.
SameLoop == bot'.flow = bot.flow /\ bot'.todo = bot.todo /\ bot'.back = bot.back
SameErrand == bot'.goal = bot.goal /\ bot'.amt = bot.amt /\ bot'.sake = bot.sake
SameHand == bot'.ord = bot.ord /\ bot'.why = bot.why

Rests == bot' = Down \/ bot' = Stopped \/ \E phase : bot' = Idle(phase)

LEMMA UpdateFields ==
    ASSUME DOMAIN bot = BotFields, UpdateStep
    PROVE  \/ (UpdateOrder \/ UpdateTradeRow) /\ SameLoop /\ SameErrand /\ SameHand
              /\ bot'.inCancel = bot.inCancel
           \/ /\ Updated /\ bot.inCancel /\ bot'.pc = "canceled" /\ ~bot'.inCancel
              /\ SameLoop /\ SameErrand /\ SameHand
           \/ /\ Updated /\ ~bot.inCancel /\ bot.flow \in {"startup", "recover", "manage"}
              /\ bot' = NextOrder(bot)
           \/ Updated /\ ~bot.inCancel /\ bot.flow = "fees" /\ bot' = Idle("manage")
           \/ /\ Updated /\ ~bot.inCancel /\ bot.flow = "placed" /\ bot'.pc = "placed" /\ bot'.ret
              /\ SameLoop /\ SameErrand /\ SameHand
           \/ /\ Updated /\ ~bot.inCancel /\ bot.flow = "manage" /\ bot'.pc = "cancel"
              /\ SameLoop /\ SameErrand /\ bot'.ord = bot.ord
              /\ bot'.why = "timeout" \/ (bot.seen[bot.ord].status = "open" /\ bot'.why \in {"replace", "user"})
<1> USE DEF SameLoop, SameErrand, SameHand, BotFields
<1>1. CASE UpdateOrder \/ UpdateTradeRow
  BY <1>1 DEF UpdateOrder, UpdateTradeRow
<1>2. CASE Updated
  <2>1. ASSUME NEW r, bot' = [bot EXCEPT !.pc = "canceled", !.inCancel = FALSE, !.ret = r]
        PROVE  bot'.pc = "canceled" /\ ~bot'.inCancel /\ SameLoop /\ SameErrand /\ SameHand
    BY <2>1
  <2>2. bot' = [bot EXCEPT !.pc = "placed", !.ret = TRUE] =>
          bot'.pc = "placed" /\ bot'.ret /\ SameLoop /\ SameErrand /\ SameHand
    OBVIOUS
  <2>3. ASSUME NEW why, bot' = [bot EXCEPT !.pc = "cancel", !.why = why, !.ret = FALSE]
        PROVE  bot'.pc = "cancel" /\ SameLoop /\ SameErrand /\ bot'.ord = bot.ord /\ bot'.why = why
    BY <2>3
  <2> QED
    BY <1>2, <2>1, <2>2, <2>3 DEF Updated
<1> QED
  BY <1>1, <1>2 DEF UpdateStep

LEMMA PlaceSets ==
    ASSUME DOMAIN bot = BotFields, NEW goal, NEW amt, NEW sake, Place(goal, amt, sake)
    PROVE  /\ bot'.pc = goal /\ bot'.goal = goal /\ bot'.amt = amt /\ bot'.sake = sake
           /\ bot'.flow = bot.flow /\ bot'.todo = bot.todo /\ bot'.ord = bot.ord
           /\ bot'.back = [flow |-> bot.flow, todo |-> bot.todo] /\ bot'.why = bot.why
BY DEF Place, BotFields

\* What the end of handle_cancel_order leads to.
LEMMA CanceledEnds ==
    ASSUME DOMAIN bot = BotFields, Canceled
    PROVE  \/ Emergency /\ Place("exit", Remaining(bot.ord), "emergency") /\ UNCHANGED <<db, trade>>
           \/ bot.why \in {"replace", "user"} /\ ~bot.ret /\ bot' = NextOrder(bot) /\ ReplaceFailed
           \/ /\ bot.why = "replace" /\ bot.ret /\ UNCHANGED <<db, trade>>
              /\ Place(IF IsEntry(bot.ord) THEN "entry" ELSE "exit", Remaining(bot.ord), "replace")
           \/ /\ UNCHANGED <<db, trade>> /\ (bot.why # "replace" \/ ~bot.ret)
              /\ bot.why # "user" \/ bot.ret
              /\ \/ bot' = NextOrder(bot)
                 \/ bot.flow = "forceexit" /\ bot' = [NextOrder(bot) EXCEPT !.goal = "none"]
<1>1. [NextOrder(bot) EXCEPT !.goal = @] = NextOrder(bot)
  BY DEF NextOrder, BotFields
<1> QED
  BY <1>1 DEF Canceled

LEMMA CancelFields ==
    ASSUME DOMAIN bot = BotFields, CancelStep
    PROVE  \/ /\ CancelKeep \/ CancelKnown \/ CancelOnExchange \/ CancelEnterResult \/ CancelExitResult
              /\ SameLoop /\ SameErrand /\ SameHand
           \/ /\ CancelRaises
              /\ \/ Rests
                 \/ bot.flow = "similar" /\ bot'.pc = "placed" /\ ~bot'.ret /\ SameLoop /\ SameErrand /\ SameHand
           \/ Canceled
<1> USE DEF SameLoop, SameErrand, SameHand, BotFields
<1>1. CASE CancelKeep \/ CancelKnown \/ CancelOnExchange \/ CancelEnterResult \/ CancelExitResult
  BY <1>1 DEF CancelKeep, CancelKnown, CancelOnExchange, CancelEnterResult, CancelExitResult
<1>2. CASE CancelRaises
  BY <1>2 DEF CancelRaises, Rests
<1> QED
  BY <1>1, <1>2 DEF CancelStep

LEMMA NotPlacedSets ==
    ASSUME DOMAIN bot = BotFields, NotPlaced
    PROVE  bot'.pc = "placed" /\ ~bot'.ret /\ SameLoop /\ SameErrand /\ SameHand
BY DEF NotPlaced, SameLoop, SameErrand, SameHand, BotFields

LEMMA ClearTheWaySets ==
    ASSUME DOMAIN bot = BotFields, NEW amt, ClearTheWay(amt)
    PROVE  \/ NotPlaced /\ OpenOrders # {}
           \/ /\ OpenOrders = {} /\ bot'.pc = "create" /\ SameLoop /\ SameHand
              /\ bot'.goal = bot.goal /\ bot'.amt = amt /\ bot'.sake = bot.sake
           \/ /\ OpenOrders # {} /\ bot'.pc = "loop" /\ bot'.flow = "similar" /\ bot'.todo = OpenOrders
              /\ bot'.back = bot.back /\ bot'.why = "none"
              /\ bot'.goal = bot.goal /\ bot'.amt = amt /\ bot'.sake = bot.sake
<1>1. bot' = [bot EXCEPT !.pc = "create", !.amt = amt] =>
        /\ bot'.pc = "create" /\ SameLoop /\ SameHand
        /\ bot'.goal = bot.goal /\ bot'.amt = amt /\ bot'.sake = bot.sake
  BY DEF SameLoop, SameHand, BotFields
<1> DEFINE c == Loop(bot, "similar", OpenOrders)
<1>2. /\ DOMAIN c = BotFields /\ c.pc = "loop" /\ c.flow = "similar" /\ c.todo = OpenOrders
      /\ c.goal = bot.goal /\ c.sake = bot.sake /\ c.why = "none" /\ c.back = bot.back
  BY LoopSets
<1> HIDE DEF c
<1>3. bot' = [c EXCEPT !.amt = amt] =>
        /\ bot'.pc = "loop" /\ bot'.flow = "similar" /\ bot'.todo = OpenOrders
        /\ bot'.back = bot.back /\ bot'.why = "none"
        /\ bot'.goal = bot.goal /\ bot'.amt = amt /\ bot'.sake = bot.sake
  BY <1>2 DEF BotFields
<1> QED
  BY <1>1, <1>3 DEF ClearTheWay, c

LEMMA PlaceFields ==
    ASSUME DOMAIN bot = BotFields, PlaceStep
    PROVE  \/ PrepareEntry /\ (NotPlaced \/ ClearTheWay(bot.amt))
           \/ /\ PrepareExit
              /\ NotPlaced \/ ClearTheWay(IF bot.amt = 0 THEN trade.amount ELSE bot.amt)
           \/ CreateRejected /\ NotPlaced
           \/ /\ CreateOrder /\ SameErrand /\ bot'.flow = "placed" /\ bot'.todo = bot.todo
              /\ bot'.back = bot.back /\ bot'.why = bot.why
           \/ RecordOrder /\ SameLoop /\ SameErrand /\ SameHand
           \/ /\ Placed
              /\ \/ bot.sake \in {"replace", "emergency"} /\ bot' = Resume(bot)
                 \/ Rests
<1>1. CASE CreateOrder
  BY <1>1 DEF CreateOrder, SameErrand, BotFields
<1>2. CASE RecordOrder
  BY <1>2 DEF RecordOrder, SameLoop, SameErrand, SameHand, BotFields
<1>3. CASE PrepareEntry \/ PrepareExit \/ CreateRejected
  BY <1>3 DEF PrepareEntry, PrepareExit, CreateRejected
<1>4. CASE Placed
  BY <1>4 DEF Placed, Rests
<1> QED
  BY <1>1, <1>2, <1>3, <1>4 DEF PlaceStep

LEMMA LoopFields ==
    ASSUME DOMAIN bot = BotFields, LoopStep
    PROVE  \/ /\ LoopFetch \/ AssumeCanceled
              /\ bot'.flow = bot.flow /\ bot'.back = bot.back /\ SameErrand
              /\ bot'.todo = bot.todo \ {Min(Left)} /\ bot'.ord = Min(Left)
              /\ bot'.why = bot.why \/ bot'.why = "timeout"
           \/ /\ LoopFetchFails /\ bot'.pc = "loop" /\ bot'.flow = bot.flow /\ bot'.back = bot.back
              /\ SameErrand /\ bot'.todo = bot.todo \ {Min(Left)} /\ bot'.why = "none"
           \/ LoopFetchFails /\ Rests
           \/ /\ RecoverNext /\ bot'.flow = bot.flow /\ bot'.back = bot.back /\ SameErrand
              /\ bot'.todo = bot.todo \ {Min(bot.todo)} /\ bot'.ord = Min(bot.todo) /\ bot'.why = bot.why
           \/ RecoverEnd /\ (Rests \/ bot' = [Idle("exit") EXCEPT !.pc = "decide"])
           \/ (LoopEnd \/ ForceExitEnd) /\ Rests
           \/ /\ LoopEnd /\ bot'.pc \in {"create", "placed"} /\ SameLoop /\ SameErrand /\ SameHand
              /\ bot'.pc = "create" => AllCanceled
              /\ bot'.pc = "placed" => ~bot'.ret /\ ~AllCanceled
           \/ /\ ForceExitEnd /\ bot'.pc = "exit" /\ bot.goal = "exit" /\ AllCanceled
              /\ bot'.goal = bot.goal /\ bot'.sake = bot.sake /\ SameLoop /\ SameHand
              /\ \E part \in {0} \cup ExitableParts : bot'.amt = IF part = trade.amount THEN 0 ELSE part
<1> USE DEF SameLoop, SameErrand, SameHand, BotFields
<1>1. CASE LoopFetch \/ AssumeCanceled
  BY <1>1 DEF LoopFetch, AssumeCanceled
<1>2. CASE LoopFetchFails
  <2> DEFINE b == [bot EXCEPT !.todo = @ \ {Min(Left)}]
  <2>1. /\ DOMAIN b = BotFields /\ b.todo = bot.todo \ {Min(Left)} /\ b.flow = bot.flow /\ b.back = bot.back
        /\ b.goal = bot.goal /\ b.amt = bot.amt /\ b.sake = bot.sake
    OBVIOUS
  <2>2. bot' = NextOrder(b) \/ bot' = Idle(bot.phase)
    BY <1>2 DEF LoopFetchFails
  <2> HIDE DEF b
  <2>3. LET c == NextOrder(b)
        IN  /\ c.pc = "loop" /\ c.flow = b.flow /\ c.todo = b.todo /\ c.back = b.back
            /\ c.goal = b.goal /\ c.amt = b.amt /\ c.sake = b.sake /\ c.why = "none"
    BY <2>1, HelperFields
  <2> QED
    BY <1>2, <2>1, <2>2, <2>3 DEF Rests
<1>3. CASE RecoverNext
  BY <1>3 DEF RecoverNext
<1>4. CASE RecoverEnd
  BY <1>4 DEF RecoverEnd, Rests
<1>5. CASE LoopEnd
  <2>1. \/ Rests
        \/ AllCanceled /\ bot' = [bot EXCEPT !.pc = "create"]
        \/ ~AllCanceled /\ bot' = [bot EXCEPT !.pc = "placed", !.ret = FALSE]
    <3>1. \A phase : bot' = Idle(phase) => Rests
      BY DEF Rests
    <3>2. bot' = Stopped => Rests
      BY DEF Rests
    <3> QED
      BY <1>5, <3>1, <3>2 DEF LoopEnd
  <2>2. bot' = [bot EXCEPT !.pc = "create"] =>
          bot'.pc = "create" /\ SameLoop /\ SameErrand /\ SameHand
    OBVIOUS
  <2>3. bot' = [bot EXCEPT !.pc = "placed", !.ret = FALSE] =>
          bot'.pc = "placed" /\ ~bot'.ret /\ SameLoop /\ SameErrand /\ SameHand
    OBVIOUS
  <2> QED
    BY <1>5, <2>1, <2>2, <2>3
<1>6. CASE ForceExitEnd
  <2>1. ASSUME NEW amt, bot' = [bot EXCEPT !.pc = "exit", !.amt = amt]
        PROVE  /\ bot'.pc = "exit" /\ bot'.goal = bot.goal /\ bot'.sake = bot.sake
               /\ SameLoop /\ SameHand /\ bot'.amt = amt
    BY <2>1
  <2> QED
    BY <1>6, <2>1 DEF ForceExitEnd, Rests
<1> QED
  BY <1>1, <1>2, <1>3, <1>4, <1>5, <1>6 DEF LoopStep

LEMMA RecoverFields ==
    ASSUME NEW STATE b, DOMAIN b = BotFields, Recover(b)
    PROVE  /\ bot'.pc = "loop" /\ bot'.flow = "recover" /\ bot'.goal = b.goal /\ bot'.amt = b.amt
           /\ bot'.todo = {o \in Orders : ex[o].status # "none"} /\ bot'.sake = b.sake
           /\ bot'.back = b.back /\ bot'.why = "none"
<1> DEFINE S == {o \in Orders : ex[o].status # "none"}
           c == Loop(b, "recover", S)
<1>1. /\ DOMAIN c = BotFields /\ c.pc = "loop" /\ c.flow = "recover" /\ c.goal = b.goal /\ c.amt = b.amt
      /\ c.todo = S /\ c.sake = b.sake /\ c.back = b.back /\ c.why = "none"
  <2> HIDE DEF S
  <2> QED
    BY LoopSets
<1>2. bot' = [c EXCEPT !.seen = [o \in Orders |-> View(o)]]
  BY DEF Recover
<1> HIDE DEF c
<1> QED
  BY <1>1, <1>2 DEF BotFields

LEMMA PhaseFields ==
    ASSUME DOMAIN bot = BotFields, PhaseStep
    PROVE  \/ Rests
           \/ /\ FeesPhase /\ bot'.pc = "update_order" /\ bot'.flow = "fees" /\ bot'.ord \in FeeOrder
              /\ bot'.todo = bot.todo /\ bot'.back = bot.back /\ SameErrand /\ bot'.why = bot.why
              /\ bot'.inCancel = bot.inCancel
           \/ /\ ManagePhase /\ trade.st = "open" /\ bot' = Loop(bot, "manage", OpenOrders)
           \/ /\ ExitPhase /\ trade.st = "open" /\ OpenOrders = {} /\ Wallet < trade.amount
              /\ bot'.pc = "loop" /\ bot'.flow = "recover" /\ bot'.sake = "exit"
              /\ bot'.goal = bot.goal /\ bot'.amt = bot.amt /\ bot'.back = bot.back /\ bot'.why = "none"
              /\ bot'.todo = {o \in Orders : ex[o].status # "none"}
           \/ ExitPhase /\ bot'.pc = "decide" /\ bot' = [bot EXCEPT !.pc = "decide"]
           \/ /\ DecideExit /\ trade.st = "open" /\ trade.amount > 0 /\ SameLoop /\ SameHand
              /\ bot'.pc = "exit" /\ bot'.goal = "exit" /\ bot'.amt = bot.amt /\ bot'.sake = "exit"
           \/ /\ AdjustPhase /\ AdjustAmount > 0 /\ trade.st = "open" /\ SameLoop /\ SameHand
              /\ bot'.pc = "entry" /\ bot'.goal = "entry" /\ bot'.amt = AdjustAmount /\ bot'.sake = "adjust"
           \/ /\ AdjustPhase /\ AdjustAmount > 0 /\ trade.st = "open" /\ SameLoop /\ SameHand
              /\ bot'.pc = "exit" /\ bot'.goal = "exit" /\ bot'.amt \in ExitableParts /\ bot'.sake = "adjust"
           \/ /\ EnterPhase /\ trade.st = "none" /\ SameLoop /\ SameHand
              /\ bot'.pc = "create" /\ bot'.goal = "entry" /\ bot'.amt = EntryAmount /\ bot'.sake = "enter"
<1>0. \A phase : Skip(phase) => Rests
  BY DEF Skip, Rests
<1>1. CASE FeesPhase
  <2>1. ASSUME NEW o \in FeeOrder,
               bot' = [bot EXCEPT !.pc = "update_order", !.flow = "fees", !.ord = o, !.seen[o] = View(o)]
        PROVE  /\ bot'.pc = "update_order" /\ bot'.flow = "fees" /\ bot'.ord \in FeeOrder
               /\ bot'.todo = bot.todo /\ bot'.back = bot.back /\ SameErrand /\ bot'.why = bot.why
               /\ bot'.inCancel = bot.inCancel
    BY <2>1 DEF SameErrand, BotFields
  <2> QED
    BY <1>0, <1>1, <2>1 DEF FeesPhase
<1>2. CASE ManagePhase
  BY <1>0, <1>2 DEF ManagePhase, Managed
<1>3. CASE ExitPhase
  <2> DEFINE b == [bot EXCEPT !.sake = "exit"]
  <2>1. DOMAIN b = BotFields /\ b.sake = "exit" /\ b.goal = bot.goal /\ b.amt = bot.amt /\ b.back = bot.back
    BY DEF BotFields
  <2> HIDE DEF b
  <2>2. Recover(b) => /\ bot'.pc = "loop" /\ bot'.flow = "recover" /\ bot'.sake = "exit"
                      /\ bot'.goal = bot.goal /\ bot'.amt = bot.amt /\ bot'.back = bot.back
                      /\ bot'.todo = {o \in Orders : ex[o].status # "none"} /\ bot'.why = "none"
    BY <2>1, RecoverFields
  <2>3. bot' = [bot EXCEPT !.pc = "decide"] => bot'.pc = "decide"
    BY DEF BotFields
  <2> QED
    BY <1>0, <1>3, <2>2, <2>3 DEF ExitPhase, b
<1>4. CASE DecideExit
  <2>1. bot' = [bot EXCEPT !.pc = "exit", !.goal = "exit", !.sake = "exit"] =>
          /\ SameLoop /\ SameHand
          /\ bot'.pc = "exit" /\ bot'.goal = "exit" /\ bot'.amt = bot.amt /\ bot'.sake = "exit"
    BY DEF SameLoop, SameHand, BotFields
  <2> QED
    BY <1>4, <2>1 DEF DecideExit, Rests
<1>5. CASE AdjustPhase
  <2>1. bot' = [bot EXCEPT !.pc = "entry", !.goal = "entry", !.amt = AdjustAmount, !.sake = "adjust"] =>
          /\ SameLoop /\ SameHand
          /\ bot'.pc = "entry" /\ bot'.goal = "entry" /\ bot'.amt = AdjustAmount /\ bot'.sake = "adjust"
    BY DEF SameLoop, SameHand, BotFields
  <2>2. ASSUME NEW part \in ExitableParts,
               bot' = [bot EXCEPT !.pc = "exit", !.goal = "exit", !.amt = part, !.sake = "adjust"]
        PROVE  /\ SameLoop /\ SameHand
               /\ bot'.pc = "exit" /\ bot'.goal = "exit" /\ bot'.amt \in ExitableParts /\ bot'.sake = "adjust"
    BY <2>2 DEF SameLoop, SameHand, BotFields
  <2> QED
    BY <1>0, <1>5, <2>1, <2>2 DEF AdjustPhase
<1>6. CASE EnterPhase
  <2>1. bot' = [bot EXCEPT !.pc = "create", !.goal = "entry", !.amt = EntryAmount, !.sake = "enter"] =>
          /\ SameLoop /\ SameHand
          /\ bot'.pc = "create" /\ bot'.goal = "entry" /\ bot'.amt = EntryAmount /\ bot'.sake = "enter"
    BY DEF SameLoop, SameHand, BotFields
  <2> QED
    BY <1>0, <1>6, <2>1 DEF EnterPhase
<1> QED
  BY <1>1, <1>2, <1>3, <1>4, <1>5, <1>6 DEF PhaseStep

LEMMA CommandFields ==
    ASSUME DOMAIN bot = BotFields, RPC
    PROVE  \/ /\ ForceExit /\ trade.st = "open" /\ bot'.pc = "loop" /\ bot'.flow = "forceexit"
              /\ bot'.todo = OpenOrders /\ bot'.goal = "exit" /\ bot'.amt = bot.amt
              /\ bot'.sake = "forceexit" /\ bot'.back = bot.back /\ bot'.why = "none"
           \/ CancelOpenOrder /\ trade.st = "open" /\ bot' = Loop(bot, "cancel_open_order", OpenOrders)
           \/ DeleteTrade /\ Delete /\ bot' = bot
           \/ /\ ReloadTrade /\ bot'.pc = "loop" /\ bot'.flow = "recover" /\ SameErrand
              /\ bot'.todo = {o \in Orders : ex[o].status # "none"} /\ bot'.back = bot.back
              /\ bot'.why = "none"
<1>1. CASE ForceExit
  <2> DEFINE c == Loop(bot, "forceexit", OpenOrders)
  <2>1. /\ DOMAIN c = BotFields /\ c.pc = "loop" /\ c.flow = "forceexit" /\ c.todo = OpenOrders
        /\ c.amt = bot.amt /\ c.back = bot.back /\ c.why = "none"
    BY LoopSets
  <2> HIDE DEF c
  <2>2. bot' = [c EXCEPT !.goal = "exit", !.sake = "forceexit"]
    BY <1>1 DEF ForceExit, c
  <2> QED
    BY <1>1, <2>1, <2>2 DEF ForceExit, BotFields
<1>2. CASE ReloadTrade
  BY <1>2, RecoverFields DEF ReloadTrade, SameErrand
<1> QED
  BY <1>1, <1>2 DEF RPC, CancelOpenOrder, DeleteTrade

LEMMA LifecycleFields ==
    ASSUME DOMAIN bot = BotFields, Lifecycle
    PROVE  \/ Rests
           \/ StoppedCancelAll /\ bot' = Loop(bot, "stop", OpenOrders)
           \/ Startup /\ bot' = Loop(Idle("fees"), "startup", OpenOrders)
BY DEF Lifecycle, Stop, StoppedCancelAll, Startup, Crash, Rests

-----------------------------------------------------------------------------
(* What lasts: the record of a final order, and the deletion of a trade.       *)

LEMMA FinalIsKnown ==
    ASSUME FinalOrdersAgree, NEW o \in Orders, IsFinal(db[o])
    PROVE  ex[o].status = db[o].status /\ ex[o].filled = db[o].filled
<1>1. db[o] = [status |-> ex[o].status, filled |-> ex[o].filled]
  BY DEF FinalOrdersAgree, View, ViewIn
<1> QED
  BY <1>1

LEMMA FinalStays ==
    ASSUME Agreement, Typed, SeenFinal, Next, NEW o \in Orders, IsFinal(db[o])
    PROVE  db'[o] = db[o] \/ Delete
<1>1. CASE UpdateOrder \/ RecordOrder
  <2>1. /\ db' = [db EXCEPT ![bot.ord] = bot.seen[bot.ord]]
        /\ bot.ord \in HeldBy(bot) /\ bot.ord \in Orders
    BY <1>1 DEF UpdateOrder, RecordOrder, HeldBy, Writing, Typed, BotTyped
  <2>2. IsFinal(db[bot.ord]) => bot.seen[bot.ord] = db[bot.ord]
    BY <2>1 DEF SeenFinal, Agreement, FinalOrdersAgree, SeenAgrees
  <2> QED
    BY <2>1, <2>2 DEF Typed
<1>2. CASE UpdateTradeRow \/ Crash
  BY <1>2 DEF UpdateTradeRow, Crash
<1> QED
  BY <1>1, <1>2, Writers

LEMMA DeletedStays == ASSUME Places, Next PROVE StaysDeleted
<1>1. CASE UpdateTradeRow
  BY <1>1, AliveAt DEF UpdateTradeRow, Updating, Alive, StaysDeleted
<1>2. CASE RecordOrder
  BY <1>2 DEF RecordOrder, Places, Ends, Resting, StaysDeleted
<1>3. CASE UpdateOrder
  BY <1>3 DEF UpdateOrder, StaysDeleted
<1> QED
  BY <1>1, <1>2, <1>3, Writers DEF Delete, NoTrade, StaysDeleted

\* A filled order of one side stays one as long as the trade is there.
LEMMA FilledStay ==
    ASSUME Agreement, Typed, Typed', SeenFinal, Next, trade'.st # "deleted", NEW side
    PROVE  FilledOrders(side) \subseteq FilledOrders(side)'
<1>1. Lasting
  BY OrdersLast
<1>2. ~Delete
  BY DEF Delete, NoTrade
<1>3. ASSUME NEW o \in FilledOrders(side)
      PROVE  o \in FilledOrders(side)'
  <2>1. o \in Orders /\ IsFinal(db[o]) /\ db[o].filled > 0 /\ ex[o].side = side
    BY <1>3 DEF FilledOrders
  <2>2. db'[o] = db[o]
    BY <1>2, <2>1, FinalStays
  <2>3. ex[o].status # "none"
    BY <2>1, FinalIsKnown DEF Agreement, IsFinal
  <2>4. ex'[o].side = side
    BY <1>1, <2>1, <2>3 DEF Lasting
  <2> QED
    BY <2>1, <2>2, <2>4 DEF FilledOrders
<1> QED
  BY <1>3

\* A sum without a filled entry in it is not positive.
LEMMA NothingBought ==
    ASSUME Typed, FilledOrders("buy") = {}
    PROVE  ~(NetAmount(db) > 0)
<1>1. \A o \in Orders : ~(Share(ex, db, o) > 0)
  <2> TAKE o \in Orders
  <2>1. db[o].filled \in Nat
    BY DEF Typed, OrderRecord
  <2>2. IsFinal(db[o]) /\ ex[o].side = "buy" => ~(db[o].filled > 0)
    BY DEF FilledOrders
  <2>3. ~(-db[o].filled > 0) /\ ~(0 > 0)
    BY <2>1
  <2> QED
    BY <2>2, <2>3 DEF Share
<1> QED
  BY <1>1, NetNow, PositiveTotal DEF Typed

LEMMA NothingBoughtThen ==
    ASSUME Typed', FilledOrders("buy")' = {}
    PROVE  ~(NetAmount(db)' > 0)
<1>1. \A o \in Orders : ~(Share(ex', db', o) > 0)
  <2> TAKE o \in Orders
  <2>1. db'[o].filled \in Nat
    BY DEF Typed, OrderRecord
  <2>2. IsFinal(db'[o]) /\ ex'[o].side = "buy" => ~(db'[o].filled > 0)
    BY DEF FilledOrders
  <2>3. ~(-db'[o].filled > 0) /\ ~(0 > 0)
    BY <2>1
  <2> QED
    BY <2>2, <2>3 DEF Share
<1> QED
  BY <1>1, NetThen, PositiveTotal DEF Typed

-----------------------------------------------------------------------------
(* The orders in hand exist, and a bot at rest has nothing in hand.            *)

InHand == Canceling \cup Updating \cup {"record"}

RecordsKnown == \A o \in Orders : db[o].status # "none" => ex[o].status # "none"

SeenKnown == \A o \in Orders : bot.seen[o].status # "none" => ex[o].status # "none"

HandKnown ==
    /\ bot.pc \in InHand => ex[bot.ord].status # "none"
    /\ bot.flow = "recover" => \A o \in bot.todo : ex[o].status # "none"

Known == RecordsKnown /\ SeenKnown /\ HandKnown

Rested ==
    /\ bot.pc = "idle" => bot = Idle(bot.phase)
    /\ bot.pc = "decide" => bot = [Idle("exit") EXCEPT !.pc = "decide"]
    /\ bot.pc = "stopped" => bot = Stopped
    /\ bot.pc = "down" => bot = Down
    /\ bot.flow = "forceexit" => bot.goal # "entry"

LEMMA NextRecordsKnown ==
    ASSUME Typed, Fills, Places, Known, ~OrdersLost, Next
    PROVE  RecordsKnown' /\ SeenKnown'
<1> USE DEF Fills, SeenBehind
<1>0. Lasting
  BY OrdersLast
<1>1. CASE Quiet(bot, bot') /\ Kept
  <2>1. RecordsKnown'
    BY <1>0, <1>1 DEF Kept, Delete, Nothing, Known, RecordsKnown, Lasting
  <2>2. SeenKnown'
    BY <1>0, <1>1 DEF Quiet, Blank, Nothing, Known, SeenKnown, Lasting
  <2> QED
    BY <2>1, <2>2
<1>2. CASE Looks
  <2>1. PICK o \in Orders : Fetches(o, [status |-> ex'[o].status, filled |-> ex'[o].filled])
    BY <1>2 DEF Looks
  <2>2. RecordsKnown'
    BY <1>0, <1>2 DEF Looks, Known, RecordsKnown, Lasting
  <2>3. SeenKnown'
    BY <1>0, <2>1 DEF Fetches, Known, SeenKnown, Lasting
  <2> QED
    BY <2>2, <2>3
<1>3. CASE FetchesAll /\ UNCHANGED <<ex, db>>
  <2>1. \A o \in Orders : bot'.seen[o].status = ex'[o].status
    BY <1>3 DEF FetchesAll, View, ViewIn
  <2> QED
    BY <1>3, <2>1 DEF Known, RecordsKnown, SeenKnown
<1>4. CASE UpdateOrder \/ RecordOrder
  <2>1. /\ db' = [db EXCEPT ![bot.ord] = bot.seen[bot.ord]]
        /\ bot'.seen = bot.seen /\ UNCHANGED ex /\ bot.ord \in Orders
    BY <1>4, Writes DEF Typed, BotTyped
  <2> QED
    BY <2>1 DEF Known, RecordsKnown, SeenKnown, Typed
<1> QED
  BY <1>1, <1>2, <1>3, <1>4, StepKinds

-----------------------------------------------------------------------------
(* The order in hand exists on the exchange, through all moves.                *)

LEMMA RestsRest ==
    ASSUME Rests
    PROVE  /\ bot'.pc \in Resting /\ bot'.flow = "none" /\ bot'.goal = "none" /\ bot'.amt = 0
           /\ bot'.todo = {} /\ bot'.back = NoLoop /\ bot'.sake = "none" /\ bot'.why = "none"
BY RestFields DEF Rests, Resting

\* A step that changes neither the order in hand nor the list of a recovery.
LEMMA HandStays ==
    ASSUME Known, Lasting, Typed,
           bot'.pc \in InHand => bot'.ord = bot.ord /\ bot.pc \in InHand,
           bot'.flow = "recover" => bot.flow = "recover" /\ bot'.todo \subseteq bot.todo
    PROVE  HandKnown'
BY DEF Known, HandKnown, Lasting, Typed, BotTyped

LEMMA RestsHand == ASSUME Rests PROVE HandKnown'
BY RestsRest DEF HandKnown, InHand, Canceling, Updating, Resting

\* The order that a loop takes up is one of its list.
LEMMA Takes ==
    ASSUME Typed
    PROVE  /\ Left # {} => Min(Left) \in Left
           /\ bot.todo # {} => Min(bot.todo) \in bot.todo
<1>1. Left \in SUBSET Nat /\ bot.todo \in SUBSET Nat
  BY OrdersFinite DEF Typed, BotTyped, Left
<1> QED
  BY <1>1, SmallestIsMember

LEMMA NextHandKnown ==
    ASSUME Typed, Fills, Places, Known, Agreement, ~OrdersLost, Next
    PROVE  HandKnown'
<1>0. DOMAIN bot = BotFields /\ Lasting /\ Course(bot) /\ Control(bot)
  BY OrdersLast DEF Places, Course, Fills
<1> USE DEF InHand, Canceling, Updating
<1>1. CASE Exchange
  <2>1. UNCHANGED bot
    BY <1>1 DEF Exchange, Fill, CanceledOnExchange
  <2> QED
    BY <1>0, <2>1, HandStays
<1>2. CASE UpdateStep
  <2>1. bot.pc \in Updating
    BY <1>0, <1>2, UpdateMoves DEF UpdateStep
  <2>2. CASE bot' = NextOrder(bot)
    <3>1. bot'.pc = "loop" /\ bot'.flow = bot.flow /\ bot'.todo = bot.todo
      BY <1>0, <2>2, HelperFields
    <3> QED
      BY <1>0, <3>1, HandStays
  <2>3. CASE bot' = Idle("manage")
    BY <2>3, RestsHand DEF Rests
  <2>4. CASE SameLoop /\ bot'.ord = bot.ord
    BY <1>0, <2>1, <2>4, HandStays DEF SameLoop
  <2> QED
    BY <1>0, <1>2, <2>2, <2>3, <2>4, UpdateFields DEF SameHand
<1>3. CASE CancelStep
  <2>1. bot.pc \in Canceling
    BY <1>0, <1>3, CancelMoves
  <2>2. CASE SameLoop /\ SameHand
    BY <1>0, <2>1, <2>2, HandStays DEF SameLoop, SameHand
  <2>3. CASE Rests
    BY <2>3, RestsHand
  <2>4. CASE Canceled
    <3>1. CASE \E goal \in {"entry", "exit"} : \E amt, sake : Place(goal, amt, sake)
      <4>1. bot'.pc \in {"entry", "exit"} /\ bot'.flow = bot.flow /\ bot'.todo = bot.todo
        BY <1>0, <3>1, PlaceSets
      <4> QED
        BY <1>0, <4>1, HandStays
    <3>2. CASE bot' = NextOrder(bot) \/ bot' = [NextOrder(bot) EXCEPT !.goal = "none"]
      <4> DEFINE c == NextOrder(bot)
      <4>1. DOMAIN c = BotFields /\ c.pc = "loop" /\ c.flow = bot.flow /\ c.todo = bot.todo
        BY <1>0, HelperFields
      <4> HIDE DEF c
      <4>2. bot' = c \/ bot' = [c EXCEPT !.goal = "none"]
        BY <3>2 DEF c
      <4>3. bot'.pc = "loop" /\ bot'.flow = bot.flow /\ bot'.todo = bot.todo
        BY <4>1, <4>2 DEF BotFields
      <4> QED
        BY <1>0, <4>3, HandStays
    <3> QED
      BY <1>0, <2>4, <3>1, <3>2, CanceledEnds
  <2> QED
    BY <1>0, <1>3, <2>2, <2>3, <2>4, CancelFields
<1>4. CASE PlaceStep
  <2>1. CASE CreateOrder
    <3>1. PICK n \in Orders, filled \in {0, bot.amt} :
             /\ ex' = [ex EXCEPT ![n] =
                         [side   |-> IF bot.goal = "entry" THEN "buy" ELSE "sell",
                          amount |-> bot.amt, filled |-> filled,
                          status |-> IF filled = 0 THEN "open" ELSE "closed"]]
             /\ bot' = [bot EXCEPT !.pc = "record", !.flow = "placed",
                                   !.ord = n, !.seen[n] = ViewIn(ex', n)]
      BY <2>1 DEF CreateOrder
    <3>2. ex'[n].status # "none"
      BY <3>1 DEF Typed
    <3>3. bot'.ord = n /\ bot'.flow = "placed"
      BY <1>0, <3>1 DEF BotFields
    <3> QED
      BY <3>2, <3>3 DEF HandKnown
  <2>2. CASE RecordOrder
    BY <1>0, <2>2, PlaceMoves, HandStays DEF RecordOrder, BotFields
  <2>3. CASE (PrepareEntry \/ PrepareExit \/ CreateRejected) /\ NotPlaced
    <3>1. bot'.pc = "placed" /\ SameLoop
      BY <1>0, <2>3, NotPlacedSets
    <3> QED
      BY <1>0, <3>1, HandStays DEF SameLoop
  <2>4. CASE (PrepareEntry \/ PrepareExit) /\ \E amt : ClearTheWay(amt)
    <3>1. \/ bot'.pc \in {"placed", "create"} /\ SameLoop
          \/ bot'.pc = "loop" /\ bot'.flow = "similar"
      BY <1>0, <2>4, NotPlacedSets, ClearTheWaySets
    <3> QED
      BY <1>0, <3>1, HandStays DEF SameLoop
  <2>5. CASE bot' = Resume(bot)
    <3>1. bot'.pc = "loop" /\ bot'.flow # "recover"
      BY <1>0, <2>5, HelperFields DEF Control
    <3> QED
      BY <1>0, <3>1, HandStays
  <2>6. CASE Rests
    BY <2>6, RestsHand
  <2> QED
    BY <1>0, <1>4, <2>1, <2>2, <2>3, <2>4, <2>5, <2>6, PlaceFields
<1>5. CASE LoopStep
  <2>0. UNCHANGED ex /\ bot.pc = "loop"
    BY <1>0, <1>5, LoopMoves DEF LoopStep, LoopFetch, LoopFetchFails, AssumeCanceled, RecoverNext,
                                 RecoverEnd, LoopEnd, ForceExitEnd
  <2>1. CASE LoopFetch
    <3>1. bot'.ord = Min(Left) /\ bot'.flow = bot.flow /\ bot.flow # "recover" /\ Left # {}
      BY <1>0, <2>1 DEF LoopFetch, BotFields
    <3>2. Min(Left) \in Orders /\ db[Min(Left)].status # "none"
      BY <3>1, Takes DEF Left, Recorded
    <3> QED
      BY <2>0, <3>1, <3>2 DEF HandKnown, Known, RecordsKnown
  <2>2. CASE RecoverNext
    <3>1. Min(bot.todo) \in bot.todo
      BY <2>2, Takes DEF RecoverNext
    <3>2. /\ bot'.ord = Min(bot.todo) /\ bot'.todo \subseteq bot.todo /\ bot.flow = "recover"
      BY <1>0, <2>2 DEF RecoverNext, BotFields
    <3> QED
      BY <2>0, <3>1, <3>2 DEF HandKnown, Known
  <2>3. CASE Rests
    BY <2>3, RestsHand
  <2>4. CASE bot' = [Idle("exit") EXCEPT !.pc = "decide"]
    <3>1. bot'.pc = "decide" /\ bot'.flow = "none"
      BY <2>4, RestFields DEF BotFields
    <3> QED
      BY <3>1 DEF HandKnown
  <2>5. CASE bot'.pc \in {"loop", "create", "placed", "exit"} /\ bot'.flow = bot.flow
             /\ bot'.todo \subseteq bot.todo
    BY <1>0, <2>5, HandStays
  <2> QED
    BY <1>0, <1>5, <2>1, <2>2, <2>3, <2>4, <2>5, LoopFields DEF AssumeCanceled, SameLoop
<1>6. CASE PhaseStep
  <2>0. bot.flow # "recover" /\ UNCHANGED ex
    BY <1>0, <1>6, PhaseMoves, PhaseQuiet DEF Control, RecoverPlaces
  <2>1. CASE Rests
    BY <2>1, RestsHand
  <2>2. CASE bot'.flow = "fees" /\ bot'.ord \in FeeOrder
    <3>1. bot'.ord \in Orders /\ IsFinal(db[bot'.ord])
      BY <2>2 DEF FeeOrder, FilledOrders
    <3>2. ex[bot'.ord].status # "none"
      BY <3>1, FinalIsKnown DEF Agreement, IsFinal
    <3> QED
      BY <2>0, <2>2, <3>2 DEF HandKnown
  <2>3. CASE bot' = Loop(bot, "manage", OpenOrders)
    <3>1. bot'.pc = "loop" /\ bot'.flow = "manage"
      BY <1>0, <2>3, LoopSets
    <3> QED
      BY <3>1 DEF HandKnown
  <2>4. CASE bot'.pc = "loop" /\ bot'.todo = {o \in Orders : ex[o].status # "none"}
    BY <2>0, <2>4 DEF HandKnown
  <2>5. CASE bot'.pc \in {"decide", "exit", "entry", "create"} /\ bot'.flow = bot.flow
    BY <2>0, <2>5 DEF HandKnown
  <2>6. bot' = [bot EXCEPT !.pc = "decide"] => bot'.pc = "decide" /\ bot'.flow = bot.flow
    BY <1>0 DEF BotFields
  <2> QED
    BY <1>0, <1>6, <2>1, <2>2, <2>3, <2>4, <2>5, <2>6, PhaseFields DEF SameLoop
<1>7. CASE RPC
  <2>1. CASE bot'.pc = "loop" /\ bot'.flow # "recover"
    BY <2>1 DEF HandKnown
  <2>2. CASE ReloadTrade /\ bot'.pc = "loop" /\ bot'.todo = {o \in Orders : ex[o].status # "none"}
    BY <2>2 DEF HandKnown, ReloadTrade
  <2>3. CASE bot' = bot
    BY <1>0, <2>3, HandStays
  <2>4. bot' = Loop(bot, "cancel_open_order", OpenOrders) => bot'.pc = "loop" /\ bot'.flow # "recover"
    BY <1>0, LoopSets
  <2> QED
    BY <1>0, <1>7, <2>1, <2>2, <2>3, <2>4, CommandFields
<1>8. CASE Lifecycle
  <2>1. bot' = Loop(bot, "stop", OpenOrders) => bot'.pc = "loop" /\ bot'.flow # "recover"
    BY <1>0, LoopSets
  <2>2. bot' = Loop(Idle("fees"), "startup", OpenOrders) => bot'.pc = "loop" /\ bot'.flow # "recover"
    BY RestFields, LoopSets
  <2>3. bot'.pc = "loop" /\ bot'.flow # "recover" => HandKnown'
    BY DEF HandKnown
  <2> QED
    BY <1>0, <1>8, <2>1, <2>2, <2>3, RestsHand, LifecycleFields
<1> QED
  BY <1>1, <1>2, <1>3, <1>4, <1>5, <1>6, <1>7, <1>8 DEF Next, Bot

-----------------------------------------------------------------------------
(* A bot at rest holds nothing.                                               *)

LEMMA RestsRested == ASSUME Rests PROVE Rested'
<1>1. CASE bot' = Down \/ bot' = Stopped
  <2>1. Down.pc = "down" /\ Stopped.pc = "stopped" /\ bot'.flow = "none"
    BY <1>1, RestFields DEF Down, Stopped, Idle
  <2> QED
    BY <1>1, <2>1 DEF Rested
<1>2. ASSUME NEW phase, bot' = Idle(phase) PROVE Rested'
  <2>1. bot'.pc = "idle" /\ bot'.phase = phase /\ bot'.flow = "none"
    BY <1>2, RestFields
  <2> QED
    BY <1>2, <2>1 DEF Rested
<1> QED
  BY <1>1, <1>2 DEF Rests

\* A step that is not on the way to rest.
LEMMA Working ==
    ASSUME Rested, bot'.pc \notin Resting \cup {"decide"},
           \/ bot'.flow # "forceexit" \/ bot'.goal # "entry"
           \/ bot'.flow = bot.flow /\ bot'.goal = bot.goal
    PROVE  Rested'
BY DEF Rested, Resting

LEMMA NextRested == ASSUME Places, Rested, Next PROVE Rested'
<1>0. DOMAIN bot = BotFields /\ Course(bot)
  BY DEF Places, Course
<1> USE DEF Resting
<1>1. CASE Exchange
  <2>1. UNCHANGED bot
    BY <1>1 DEF Exchange, Fill, CanceledOnExchange
  <2> QED
    BY <2>1 DEF Rested
<1>2. CASE UpdateStep
  <2>1. CASE bot' = NextOrder(bot)
    <3>1. bot'.pc = "loop" /\ bot'.flow = bot.flow /\ bot'.goal = bot.goal
      BY <1>0, <2>1, HelperFields
    <3> QED
      BY <3>1, Working
  <2>2. CASE bot' = Idle("manage")
    BY <2>2, RestsRested DEF Rests
  <2>3. CASE SameLoop /\ SameErrand
    <3>1. bot'.pc \notin {"idle", "decide", "stopped", "down"}
      <4>1. CASE UpdateOrder \/ UpdateTradeRow
        BY <1>0, <4>1, UpdateMoves
      <4>2. CASE bot'.pc \in {"canceled", "placed", "cancel"}
        BY <4>2
      <4>3. CASE bot' = NextOrder(bot)
        BY <1>0, <4>3, HelperFields
      <4>4. CASE bot.flow = "fees" /\ bot' = Idle("manage")
        BY <4>4, <2>3, RestFields DEF SameLoop
      <4> QED
        BY <1>0, <1>2, <4>1, <4>2, <4>3, <4>4, UpdateFields
    <3> QED
      BY <2>3, <3>1, Working DEF SameLoop, SameErrand
  <2> QED
    BY <1>0, <1>2, <2>1, <2>2, <2>3, UpdateFields
<1>3. CASE CancelStep
  <2>1. CASE Rests
    BY <2>1, RestsRested
  <2>2. CASE /\ CancelKeep \/ CancelKnown \/ CancelOnExchange \/ CancelEnterResult \/ CancelExitResult
             /\ SameLoop /\ SameErrand
    <3>1. bot'.pc \notin {"idle", "decide", "stopped", "down"}
      BY <1>0, <2>2 DEF CancelKeep, CancelKnown, CancelOnExchange, CancelEnterResult,
                              CancelExitResult, BotFields
    <3> QED
      BY <2>2, <3>1, Working DEF SameLoop, SameErrand
  <2>3. CASE bot'.pc = "placed" /\ SameLoop /\ SameErrand
    BY <2>3, Working DEF SameLoop, SameErrand
  <2>4. CASE Canceled
    <3>1. ASSUME NEW amt, NEW sake, Place("exit", amt, sake) PROVE Rested'
      <4>1. bot'.pc = "exit" /\ bot'.goal = "exit"
        BY <1>0, <3>1, PlaceSets
      <4> QED
        BY <4>1, Working
    <3>2. ASSUME NEW amt, NEW sake, Place("entry", amt, sake), bot.why = "replace" PROVE Rested'
      <4>1. bot'.pc = "entry" /\ bot'.flow = bot.flow
        BY <1>0, <3>2, PlaceSets
      <4>2. bot.flow # "forceexit"
        BY <1>0, <3>2 DEF Course
      <4> QED
        BY <4>1, <4>2, Working
    <3> DEFINE c == NextOrder(bot)
    <3>3. DOMAIN c = BotFields /\ c.pc = "loop" /\ c.flow = bot.flow /\ c.goal = bot.goal
      BY <1>0, HelperFields
    <3> HIDE DEF c
    <3>4. CASE bot' = c
      BY <3>3, <3>4, Working
    <3>5. CASE bot' = [c EXCEPT !.goal = "none"]
      <4>1. bot'.pc = "loop" /\ bot'.goal = "none"
        BY <3>3, <3>5 DEF BotFields
      <4> QED
        BY <4>1, Working
    <3> QED
      BY <1>0, <2>4, <3>1, <3>2, <3>4, <3>5, CanceledEnds DEF c
  <2> QED
    BY <1>0, <1>3, <2>1, <2>2, <2>3, <2>4, CancelFields
<1>4. CASE PlaceStep
  <2>1. CASE CreateOrder /\ bot'.flow = "placed"
    BY <1>0, <2>1, PlaceMoves, Working
  <2>2. CASE RecordOrder /\ SameLoop /\ SameErrand
    BY <1>0, <2>2, PlaceMoves, Working DEF SameLoop, SameErrand
  <2>3. CASE NotPlaced
    BY <1>0, <2>3, NotPlacedSets, Working DEF SameLoop, SameErrand
  <2>4. ASSUME NEW amt, ClearTheWay(amt) PROVE Rested'
    BY <1>0, <2>3, <2>4, ClearTheWaySets, Working DEF SameLoop
  <2>5. CASE bot.sake \in {"replace", "emergency"} /\ bot' = Resume(bot)
    <3>1. bot'.pc = "loop" /\ bot'.goal = "none"
      BY <1>0, <2>5, HelperFields
    <3> QED
      BY <3>1, Working
  <2>6. CASE Rests
    BY <2>6, RestsRested
  <2> QED
    BY <1>0, <1>4, <2>1, <2>2, <2>3, <2>4, <2>5, <2>6, PlaceFields
<1>5. CASE LoopStep
  <2>1. CASE Rests
    BY <2>1, RestsRested
  <2>2. CASE bot' = [Idle("exit") EXCEPT !.pc = "decide"]
    <3>1. bot'.pc = "decide" /\ bot'.flow = "none"
      BY <2>2, RestFields DEF BotFields
    <3> QED
      BY <2>2, <3>1 DEF Rested
  <2>3. CASE LoopFetch \/ RecoverNext
    BY <1>0, <2>3, Working DEF LoopFetch, RecoverNext, BotFields
  <2>4. CASE bot'.pc \in {"loop", "create", "placed", "exit"} /\ bot'.flow = bot.flow /\ bot'.goal = bot.goal
    BY <2>4, Working
  <2>5. CASE AssumeCanceled
    BY <1>0, <2>5, Working DEF AssumeCanceled, BotFields
  <2> QED
    BY <1>0, <1>5, <2>1, <2>2, <2>3, <2>4, <2>5, LoopFields DEF SameLoop, SameErrand
<1>6. CASE PhaseStep
  <2>1. CASE Rests
    BY <2>1, RestsRested
  <2>2. CASE bot'.pc = "update_order" /\ bot'.flow = "fees"
    BY <2>2, Working
  <2>3. CASE bot' = Loop(bot, "manage", OpenOrders)
    <3>1. bot'.pc = "loop" /\ bot'.flow = "manage"
      BY <1>0, <2>3, LoopSets
    <3> QED
      BY <3>1, Working
  <2>4. CASE bot'.pc = "loop" /\ bot'.flow = "recover"
    BY <2>4, Working
  <2>5. CASE ExitPhase /\ bot' = [bot EXCEPT !.pc = "decide"]
    <3>1. bot = Idle("exit")
      BY <2>5 DEF ExitPhase, Enter, Rested
    <3>2. bot'.pc = "decide" /\ bot'.flow = "none"
      BY <2>5, <3>1, RestFields DEF BotFields
    <3> QED
      BY <2>5, <3>1, <3>2 DEF Rested
  <2>6. CASE bot'.pc = "exit" /\ bot'.goal = "exit"
    BY <2>6, Working
  <2>7. CASE bot.pc = "idle" /\ bot'.pc \in {"entry", "create"} /\ SameLoop
    <3>1. bot.flow = "none"
      BY <2>7, RestFields DEF Rested
    <3> QED
      BY <2>7, <3>1, Working DEF SameLoop
  <2>8. AdjustPhase \/ EnterPhase => bot.pc = "idle"
    BY DEF AdjustPhase, EnterPhase, Enter
  <2> QED
    BY <1>0, <1>6, <2>1, <2>2, <2>3, <2>4, <2>5, <2>6, <2>7, <2>8, PhaseFields
<1>7. CASE RPC
  <2>1. bot' = Loop(bot, "cancel_open_order", OpenOrders) => bot'.pc = "loop" /\ bot'.flow # "forceexit"
    BY <1>0, LoopSets
  <2>2. bot' = bot => Rested'
    BY DEF Rested
  <2> QED
    BY <1>0, <1>7, <2>1, <2>2, CommandFields, Working
<1>8. CASE Lifecycle
  <2>1. bot' = Loop(bot, "stop", OpenOrders) => bot'.pc = "loop" /\ bot'.flow # "forceexit"
    BY <1>0, LoopSets
  <2>2. bot' = Loop(Idle("fees"), "startup", OpenOrders) => bot'.pc = "loop" /\ bot'.flow # "forceexit"
    BY RestFields, LoopSets
  <2> QED
    BY <1>0, <1>8, <2>1, <2>2, RestsRested, LifecycleFields, Working
<1> QED
  BY <1>1, <1>2, <1>3, <1>4, <1>5, <1>6, <1>7, <1>8 DEF Next, Bot

-----------------------------------------------------------------------------
(* Nothing is sold before something was bought.                                *)

AllBuys == \A o \in Orders : ex[o].status # "none" => IsEntry(o)

\* Without an entry to place there is no amount to place.
Spare == bot.goal # "entry" => bot.amt = 0

Bought ==
    trade.st # "deleted" /\ FilledOrders("buy") = {} => trade.amount = 0 /\ AllBuys /\ Spare

\* The inductive invariant.
Purchase == Ledger /\ Known /\ Rested /\ Bought

LEMMA OrdersAppear ==
    ASSUME Typed, Next, ~CreateOrder
    PROVE  \A o \in Orders : ex'[o].status # "none" => ex[o].status # "none"
<1> USE DEF Typed, OrderState
<1>1. CASE UNCHANGED ex
  BY <1>1
<1>2. CASE Exchange
  BY <1>2 DEF Exchange, Fill, CanceledOnExchange, Live
<1>3. CASE UpdateStep
  BY <1>1, <1>3 DEF UpdateStep, UpdateOrder, UpdateTradeRow, Updated
<1>4. CASE CancelStep
  <2>1. CASE RequestCancel
    BY <2>1 DEF RequestCancel, Live
  <2> QED
    BY <1>1, <1>4, <2>1 DEF CancelStep, CancelKeep, CancelOnExchange, CancelRaises, CancelKnown,
                            CancelEnterResult, CancelExitResult, Canceled
<1>5. CASE PlaceStep
  BY <1>1, <1>5 DEF PlaceStep, PrepareEntry, PrepareExit, CreateRejected, RecordOrder, Placed
<1>6. CASE LoopStep
  BY <1>1, <1>6 DEF LoopStep, LoopFetch, LoopFetchFails, AssumeCanceled, RecoverNext, RecoverEnd, LoopEnd,
                    ForceExitEnd
<1>7. CASE PhaseStep
  BY <1>1, <1>7 DEF PhaseStep, FeesPhase, ManagePhase, ExitPhase, DecideExit, AdjustPhase, EnterPhase, Skip
<1>8. CASE RPC
  <2>1. CASE DeleteTrade
    BY <2>1 DEF DeleteTrade, Live
  <2> QED
    BY <1>1, <1>8, <2>1 DEF RPC, ForceExit, CancelOpenOrder, ReloadTrade
<1>9. CASE Lifecycle
  BY <1>1, <1>9 DEF Lifecycle, Stop, StoppedCancelAll, Startup, Crash
<1> QED
  BY <1>2, <1>3, <1>4, <1>5, <1>6, <1>7, <1>8, <1>9 DEF Next, Bot

LEMMA AllStayBuys ==
    ASSUME Typed, Typed', Next, AllBuys, Spare
    PROVE  AllBuys'
<1>1. Lasting
  BY OrdersLast
<1>2. CASE ~CreateOrder
  BY <1>1, <1>2, OrdersAppear DEF AllBuys, Lasting, IsEntry
<1>3. CASE CreateOrder
  <2>1. bot.goal = "entry"
    BY <1>3 DEF CreateOrder, Spare
  <2>2. PICK n \in Orders, filled \in {0, bot.amt} :
           ex' = [ex EXCEPT ![n] = [side |-> "buy", amount |-> bot.amt, filled |-> filled,
                                    status |-> IF filled = 0 THEN "open" ELSE "closed"]]
    BY <1>3, <2>1 DEF CreateOrder
  <2> QED
    BY <2>2 DEF AllBuys, IsEntry, Typed
<1> QED
  BY <1>2, <1>3

LEMMA AmountStaysZero ==
    ASSUME Ledger, Typed', Next, trade.amount = 0, trade'.st # "deleted", AllBuys,
           FilledOrders("buy") = {}, FilledOrders("buy")' = {}
    PROVE  trade'.amount = 0
<1>1. ~(NetAmount(db) > 0) /\ ~(NetAmount(db)' > 0)
  BY NothingBought, NothingBoughtThen DEF Ledger
<1>2. CASE UpdateTradeRow
  <2> DEFINE o == bot.ord
             t == UpdateTrade(trade, db, o, Recalculating)
  <2>1. CASE ~IsFinal(db[o])
    BY <1>2, <2>1 DEF UpdateTradeRow
  <2>2. CASE IsFinal(db[o])
    <3>1. o \in Orders /\ ex[o].status # "none" /\ db[o].filled \in Nat
      <4>1. o \in Orders /\ db[o].filled \in Nat
        BY DEF Ledger, Typed, BotTyped, OrderRecord
      <4> QED
        BY <2>2, <4>1, FinalIsKnown DEF Ledger, Agreement, IsFinal
    <3>2. ex[o].side = "buy"
      BY <3>1 DEF AllBuys, IsEntry
    <3>3. db[o].filled = 0
      BY <2>2, <3>1, <3>2 DEF FilledOrders
    <3>4. t = [trade EXCEPT !.amount = 0]
      <4>1. t = Recalc([trade EXCEPT !.amount = 0], db)
        BY <3>2, <3>3 DEF UpdateTrade
      <4> QED
        BY <1>1, <4>1 DEF Recalc
    <3>5. \E fee : trade' = [t EXCEPT !.fee = fee]
      BY <1>2, <2>2, <3>2 DEF UpdateTradeRow
    <3> HIDE DEF t
    <3> QED
      BY <3>4, <3>5 DEF Ledger, Typed, TradeRow
  <2> QED
    BY <2>1, <2>2
<1>3. CASE RecordOrder
  <2>1. UNCHANGED ex
    BY <1>3 DEF RecordOrder
  <2>2. NetAmount(db') = NetAmount(db)'
    BY <2>1 DEF NetAmount, Flow, IsEntry
  <2>3. trade' = trade \/ trade' = Recalc([trade EXCEPT !.st = "open"], db')
    BY <1>3 DEF RecordOrder
  <2> QED
    BY <1>1, <2>2, <2>3 DEF Recalc, Ledger, Typed, TradeRow
<1>4. CASE UNCHANGED trade
  BY <1>4
<1> QED
  BY <1>2, <1>3, <1>4, Writers DEF UpdateOrder, Delete, NoTrade

\* Without an amount and a sell order there is nothing to take an exit from.
LEMMA SpareStays ==
    ASSUME Ledger, Known, Rested, ~OrdersLost, Next, trade.amount = 0, AllBuys, Spare
    PROVE  Spare'
<1>0. DOMAIN bot = BotFields /\ Course(bot)
  BY DEF Ledger, Places, Course
<1>1. bot'.goal = "entry" \/ bot'.amt = 0 => Spare'
  BY DEF Spare
<1>2. SameErrand => Spare'
  BY DEF SameErrand, Spare
<1>3. \A o \in Orders : ex[o].status # "none" => IsEntry(o)
  BY DEF AllBuys
<1>4. ExitableParts = {}
  BY DEF ExitableParts
<1>5. Rests => Spare'
  BY <1>1, RestsRest
<1>6. CASE Exchange
  BY <1>6 DEF Exchange, Fill, CanceledOnExchange, Spare
<1>7. CASE UpdateStep
  <2>1. bot' = NextOrder(bot) => SameErrand
    BY <1>0, HelperFields DEF SameErrand
  <2> QED
    BY <1>0, <1>2, <1>5, <1>7, <2>1, UpdateFields DEF Rests
<1>8. CASE CancelStep
  <2>1. CASE Canceled
    <3>1. bot.pc = "canceled" /\ bot.ord \in Orders
      BY <2>1 DEF Canceled, Ledger, Typed, BotTyped
    <3>2. ex[bot.ord].status # "none"
      BY <3>1 DEF Known, HandKnown, InHand, Canceling
    <3>3. IsEntry(bot.ord)
      BY <1>3, <3>1, <3>2
    <3>4. ~Emergency
      BY <3>3 DEF Emergency
    <3>5. ASSUME NEW amt, NEW sake, Place("entry", amt, sake) PROVE Spare'
      BY <1>0, <1>1, <3>5, PlaceSets
    <3> DEFINE c == NextOrder(bot)
    <3>6. DOMAIN c = BotFields /\ c.goal = bot.goal /\ c.amt = bot.amt /\ c.sake = bot.sake
      BY <1>0, HelperFields
    <3> HIDE DEF c
    <3>7. bot' = c => Spare'
      BY <1>2, <3>6 DEF SameErrand
    <3>8. CASE bot.flow = "forceexit" /\ bot' = [c EXCEPT !.goal = "none"]
      <4>1. bot.goal # "entry"
        BY <3>8 DEF Rested
      <4>2. bot.amt = 0 /\ bot'.amt = bot.amt
        BY <3>6, <3>8, <4>1 DEF Spare, BotFields
      <4> QED
        BY <1>1, <4>2
    <3> QED
      BY <1>0, <2>1, <3>3, <3>4, <3>5, <3>7, <3>8, CanceledEnds DEF c
  <2> QED
    BY <1>0, <1>2, <1>5, <1>8, <2>1, CancelFields
<1>9. CASE PlaceStep
  <2>1. NotPlaced => Spare'
    BY <1>0, <1>2, NotPlacedSets
  <2>2. ASSUME NEW amt, ClearTheWay(amt), amt = bot.amt \/ amt = 0 PROVE Spare'
    <3>1. NotPlaced \/ (bot'.goal = bot.goal /\ bot'.amt = amt)
      BY <1>0, <2>2, ClearTheWaySets
    <3> QED
      BY <1>1, <2>1, <2>2, <3>1 DEF Spare
  <2>3. ASSUME PrepareExit PROVE Spare'
    <3>1. (IF bot.amt = 0 THEN trade.amount ELSE bot.amt) = bot.amt
      OBVIOUS
    <3>2. NotPlaced \/ ClearTheWay(bot.amt)
      BY <1>0, <1>9, <2>3, <3>1 DEF PrepareExit
    <3> QED
      BY <2>1, <2>2, <3>2
  <2>4. bot' = Resume(bot) => Spare'
    BY <1>0, <1>1, HelperFields
  <2> QED
    BY <1>0, <1>2, <1>5, <1>9, <2>1, <2>2, <2>3, <2>4, PlaceFields
<1>10. CASE LoopStep
  <2>1. CASE /\ ForceExitEnd
             /\ \E part \in {0} \cup ExitableParts : bot'.amt = IF part = trade.amount THEN 0 ELSE part
    BY <1>1, <1>4, <2>1
  <2>2. bot' = [Idle("exit") EXCEPT !.pc = "decide"] => bot'.amt = 0
    BY RestFields DEF BotFields
  <2> QED
    BY <1>0, <1>1, <1>2, <1>5, <1>10, <2>1, <2>2, LoopFields
<1>11. CASE PhaseStep
  <2>1. bot' = Loop(bot, "manage", OpenOrders) => SameErrand
    BY <1>0, LoopSets DEF SameErrand
  <2>2. bot'.goal = bot.goal /\ bot'.amt = bot.amt => Spare'
    BY DEF Spare
  <2>3. bot' = [bot EXCEPT !.pc = "decide"] => SameErrand
    BY <1>0 DEF SameErrand, BotFields
  <2>4. ~(trade.amount > 0)
    OBVIOUS
  <2> QED
    BY <1>0, <1>1, <1>2, <1>4, <1>5, <1>11, <2>1, <2>2, <2>3, <2>4, PhaseFields
<1>12. CASE RPC
  <2>1. bot' = Loop(bot, "cancel_open_order", OpenOrders) => SameErrand
    BY <1>0, LoopSets DEF SameErrand
  <2>2. ForceExit => bot.amt = 0
    <3>1. ForceExit => bot.pc = "idle"
      BY DEF ForceExit, Command
    <3> QED
      BY <3>1, RestFields DEF Rested
  <2>3. bot' = bot => SameErrand
    BY DEF SameErrand
  <2> QED
    BY <1>0, <1>1, <1>2, <1>12, <2>1, <2>2, <2>3, CommandFields
<1>13. CASE Lifecycle
  <2>1. bot' = Loop(bot, "stop", OpenOrders) => SameErrand
    BY <1>0, LoopSets DEF SameErrand
  <2>2. bot' = Loop(Idle("fees"), "startup", OpenOrders) => bot'.amt = 0
    BY RestFields, LoopSets
  <2> QED
    BY <1>0, <1>1, <1>2, <1>5, <1>13, <2>1, <2>2, LifecycleFields
<1> QED
  BY <1>6, <1>7, <1>8, <1>9, <1>10, <1>11, <1>12, <1>13 DEF Next, Bot

LEMMA NextBought ==
    ASSUME Purchase, Typed', ~OrdersLost, Next
    PROVE  Bought'
<1> SUFFICES ASSUME trade'.st # "deleted", FilledOrders("buy")' = {}
             PROVE  trade'.amount = 0 /\ AllBuys' /\ Spare'
  BY DEF Bought
<1>1. FilledOrders("buy") = {}
  BY FilledStay DEF Purchase, Ledger
<1>2. trade.st # "deleted"
  BY DeletedStays DEF Purchase, Ledger, StaysDeleted
<1>3. trade.amount = 0 /\ AllBuys /\ Spare
  BY <1>1, <1>2 DEF Purchase, Bought
<1>4. trade'.amount = 0
  BY <1>1, <1>3, AmountStaysZero DEF Purchase
<1>5. AllBuys'
  BY <1>3, AllStayBuys DEF Purchase, Ledger
<1>6. Spare'
  BY <1>3, SpareStays DEF Purchase
<1> QED
  BY <1>4, <1>5, <1>6

LEMMA NextPurchase ==
    ASSUME Purchase, ~OrdersLost, [Next]_vars
    PROVE  Purchase'
<1>1. Ledger'
  BY NextLedger DEF Purchase
<1>2. CASE Next
  <2>1. Known'
    BY <1>2, NextRecordsKnown, NextHandKnown DEF Known, Purchase, Ledger
  <2>2. Rested'
    BY <1>2, NextRested DEF Purchase, Ledger
  <2>3. Bought'
    BY <1>1, <1>2, NextBought DEF Ledger
  <2> QED
    BY <1>1, <2>1, <2>2, <2>3 DEF Purchase
<1>3. CASE UNCHANGED vars
  <2>1. Known'
    BY <1>3 DEF vars, Purchase, Known, RecordsKnown, SeenKnown, HandKnown
  <2>2. Rested'
    BY <1>3 DEF vars, Purchase, Rested
  <2>3. Bought'
    BY <1>3 DEF vars, Purchase, Bought, FilledOrders, AllBuys, Spare, IsEntry
  <2> QED
    BY <1>1, <2>1, <2>2, <2>3 DEF Purchase
<1> QED
  BY <1>2, <1>3

LEMMA InitPurchase == Init => Purchase
<1> SUFFICES ASSUME Init PROVE Purchase
  OBVIOUS
<1>1. bot = Idle("fees") /\ bot.pc = "idle" /\ bot.phase = "fees" /\ bot.flow = "none" /\ bot.amt = 0
  BY RestFields DEF Init
<1>2. \A o \in Orders : bot.seen[o] = Nothing /\ db[o] = Nothing /\ ex[o].status = "none"
  BY DEF Init, Idle
<1>3. trade.amount = 0
  BY DEF Init, NoTrade
<1>4. Known
  BY <1>1, <1>2 DEF Known, RecordsKnown, SeenKnown, HandKnown, InHand, Canceling, Updating, Nothing
<1>5. Rested
  BY <1>1 DEF Rested
<1>6. Bought
  BY <1>1, <1>2, <1>3 DEF Bought, AllBuys, Spare
<1> QED
  BY <1>4, <1>5, <1>6, InitLedger DEF Purchase

\* The orders that handle_cancel_enter and handle_onexchange_order leave to be deleted.
LEMMA DeletesOnlyEmpty ==
    ASSUME Purchase, ~OrdersLost, Next,
           bot.why \notin {"replace", "user"}, bot.sake # "replace"
    PROVE  DeletesSafely
<1> SUFFICES ASSUME trade.st = "open", trade'.st = "deleted", bot.pc # "idle", NEW o \in Recorded
             PROVE  ex[o].status # "open" /\ ex[o].filled = 0
  BY DEF DeletesSafely
<1>0. /\ o \in Orders /\ DOMAIN bot = BotFields /\ bot.ord \in Orders
      /\ FinalOrdersAgree /\ db \in [Orders -> OrderRecord]
  BY DEF Recorded, Purchase, Ledger, Typed, BotTyped, Agreement
<1>1. IsFinal(db[o]) /\ db[o].filled = 0 => ex[o].status # "open" /\ ex[o].filled = 0
  BY <1>0, FinalIsKnown DEF IsFinal
<1>2. CASE CancelEnterResult
  <2> DEFINE v == bot.seen[bot.ord]
  <2>1. IsFinal(v) /\ v.filled = 0 /\ NothingElse(bot.ord)
    BY <1>2 DEF CancelEnterResult, CancelRefused
  <2>2. CASE o = bot.ord
    <3>1. v = [status |-> ex[o].status, filled |-> ex[o].filled]
      BY <1>0, <2>1, <2>2 DEF Purchase, Ledger, Agreement, SeenAgrees, View, ViewIn
    <3> QED
      BY <2>1, <3>1 DEF IsFinal
  <2>3. CASE o # bot.ord
    <3>1. db[o].status # "open" /\ FilledOrders("buy") = {}
      BY <1>0, <2>1, <2>3 DEF NothingElse, OpenOrders
    <3>2. IsFinal(db[o])
      BY <1>0, <3>1 DEF Recorded, IsFinal, OrderRecord, Statuses
    <3>3. IsEntry(o)
      <4>1. AllBuys /\ ex[o].status # "none"
        BY <1>0, <3>1 DEF Purchase, Bought, Known, RecordsKnown, Recorded
      <4> QED
        BY <1>0, <4>1 DEF AllBuys
    <3>4. db[o].filled = 0
      <4>1. db[o].filled \in Nat
        BY <1>0 DEF OrderRecord
      <4> QED
        BY <1>0, <3>1, <3>2, <3>3, <4>1 DEF FilledOrders, IsEntry
    <3> QED
      BY <1>1, <3>2, <3>4
  <2> QED
    BY <2>2, <2>3
<1>3. CASE RecoverEnd
  <2>1. db[o].status = "canceled" /\ db[o].filled = 0
    BY <1>3 DEF RecoverEnd
  <2> QED
    BY <1>1, <2>1 DEF IsFinal
<1>4. trade' # trade
  OBVIOUS
<1>5. CancelEnterResult \/ RecoverEnd
  <2>1. trade'.st = "deleted" => ~UpdateTradeRow /\ ~RecordOrder
    <3>1. CASE UpdateTradeRow
      <4>1. \/ trade' = trade
            \/ \E t : /\ t = UpdateTrade(trade, db, bot.ord, Recalculating)
                      /\ trade' = t \/ \E fee : trade' = [t EXCEPT !.fee = fee]
        BY <3>1 DEF UpdateTradeRow
      <4>2. LET t == UpdateTrade(trade, db, bot.ord, Recalculating)
            IN  DOMAIN t = {"st", "amount", "fee"} /\ t.st \in {trade.st, "closed"}
        BY TradeUpdates DEF Purchase, Ledger, Places
      <4> QED
        BY <1>4, <4>1, <4>2
    <3>2. CASE RecordOrder
      <4>1. trade' = trade \/ trade' = Recalc([trade EXCEPT !.st = "open"], db')
        BY <3>2 DEF RecordOrder
      <4> QED
        BY <1>4, <4>1 DEF Recalc, Purchase, Ledger, Typed, TradeRow
    <3> QED
      BY <3>1, <3>2
  <2>2. CASE UpdateStep
    BY <1>4, <2>1, <2>2 DEF UpdateStep, UpdateOrder, Updated
  <2>3. CASE CancelStep
    BY <1>4, <2>3 DEF CancelStep, CancelKeep, CancelOnExchange, CancelRaises, CancelKnown, CancelExitResult,
                      Canceled
  <2>4. CASE PlaceStep
    BY <1>4, <2>1, <2>4 DEF PlaceStep, PrepareEntry, PrepareExit, CreateRejected, CreateOrder, Placed
  <2>5. CASE LoopStep
    BY <1>4, <2>5 DEF LoopStep, LoopFetch, LoopFetchFails, RecoverNext, AssumeCanceled, LoopEnd,
                      ForceExitEnd
  <2>6. CASE PhaseStep
    BY <1>4, <2>6, PhaseQuiet DEF Purchase, Ledger, Fills
  <2>7. CASE RPC
    BY <1>0, <2>7, CommandMoves
  <2>8. CASE Lifecycle
    BY <1>4, <2>8 DEF Lifecycle, Stop, StoppedCancelAll, Startup, Crash
  <2>9. CASE Exchange
    BY <1>4, <2>9 DEF Exchange, Fill, CanceledOnExchange
  <2> QED
    BY <2>2, <2>3, <2>4, <2>5, <2>6, <2>7, <2>8, <2>9 DEF Next, Bot
<1> QED
  BY <1>2, <1>3, <1>5

\* A trade is deleted by the bot only when no order of it is live and nothing was bought,
\* whatever filled, was replaced, adjusted, cancelled or lost before, for any number of orders,
\* any amounts and any restarts (handle_cancel_enter, handle_onexchange_order).
THEOREM DeletionsAlwaysSafe ==
    ASSUME ~OrdersLost PROVE Spec => DeletionsSafe
<1> DEFINE Safe == bot.why \notin {"replace", "user"} /\ bot.sake # "replace" => DeletesSafely
<1>1. Purchase /\ [Next]_vars => Purchase' /\ [Safe]_vars
  BY NextPurchase, DeletesOnlyEmpty
<1>2. Spec => [][Safe]_vars
  BY InitPurchase, <1>1, PTL DEF Spec
<1> QED
  BY <1>2 DEF DeletionsSafe

-----------------------------------------------------------------------------
(* Where update_trade_state was called from, and what it has told its caller.  *)

HandSeen ==
    \A o \in HeldBy(bot) \cap Orders : ex[o].status # "none" => bot.seen[o].status # "none"

Origin ==
    bot.pc \in Updating =>
      bot.inCancel \/ bot.flow \in UpdatingFlows \cup {"fees", "recover", "placed"}

\* It returns True for an order that is cancelled and empty.
Said ==
    bot.pc \in {"update_trade", "updated"} =>
      db[bot.ord] = bot.seen[bot.ord] /\ (bot.ret => CanceledEmpty(bot.seen[bot.ord]))

Called == HandSeen /\ Origin /\ Said

LEMMA NextHandSeen ==
    ASSUME Typed, Typed', Fills, Places, HandSeen, ~OrdersLost, Next
    PROVE  HandSeen'
<1>0. DOMAIN bot = BotFields
  BY DEF Places, Course
<1> USE DEF Fills, SeenBehind
<1>1. CASE CreateOrder
  <2>1. PICK n \in Orders, filled \in {0, bot.amt} :
           /\ ex' = [ex EXCEPT ![n] =
                       [side   |-> IF bot.goal = "entry" THEN "buy" ELSE "sell",
                        amount |-> bot.amt, filled |-> filled,
                        status |-> IF filled = 0 THEN "open" ELSE "closed"]]
           /\ bot' = [bot EXCEPT !.pc = "record", !.flow = "placed",
                                 !.ord = n, !.seen[n] = ViewIn(ex', n)]
    BY <1>1 DEF CreateOrder
  <2>2. bot'.pc = "record" /\ bot'.flow = "placed" /\ bot'.ord = n /\ bot'.seen[n] = ViewIn(ex', n)
    BY <1>0, <2>1 DEF BotFields
  <2>3. HeldBy(bot') = {n}
    BY <2>2 DEF HeldBy, Writing
  <2> QED
    BY <2>2, <2>3 DEF HandSeen, ViewIn
<1>2. CASE ~CreateOrder
  <2>0. \A o \in Orders : ex'[o].status # "none" => ex[o].status # "none"
    BY <1>2, OrdersAppear
  <2>1. CASE Quiet(bot, bot')
    BY <2>0, <2>1 DEF Quiet, HandSeen
  <2>2. CASE Looks
    <3>1. PICK o \in Orders : Fetches(o, [status |-> ex'[o].status, filled |-> ex'[o].filled])
      BY <2>2 DEF Looks
    <3> QED
      BY <3>1 DEF Fetches, HandSeen
  <2>3. CASE FetchesAll /\ UNCHANGED ex
    BY <2>3 DEF FetchesAll, View, ViewIn, HandSeen
  <2>4. CASE UpdateOrder \/ RecordOrder
    <3>1. bot'.seen = bot.seen /\ HeldBy(bot') \subseteq HeldBy(bot)
      BY <2>4, Writes
    <3> QED
      BY <2>0, <3>1 DEF HandSeen
  <2> QED
    BY <2>1, <2>2, <2>3, <2>4, StepKinds
<1> QED
  BY <1>1, <1>2

LEMMA NextOrigin ==
    ASSUME Places, PlacedFills, Origin, ~OrdersLost, Next
    PROVE  Origin'
<1>0. DOMAIN bot = BotFields
  BY DEF Places, Course
<1> USE DEF Updating
<1>1. CASE bot'.pc \notin Updating
  BY <1>1 DEF Origin
<1>2. CASE Exchange
  BY <1>2 DEF Exchange, Fill, CanceledOnExchange, Origin
<1>3. CASE UpdateStep
  <2>1. CASE UpdateOrder \/ UpdateTradeRow
    <3>1. bot'.flow = bot.flow /\ bot'.inCancel = bot.inCancel /\ bot.pc \in Updating
      BY <1>0, <2>1 DEF UpdateOrder, UpdateTradeRow, BotFields
    <3> QED
      BY <3>1 DEF Origin
  <2> QED
    BY <1>0, <1>1, <1>3, <2>1, UpdateMoves DEF UpdateStep
<1>4. CASE CancelStep
  BY <1>0, <1>4, CancelMoves DEF Origin
<1>5. CASE PlaceStep
  <2>1. CASE RecordOrder
    BY <1>0, <2>1, PlaceMoves DEF Origin, PlacedFills
  <2> QED
    BY <1>0, <1>1, <1>5, <2>1, PlaceMoves DEF PlaceStep
<1>6. CASE LoopStep
  <2>1. CASE LoopFetch
    BY <1>0, <2>1 DEF LoopFetch, Origin, BotFields
  <2>2. CASE RecoverNext
    BY <1>0, <2>2 DEF RecoverNext, Origin, BotFields
  <2>3. CASE Rests
    BY <1>1, <2>3, RestsRest DEF Resting
  <2>4. CASE bot' = [Idle("exit") EXCEPT !.pc = "decide"]
    BY <1>1, <2>4, RestFields DEF BotFields
  <2>5. CASE bot'.pc \in {"loop", "create", "placed", "exit"}
    BY <1>1, <2>5
  <2> QED
    BY <1>0, <1>6, <2>1, <2>2, <2>3, <2>4, <2>5, LoopFields DEF AssumeCanceled
<1>7. CASE PhaseStep
  BY <1>0, <1>7, PhaseMoves DEF Origin
<1>8. CASE RPC
  BY <1>0, <1>1, <1>8, CommandMoves
<1>9. CASE Lifecycle
  BY <1>0, <1>1, <1>9, LifecycleMoves
<1> QED
  BY <1>2, <1>3, <1>4, <1>5, <1>6, <1>7, <1>8, <1>9 DEF Next, Bot

LEMMA NextSaid ==
    ASSUME Typed, Places, Said, ~OrdersLost, Next
    PROVE  Said'
<1>0. DOMAIN bot = BotFields
  BY DEF Places, Course
<1>1. CASE bot'.pc \notin {"update_trade", "updated"}
  BY <1>1 DEF Said
<1>2. CASE Exchange
  BY <1>2 DEF Exchange, Fill, CanceledOnExchange, Said
<1>3. CASE UpdateOrder
  <2>1. db'[bot.ord] = bot.seen[bot.ord]
    BY <1>3 DEF UpdateOrder, Typed, BotTyped
  <2>2. bot'.ord = bot.ord /\ bot'.seen = bot.seen /\ (bot'.ret => CanceledEmpty(bot.seen[bot.ord]))
    BY <1>0, <1>3 DEF UpdateOrder, BotFields
  <2> QED
    BY <2>1, <2>2 DEF Said
<1>4. CASE UpdateTradeRow
  <2>1. /\ bot'.ord = bot.ord /\ bot'.seen = bot.seen /\ bot'.ret = bot.ret /\ UNCHANGED db
        /\ bot.pc = "update_trade"
    BY <1>0, <1>4 DEF UpdateTradeRow, BotFields
  <2> QED
    BY <2>1 DEF Said
<1>5. CASE Updated \/ CancelStep \/ PlaceStep \/ LoopStep \/ PhaseStep \/ RPC \/ Lifecycle
  <2>1. bot'.pc \notin {"update_trade", "updated"}
    BY <1>0, <1>5, UpdateMoves, CancelMoves, PlaceMoves, LoopMoves, PhaseMoves, CommandMoves, LifecycleMoves
       DEF PlaceStep
  <2> QED
    BY <1>1, <2>1
<1> QED
  BY <1>2, <1>3, <1>4, <1>5 DEF Next, Bot, UpdateStep

LEMMA NextCalled ==
    ASSUME Typed, Typed', Fills, Places, PlacedFills, Called, ~OrdersLost, [Next]_vars
    PROVE  Called'
<1>1. CASE Next
  BY <1>1, NextHandSeen, NextOrigin, NextSaid DEF Called
<1>2. CASE UNCHANGED vars
  BY <1>2 DEF vars, Called, HandSeen, Origin, Said, HeldBy
<1> QED
  BY <1>1, <1>2

LEMMA InitCalled == Init => Called
<1>1. Init => bot.pc = "idle" /\ bot.flow = "none"
  BY RestFields DEF Init
<1> QED
  BY <1>1 DEF Called, HandSeen, Origin, Said, HeldBy, Writing, Updating

-----------------------------------------------------------------------------
(* Without crashes, every order the exchange has accepted is accounted for: it *)
(* is recorded as final, or it is the one order of the trade that is recorded   *)
(* as open or about to be recorded.                                            *)

Unfinal(o) == db[o].status = "open" \/ (bot.pc = "record" /\ bot.ord = o)

Accounted ==
    trade.st # "deleted" => \A o \in Orders : ex[o].status # "none" => IsFinal(db[o]) \/ Unfinal(o)

OneUnfinal ==
    /\ \A o, p \in Orders : Unfinal(o) /\ Unfinal(p) => o = p
    /\ bot.pc = "create" => \A o \in Orders : ~Unfinal(o)

\* The order that is about to be recorded is not recorded yet.
Unrecorded == bot.pc = "record" => db[bot.ord].status = "none"

LEMMA RecordingSteps ==
    ASSUME Next, DOMAIN bot = BotFields, bot.pc = "record"
    PROVE  Exchange \/ RecordOrder \/ Crash
BY UpdateMoves, CancelMoves, PlaceMoves, LoopMoves, PhaseMoves, CommandMoves, LifecycleMoves
   DEF Next, Bot, UpdateStep, PlaceStep, Canceling, Resting

\* Only CreateOrder begins to record an order.
LEMMA RecordingBegins ==
    ASSUME Next, DOMAIN bot = BotFields, bot'.pc = "record"
    PROVE  CreateOrder \/ Exchange
BY UpdateMoves, CancelMoves, PlaceMoves, LoopMoves, PhaseMoves, CommandMoves, LifecycleMoves
   DEF Next, Bot, UpdateStep, PlaceStep, Canceling, Resting

LEMMA ExchangeStays == ASSUME Exchange PROVE UNCHANGED <<db, trade, bot, crashes, torn>>
BY DEF Exchange, Fill, CanceledOnExchange

\* What is written of the order in hand is the order as the exchange has it.
LEMMA WrittenExists ==
    ASSUME Typed, HandSeen, HandKnown, UpdateOrder \/ RecordOrder
    PROVE  /\ bot.ord \in Orders /\ db'[bot.ord] = bot.seen[bot.ord]
           /\ db'[bot.ord].status \in {"open", "closed", "canceled"}
           /\ \A o \in Orders \ {bot.ord} : db'[o] = db[o]
<1>0. bot.ord \in Orders /\ bot.seen[bot.ord] \in OrderRecord /\ DOMAIN db = Orders
  BY DEF Typed, BotTyped
<1>1. bot.pc \in {"update_order", "record"} /\ db' = [db EXCEPT ![bot.ord] = bot.seen[bot.ord]]
  BY DEF UpdateOrder, RecordOrder
<1>2. bot.ord \in HeldBy(bot) \cap Orders
  BY <1>0, <1>1 DEF HeldBy, Writing
<1>3. bot.seen[bot.ord].status # "none"
  BY <1>1, <1>2 DEF HandSeen, HandKnown, InHand, Updating
<1> QED
  BY <1>0, <1>1, <1>3 DEF OrderRecord, Statuses

\* An update never opens an order again, and leaves a final one alone.
LEMMA UpdateShrinks ==
    ASSUME Typed, Agreement, Places, SeenFinal, HandSeen, HandKnown, Accounted, UpdateOrder
    PROVE  /\ db[bot.ord].status = "open" \/ (IsFinal(db[bot.ord]) /\ UNCHANGED db)
           /\ OpenOrders' \subseteq OpenOrders
<1>0. /\ bot.pc = "update_order" /\ bot.ord \in Orders
      /\ \A o \in Orders \ {bot.ord} : db'[o] = db[o]
      /\ db' = [db EXCEPT ![bot.ord] = bot.seen[bot.ord]]
  BY WrittenExists DEF UpdateOrder
<1>1. trade.st # "deleted"
  BY <1>0, AliveAt DEF Alive, Updating
<1>2. IsFinal(db[bot.ord]) \/ db[bot.ord].status = "open"
  BY <1>0, <1>1 DEF Accounted, Unfinal, HandKnown, InHand, Updating
<1>3. CASE IsFinal(db[bot.ord])
  <2>1. bot.ord \in HeldBy(bot)
    BY <1>0 DEF HeldBy, Writing
  <2>2. db[bot.ord] = bot.seen[bot.ord]
    BY <1>0, <1>3, <2>1 DEF SeenFinal, Agreement, SeenAgrees, FinalOrdersAgree
  <2>3. db' = db
    BY <1>0, <2>2 DEF Typed
  <2> QED
    BY <1>3, <2>3 DEF OpenOrders
<1>4. CASE db[bot.ord].status = "open"
  BY <1>0, <1>4 DEF OpenOrders
<1> QED
  BY <1>2, <1>3, <1>4

\* The steps that record nothing keep the records or delete them all.
LEMMA RecordsStay ==
    ASSUME Next, ~UpdateOrder, ~RecordOrder
    PROVE  UNCHANGED db \/ Delete
BY Writers DEF UpdateTradeRow

LEMMA BlankRecords == ASSUME Delete PROVE \A o \in Orders : db'[o] = Nothing
BY DEF Delete

LEMMA OpenShrink ==
    ASSUME Typed, Agreement, Places, SeenFinal, HandSeen, HandKnown, Accounted, Next, ~RecordOrder
    PROVE  OpenOrders' \subseteq OpenOrders
<1>1. CASE UpdateOrder
  BY <1>1, UpdateShrinks
<1>2. CASE UNCHANGED db
  BY <1>2 DEF OpenOrders
<1>3. CASE Delete
  BY <1>3, BlankRecords DEF OpenOrders, Nothing
<1> QED
  BY <1>1, <1>2, <1>3, RecordsStay

LEMMA UnfinalShrinks ==
    ASSUME Typed, Agreement, Places, SeenFinal, HandSeen, HandKnown, Accounted, Next, ~CreateOrder
    PROVE  \A o \in Orders : Unfinal(o)' => Unfinal(o)
<1>0. DOMAIN bot = BotFields
  BY DEF Places, Course
<1> SUFFICES ASSUME NEW o \in Orders, Unfinal(o)'
             PROVE  Unfinal(o)
  OBVIOUS
<1>1. CASE bot'.pc = "record" /\ bot'.ord = o
  BY <1>0, <1>1, RecordingBegins, ExchangeStays DEF Unfinal
<1>2. CASE db'[o].status = "open" /\ RecordOrder
  <2>1. bot.pc = "record" /\ \A p \in Orders \ {bot.ord} : db'[p] = db[p]
    BY <1>2, WrittenExists DEF RecordOrder
  <2> QED
    BY <1>2, <2>1 DEF Unfinal
<1>3. CASE db'[o].status = "open" /\ ~RecordOrder
  BY <1>3, OpenShrink DEF OpenOrders, Unfinal
<1> QED
  BY <1>1, <1>2, <1>3 DEF Unfinal

LEMMA CreatesOne ==
    ASSUME Typed, CreateOrder
    PROVE  \E n \in Orders :
             /\ ex[n].status = "none" /\ bot'.pc = "record" /\ bot'.ord = n /\ UNCHANGED <<db, trade>>
             /\ ex'[n].status \in {"open", "closed"}
             /\ \A o \in Orders \ {n} : ex'[o] = ex[o]
<1>1. PICK n \in Orders, filled \in {0, bot.amt} :
         /\ ex[n].status = "none"
         /\ ex' = [ex EXCEPT ![n] =
                     [side   |-> IF bot.goal = "entry" THEN "buy" ELSE "sell",
                      amount |-> bot.amt, filled |-> filled,
                      status |-> IF filled = 0 THEN "open" ELSE "closed"]]
         /\ bot' = [bot EXCEPT !.pc = "record", !.flow = "placed",
                               !.ord = n, !.seen[n] = ViewIn(ex', n)]
  BY DEF CreateOrder
<1>2. bot'.pc = "record" /\ bot'.ord = n
  BY <1>1 DEF Typed, BotTyped, BotFields
<1>3. UNCHANGED <<db, trade>>
  BY DEF CreateOrder
<1>4. ex'[n].status \in {"open", "closed"} /\ \A o \in Orders \ {n} : ex'[o] = ex[o]
  BY <1>1 DEF Typed
<1> QED
  BY <1>1, <1>2, <1>3, <1>4

LEMMA NextAccounted ==
    ASSUME Typed, Agreement, Places, SeenFinal, HandSeen, HandKnown, Accounted, ~Crash, Next
    PROVE  Accounted'
<1>0. DOMAIN bot = BotFields
  BY DEF Places, Course
<1> SUFFICES ASSUME trade'.st # "deleted", NEW o \in Orders, ex'[o].status # "none"
             PROVE  IsFinal(db'[o]) \/ Unfinal(o)'
  BY DEF Accounted
<1>1. trade.st # "deleted" /\ ~Delete
  BY DeletedStays DEF StaysDeleted, Delete, NoTrade
<1>2. CASE ex[o].status = "none"
  <2>1. CreateOrder
    BY <1>2, OrdersAppear
  <2> QED
    BY <1>2, <2>1, CreatesOne DEF Unfinal
<1>3. CASE ex[o].status # "none" /\ IsFinal(db[o])
  BY <1>1, <1>3, FinalStays
<1>4. CASE ex[o].status # "none" /\ db[o].status = "open"
  <2>1. CASE UpdateOrder \/ RecordOrder
    BY <1>4, <2>1, WrittenExists DEF Unfinal, IsFinal
  <2> QED
    BY <1>1, <1>4, <2>1, RecordsStay DEF Unfinal
<1>5. CASE bot.pc = "record" /\ bot.ord = o
  <2>1. CASE Exchange
    BY <1>5, <2>1, ExchangeStays DEF Unfinal
  <2>2. CASE RecordOrder
    BY <1>5, <2>2, WrittenExists DEF Unfinal, IsFinal
  <2> QED
    BY <1>0, <1>5, <2>1, <2>2, RecordingSteps
<1> QED
  BY <1>1, <1>2, <1>3, <1>4, <1>5 DEF Accounted, Unfinal

LEMMA NextUnrecorded ==
    ASSUME Typed, Places, RecordsKnown, Unrecorded, Next
    PROVE  Unrecorded'
<1>0. DOMAIN bot = BotFields
  BY DEF Places, Course
<1> SUFFICES ASSUME bot'.pc = "record"
             PROVE  db'[bot'.ord].status = "none"
  BY DEF Unrecorded
<1>1. CASE CreateOrder
  BY <1>1, CreatesOne DEF RecordsKnown
<1>2. CASE Exchange
  BY <1>2, ExchangeStays DEF Unrecorded
<1> QED
  BY <1>0, <1>1, <1>2, RecordingBegins

\* An order is placed once no other is open.
LEMMA WayIsClear ==
    ASSUME Typed, Places, Next, bot'.pc = "create"
    PROVE  \/ bot.pc = "create" /\ UNCHANGED <<db, bot>>
           \/ bot.pc # "record" /\ OpenOrders = {} /\ UNCHANGED db
<1>0. DOMAIN bot = BotFields
  BY DEF Places, Course
<1>1. CASE Exchange
  BY <1>1, ExchangeStays
<1>2. CASE PrepareEntry
  <2>1. OpenOrders = {}
    BY <1>0, <1>2, NotPlacedSets, ClearTheWaySets DEF PrepareEntry
  <2> QED
    BY <1>2, <2>1 DEF PrepareEntry
<1>3. CASE PrepareExit
  <2> DEFINE amt == IF bot.amt = 0 THEN trade.amount ELSE bot.amt
  <2>1. NotPlaced \/ ClearTheWay(amt)
    BY <1>3 DEF PrepareExit
  <2> HIDE DEF amt
  <2>2. OpenOrders = {}
    BY <1>0, <2>1, NotPlacedSets, ClearTheWaySets
  <2> QED
    BY <1>3, <2>2 DEF PrepareExit
<1>4. CASE LoopEnd
  <2>1. AllCanceled
    <3>1. CASE Rests
      BY <3>1, RestsRest DEF Resting
    <3>2. CASE bot'.pc \in {"loop", "placed", "exit", "decide"}
      BY <3>2
    <3>3. AllCanceled \/ Rests \/ bot'.pc = "placed"
      BY <1>0, <1>4 DEF LoopEnd, Rests, BotFields
    <3> QED
      BY <3>1, <3>2, <3>3
  <2> QED
    BY <1>4, <2>1 DEF LoopEnd, AllCanceled
<1>5. CASE EnterPhase
  <2>1. CASE trade.st = "none"
    BY <1>5, <2>1 DEF EnterPhase, Enter, Places, NoRecords, OpenOrders, Nothing, Skip
  <2>2. CASE Skip("enter")
    <3>1. bot'.pc = "idle"
      BY <2>2, RestFields DEF Skip
    <3> QED
      BY <3>1
  <2> QED
    BY <1>5, <2>1, <2>2 DEF EnterPhase
<1>6. CASE PhaseStep /\ ~EnterPhase
  <2>1. CASE Rests
    BY <2>1, RestsRest DEF Resting
  <2>2. CASE bot' = Loop(bot, "manage", OpenOrders)
    BY <1>0, <2>2, LoopSets
  <2>3. CASE bot'.pc \in {"update_order", "loop", "decide", "exit", "entry"}
    BY <2>3
  <2> QED
    BY <1>0, <1>6, <2>1, <2>2, <2>3, PhaseFields
<1>7. CASE LoopStep /\ ~LoopEnd
  <2>1. CASE Rests
    BY <2>1, RestsRest DEF Resting
  <2>2. CASE bot' = [Idle("exit") EXCEPT !.pc = "decide"]
    BY <2>2, RestFields DEF BotFields
  <2>3. CASE LoopFetch \/ AssumeCanceled \/ RecoverNext
    BY <1>0, <2>3 DEF LoopFetch, AssumeCanceled, RecoverNext, BotFields
  <2>4. CASE bot'.pc \in {"loop", "exit"}
    BY <2>4
  <2> QED
    BY <1>0, <1>7, <2>1, <2>2, <2>3, <2>4, LoopFields
<1>8. bot'.pc # "create" \/ (bot.pc # "record" /\ PlaceStep)
         \/ Exchange \/ PhaseStep \/ LoopStep
  BY <1>0, UpdateMoves, CancelMoves, CommandMoves, LifecycleMoves, PlaceMoves
     DEF Next, Bot, UpdateStep, PlaceStep
<1>9. CASE CreateRejected \/ CreateOrder \/ RecordOrder \/ Placed
  BY <1>0, <1>9, PlaceMoves
<1> QED
  BY <1>1, <1>2, <1>3, <1>4, <1>5, <1>6, <1>7, <1>8, <1>9 DEF PlaceStep

LEMMA NextOneUnfinal ==
    ASSUME Typed, Agreement, Places, SeenFinal, HandSeen, HandKnown, Accounted, OneUnfinal, Next
    PROVE  OneUnfinal'
<1>0. DOMAIN bot = BotFields
  BY DEF Places, Course
<1>1. CASE CreateOrder
  <2>1. bot.pc = "create" /\ \A o \in Orders : db[o].status # "open"
    BY <1>1 DEF CreateOrder, OneUnfinal, Unfinal
  <2>2. bot'.pc = "record" /\ UNCHANGED db
    BY <1>1, CreatesOne
  <2> QED
    BY <2>1, <2>2 DEF OneUnfinal, Unfinal
<1>2. CASE ~CreateOrder
  <2>1. \A o \in Orders : Unfinal(o)' => Unfinal(o)
    BY <1>2, UnfinalShrinks
  <2>2. \A o, p \in Orders : Unfinal(o)' /\ Unfinal(p)' => o = p
    BY <2>1 DEF OneUnfinal
  <2>3. bot'.pc = "create" => \A o \in Orders : ~Unfinal(o)'
    <3>1. CASE bot.pc = "create" /\ UNCHANGED <<db, bot>>
      BY <2>1, <3>1 DEF OneUnfinal
    <3>2. CASE bot.pc # "record" /\ OpenOrders = {}
      BY <2>1, <3>2 DEF Unfinal, OpenOrders
    <3> QED
      BY <3>1, <3>2, WayIsClear
  <2> QED
    BY <2>2, <2>3 DEF OneUnfinal, Unfinal
<1> QED
  BY <1>1, <1>2

-----------------------------------------------------------------------------
(* Without crashes, a loop has at most one order before it, and the order in    *)
(* hand is the only one of the trade that may be open.                         *)

Todo ==
    /\ bot.back.todo = {}
    /\ bot.flow # "recover" => bot.todo \subseteq OpenOrders /\ (bot.pc # "loop" => bot.todo = {})

LEMMA NothingTodo ==
    ASSUME bot'.back.todo = {}, bot'.flow # "recover" => bot'.todo = {}
    PROVE  Todo'
BY DEF Todo

LEMMA LoopTodo ==
    ASSUME bot'.back.todo = {}, bot'.pc = "loop", bot'.todo = OpenOrders, UNCHANGED db
    PROVE  Todo'
BY DEF Todo, OpenOrders

LEMMA RestsTodo == ASSUME Rests PROVE Todo'
BY RestsRest, NothingTodo DEF NoLoop

\* A loop takes the only order that is left.
LEMMA LoopTakesAll ==
    ASSUME Typed, OneUnfinal, Todo, bot.flow # "recover", Left # {}
    PROVE  bot.todo \ {Min(Left)} = {} /\ OpenOrders = {Min(Left)} /\ Min(Left) \in Orders
<1>1. Min(Left) \in bot.todo /\ bot.todo \subseteq OpenOrders /\ OpenOrders \subseteq Orders
  BY Takes DEF Left, Todo, OpenOrders
<1>2. \A o \in OpenOrders : o = Min(Left)
  BY <1>1 DEF OneUnfinal, Unfinal, OpenOrders
<1> QED
  BY <1>1, <1>2

LEMMA NextTodo ==
    ASSUME Typed, Fills, Places, OneUnfinal, Todo, ~OrdersLost, Next
    PROVE  Todo'
<1>0. /\ DOMAIN bot = BotFields /\ Course(bot) /\ bot.back.todo = {} /\ NoLoop.todo = {}
      /\ bot.pc # "loop" /\ bot.flow # "recover" => bot.todo = {}
  BY DEF Places, Course, Todo, NoLoop
<1>1. CASE Exchange
  BY <1>1, ExchangeStays DEF Todo, OpenOrders
<1>2. CASE UpdateStep
  <2>1. CASE Rests
    BY <2>1, RestsTodo
  <2>2. CASE bot' = NextOrder(bot)
    BY <1>0, <1>2, <2>2, HelperFields, NothingTodo, UpdateMoves DEF UpdateStep
  <2>3. CASE SameLoop
    BY <1>0, <1>2, <2>3, NothingTodo, UpdateMoves DEF UpdateStep, SameLoop
  <2> QED
    BY <1>0, <1>2, <2>1, <2>2, <2>3, UpdateFields DEF Rests
<1>3. CASE CancelStep
  <2>0. bot.todo = {} /\ bot.pc \in Canceling
    BY <1>0, <1>3, CancelMoves DEF Course, Canceling, CancelFlows
  <2>1. CASE Rests
    BY <2>1, RestsTodo
  <2>2. CASE SameLoop
    BY <1>0, <2>0, <2>2, NothingTodo DEF SameLoop
  <2>3. CASE Canceled
    <3>1. ASSUME NEW goal, NEW amt, NEW sake, Place(goal, amt, sake) PROVE Todo'
      BY <1>0, <2>0, <3>1, PlaceSets, NothingTodo
    <3> DEFINE c == NextOrder(bot)
    <3>2. DOMAIN c = BotFields /\ c.todo = bot.todo /\ c.back = bot.back
      BY <1>0, HelperFields
    <3> HIDE DEF c
    <3>3. CASE bot' = c
      BY <1>0, <2>0, <3>2, <3>3, NothingTodo
    <3>4. CASE bot' = [c EXCEPT !.goal = "none"]
      <4>1. bot'.todo = c.todo /\ bot'.back = c.back
        BY <3>2, <3>4 DEF BotFields
      <4> QED
        BY <1>0, <2>0, <3>2, <4>1, NothingTodo
    <3> QED
      BY <1>0, <2>3, <3>1, <3>3, <3>4, CanceledEnds DEF c
  <2> QED
    BY <1>0, <1>3, <2>1, <2>2, <2>3, CancelFields
<1>4. CASE PlaceStep
  <2>0. bot.todo = {}
    <3>1. bot.pc \in {"entry", "exit", "create", "record", "placed"}
      BY <1>0, <1>4, PlaceMoves DEF PlaceStep
    <3> QED
      BY <1>0, <3>1 DEF Fills, Control, RecoverPlaces
  <2>1. CASE Rests
    BY <2>1, RestsTodo
  <2>2. CASE NotPlaced
    BY <1>0, <2>0, <2>2, NotPlacedSets, NothingTodo DEF SameLoop
  <2>3. ASSUME NEW amt, ClearTheWay(amt), UNCHANGED db PROVE Todo'
    <3>1. CASE bot'.pc = "create" /\ SameLoop
      BY <1>0, <2>0, <3>1, NothingTodo DEF SameLoop
    <3>2. CASE bot'.pc = "loop" /\ bot'.todo = OpenOrders /\ bot'.back = bot.back
      BY <1>0, <2>3, <3>2, LoopTodo
    <3> QED
      BY <1>0, <2>2, <2>3, <3>1, <3>2, ClearTheWaySets
  <2>4. CASE PrepareEntry \/ PrepareExit
    <3>1. UNCHANGED db
      BY <2>4 DEF PrepareEntry, PrepareExit
    <3>2. NotPlaced \/ \E amt : ClearTheWay(amt)
      BY <2>4 DEF PrepareEntry, PrepareExit
    <3> QED
      BY <2>2, <2>3, <3>1, <3>2
  <2>5. CASE bot'.todo = bot.todo /\ bot'.back = bot.back
    BY <1>0, <2>0, <2>5, NothingTodo
  <2>6. CASE bot' = Resume(bot)
    BY <1>0, <2>6, HelperFields, NothingTodo
  <2> QED
    BY <1>0, <1>4, <2>1, <2>2, <2>4, <2>5, <2>6, PlaceFields DEF SameLoop
<1>5. CASE LoopStep
  <2>1. CASE Rests
    BY <2>1, RestsTodo
  <2>2. CASE bot' = [Idle("exit") EXCEPT !.pc = "decide"]
    <3>1. bot'.todo = {} /\ bot'.back = NoLoop
      BY <2>2, RestFields DEF BotFields
    <3> QED
      BY <1>0, <3>1, NothingTodo
  <2>3. CASE /\ LoopFetch \/ AssumeCanceled \/ LoopFetchFails
             /\ bot'.back = bot.back /\ bot'.todo = bot.todo \ {Min(Left)}
    <3>1. bot.flow # "recover" /\ Left # {}
      BY <2>3 DEF LoopFetch, AssumeCanceled, LoopFetchFails
    <3> QED
      BY <1>0, <2>3, <3>1, LoopTakesAll, NothingTodo
  <2>4. CASE RecoverNext /\ bot'.flow = bot.flow /\ bot'.back = bot.back
    BY <1>0, <2>4, NothingTodo DEF RecoverNext
  <2>5. CASE (LoopEnd \/ ForceExitEnd) /\ SameLoop
    <3>1. bot.flow # "recover" /\ Left = {}
      BY <2>5 DEF LoopEnd, ForceExitEnd
    <3>2. bot.todo = {}
      BY <3>1 DEF Todo, OpenOrders, Left, Recorded
    <3> QED
      BY <1>0, <2>5, <3>2, NothingTodo DEF SameLoop
  <2> QED
    BY <1>0, <1>5, <2>1, <2>2, <2>3, <2>4, <2>5, LoopFields
<1>6. CASE PhaseStep
  <2>0. bot.todo = {} /\ UNCHANGED db
    <3>1. bot.pc \in {"idle", "decide"}
      BY <1>0, <1>6, PhaseMoves
    <3> QED
      BY <1>0, <1>6, <3>1, PhaseQuiet DEF Fills, Control, RecoverPlaces
  <2>1. CASE Rests
    BY <2>1, RestsTodo
  <2>2. CASE bot' = Loop(bot, "manage", OpenOrders)
    BY <1>0, <2>0, <2>2, LoopSets, LoopTodo
  <2>3. CASE bot'.flow = "recover" /\ bot'.back = bot.back
    BY <1>0, <2>3, NothingTodo
  <2>4. CASE bot' = [bot EXCEPT !.pc = "decide"]
    <3>1. bot'.todo = bot.todo /\ bot'.back = bot.back
      BY <1>0, <2>4 DEF BotFields
    <3> QED
      BY <1>0, <2>0, <3>1, NothingTodo
  <2>5. CASE bot'.todo = bot.todo /\ bot'.back = bot.back
    BY <1>0, <2>0, <2>5, NothingTodo
  <2> QED
    BY <1>0, <1>6, <2>1, <2>2, <2>3, <2>4, <2>5, PhaseFields DEF SameLoop
<1>7. CASE RPC
  <2>0. bot.pc = "idle" /\ bot.todo = {}
    <3>1. bot.pc = "idle"
      BY <1>0, <1>7, CommandMoves
    <3> QED
      BY <1>0, <3>1 DEF Fills, Control, RecoverPlaces
  <2>1. CASE ForceExit /\ bot'.pc = "loop" /\ bot'.todo = OpenOrders /\ bot'.back = bot.back
    BY <1>0, <2>1, LoopTodo DEF ForceExit
  <2>2. CASE CancelOpenOrder /\ bot' = Loop(bot, "cancel_open_order", OpenOrders)
    BY <1>0, <2>2, LoopSets, LoopTodo DEF CancelOpenOrder
  <2>3. CASE bot' = bot
    BY <1>0, <2>0, <2>3, NothingTodo
  <2>4. CASE bot'.flow = "recover" /\ bot'.back = bot.back
    BY <1>0, <2>4, NothingTodo
  <2> QED
    BY <1>0, <1>7, <2>1, <2>2, <2>3, <2>4, CommandFields
<1>8. CASE Lifecycle
  <2>1. CASE Rests
    BY <2>1, RestsTodo
  <2>2. CASE StoppedCancelAll /\ bot' = Loop(bot, "stop", OpenOrders)
    BY <1>0, <2>2, LoopSets, LoopTodo DEF StoppedCancelAll
  <2>3. CASE Startup /\ bot' = Loop(Idle("fees"), "startup", OpenOrders)
    <3> DEFINE b == Idle("fees")
    <3>1. DOMAIN b = BotFields /\ b.back = NoLoop
      BY RestFields
    <3> HIDE DEF b
    <3>2. bot'.back = NoLoop /\ bot'.pc = "loop" /\ bot'.todo = OpenOrders
      <4>1. bot' = Loop(b, "startup", OpenOrders)
        BY <2>3 DEF b
      <4> QED
        BY <3>1, <4>1, LoopSets
    <3> QED
      BY <1>0, <2>3, <3>2, LoopTodo DEF Startup
  <2> QED
    BY <1>0, <1>8, <2>1, <2>2, <2>3, LifecycleFields
<1> QED
  BY <1>1, <1>2, <1>3, <1>4, <1>5, <1>6, <1>7, <1>8 DEF Next, Bot

-----------------------------------------------------------------------------
\* An open order is in the bot's hand, by a loop or by the handler of a cancellation.
InCharge ==
    \/ bot.pc \in Updating /\ (bot.flow \in UpdatingFlows \/ bot.inCancel)
    \/ bot.pc \in {"cancel", "cancel_result"}

HandledOpen == InCharge => OpenOrders \subseteq {bot.ord}

\* It was not recorded as final before, unless it is cancelled and empty.
HandledFinal ==
    InCharge /\ bot.pc \notin {"update_trade", "updated"} /\ IsFinal(db[bot.ord]) =>
      CanceledEmpty(bot.seen[bot.ord])

Handled == HandledOpen /\ HandledFinal

\* The fee of an open trade is looked up again for an entry.
FeesHandled == bot.flow = "fees" /\ bot.pc \in Updating /\ trade.st = "open" => IsEntry(bot.ord)

RecoverAll == bot.flow = "recover" => OpenOrders = {}

PlacedAll == bot.flow = "placed" /\ bot.pc \in Updating => OpenOrders = {}

\* Where an order is given to update_trade_state.
LEMMA UpdatingBegins ==
    ASSUME Typed, Fills, Places, Known, ~OrdersLost, Next, bot'.pc \in Updating
    PROVE  \/ Exchange \/ UpdateOrder \/ UpdateTradeRow \/ RecordOrder \/ RecoverNext
           \/ /\ CancelEnterResult \/ CancelExitResult
              /\ bot.pc = "cancel_result" /\ bot'.pc = "update_order" /\ bot'.inCancel
              /\ bot'.seen = bot.seen /\ SameHand /\ SameLoop /\ UNCHANGED <<ex, db, trade>>
           \/ /\ LoopFetch /\ bot'.pc = "update_order" /\ bot'.flow = bot.flow /\ ~bot'.inCancel
              /\ bot.flow \in UpdatingFlows /\ bot'.ord = Min(Left) /\ UNCHANGED <<ex, db, trade>>
           \/ /\ FeesPhase /\ bot'.pc = "update_order" /\ bot'.flow = "fees" /\ ~bot'.inCancel
              /\ bot'.ord \in FeeOrder /\ UNCHANGED <<ex, db, trade>>
<1>0. DOMAIN bot = BotFields /\ Course(bot)
  BY DEF Places, Course
<1> USE DEF Updating
<1>1. CASE UpdateStep
  BY <1>0, <1>1, UpdateMoves DEF UpdateStep
<1>2. CASE CancelStep
  <2>1. CASE CancelEnterResult \/ CancelExitResult
    <3>1. bot'.pc = "update_order" /\ bot'.inCancel /\ bot'.seen = bot.seen /\ bot.pc = "cancel_result"
      BY <1>0, <2>1 DEF CancelEnterResult, CancelExitResult, BotFields
    <3>2. SameHand /\ SameLoop
      BY <1>0, <2>1 DEF CancelEnterResult, CancelExitResult, BotFields, SameHand, SameLoop
    <3>3. UNCHANGED <<ex, db, trade>>
      <4>1. CASE CancelExitResult
        BY <4>1 DEF CancelExitResult
      <4>2. CASE CancelEnterResult
        <5>1. bot'.pc # "canceled"
          BY <3>1
        <5>2. [bot EXCEPT !.pc = "canceled", !.ret = FALSE].pc = "canceled"
              /\ [bot EXCEPT !.pc = "canceled", !.ret = TRUE].pc = "canceled"
          BY <1>0 DEF BotFields
        <5> QED
          BY <4>2, <5>1, <5>2 DEF CancelEnterResult
      <4> QED
        BY <2>1, <4>1, <4>2
    <3> QED
      BY <2>1, <3>1, <3>2, <3>3
  <2>2. CASE CancelKeep \/ CancelKnown \/ CancelOnExchange
    BY <1>0, <2>2 DEF CancelKeep, CancelKnown, CancelOnExchange, BotFields
  <2>3. CASE CancelRaises
    BY <1>0, <1>2, <2>3, CancelMoves DEF CancelRaises, RequestCancel
  <2>4. CASE Canceled
    BY <1>0, <1>2, <2>4, CancelMoves DEF Canceled
  <2> QED
    BY <1>2, <2>1, <2>2, <2>3, <2>4 DEF CancelStep
<1>3. CASE PlaceStep
  BY <1>0, <1>3, PlaceMoves DEF PlaceStep
<1>4. CASE LoopStep
  <2>1. CASE LoopFetch
    <3>1. bot.pc = "loop" /\ ~bot.inCancel
      BY <1>0, <2>1 DEF LoopFetch, Course
    <3>2. bot'.flow = bot.flow /\ bot'.inCancel = bot.inCancel /\ bot'.ord = Min(Left)
      BY <1>0, <2>1 DEF LoopFetch, BotFields
    <3>3. bot'.pc = "update_order" /\ bot.flow \in UpdatingFlows
      BY <1>0, <2>1 DEF LoopFetch, BotFields
    <3> QED
      BY <2>1, <3>1, <3>2, <3>3 DEF LoopFetch
  <2>2. CASE RecoverNext
    BY <2>2
  <2>3. CASE Rests
    BY <2>3, RestsRest DEF Resting
  <2>4. CASE bot' = [Idle("exit") EXCEPT !.pc = "decide"]
    BY <2>4, RestFields DEF BotFields
  <2>5. CASE bot'.pc \in {"loop", "create", "placed", "exit"}
    BY <2>5
  <2> QED
    BY <1>0, <1>4, <2>1, <2>2, <2>3, <2>4, <2>5, LoopFields DEF AssumeCanceled
<1>5. CASE PhaseStep
  <2>1. CASE FeesPhase /\ bot'.pc = "update_order" /\ bot'.flow = "fees" /\ bot'.ord \in FeeOrder
             /\ bot'.inCancel = bot.inCancel
    <3>1. UNCHANGED <<ex, db, trade>>
      BY <2>1 DEF FeesPhase, Skip
    <3>2. ~bot.inCancel
      BY <1>0, <2>1 DEF Course, FeesPhase, Enter
    <3> QED
      BY <2>1, <3>1, <3>2
  <2>2. CASE Rests
    BY <2>2, RestsRest DEF Resting
  <2>3. CASE bot' = Loop(bot, "manage", OpenOrders)
    BY <1>0, <2>3, LoopSets
  <2>4. CASE bot'.pc \in {"loop", "decide", "exit", "entry", "create"}
    BY <2>4
  <2> QED
    BY <1>0, <1>5, <2>1, <2>2, <2>3, <2>4, PhaseFields
<1>6. CASE RPC
  BY <1>0, <1>6, CommandMoves
<1>7. CASE Lifecycle
  BY <1>0, <1>7, LifecycleMoves
<1> QED
  BY <1>1, <1>2, <1>3, <1>4, <1>5, <1>6, <1>7 DEF Next, Bot

\* Where an order is cancelled.
LEMMA CancelingBegins ==
    ASSUME Typed, Places, ~OrdersLost, Next, bot'.pc \in {"cancel", "cancel_result"}
    PROVE  \/ Exchange
           \/ /\ Updated /\ bot.pc = "updated" /\ ~bot.inCancel /\ bot.flow = "manage"
              /\ bot'.ord = bot.ord /\ bot'.seen = bot.seen
              /\ bot.ret \/ bot.seen[bot.ord].status = "open"
              /\ UNCHANGED db
           \/ LoopFetch /\ bot'.ord = Min(Left) /\ UNCHANGED db
           \/ /\ bot.pc = "cancel" /\ bot'.ord = bot.ord /\ UNCHANGED db
              /\ bot'.seen = bot.seen \/ bot.seen[bot.ord].status = "open"
<1>0. DOMAIN bot = BotFields /\ Course(bot)
  BY DEF Places, Course
<1>1. CASE UpdateStep
  <2>1. CASE UpdateOrder \/ UpdateTradeRow
    BY <1>0, <2>1, UpdateMoves
  <2>2. CASE Updated
    <3>1. UNCHANGED db /\ bot.pc = "updated"
      BY <2>2 DEF Updated
    <3>2. bot' # NextOrder(bot) /\ bot' # Idle("manage")
      <4>1. NextOrder(bot).pc = "loop" /\ Idle("manage").pc = "idle"
        BY <1>0, WhereTo
      <4> QED
        BY <4>1
    <3>3. CASE bot.inCancel
      BY <1>0, <2>2, <3>3 DEF Updated, BotFields
    <3>4. CASE ~bot.inCancel /\ bot.flow # "manage"
      BY <1>0, <2>2, <3>2, <3>4 DEF Updated, BotFields
    <3>5. CASE ~bot.inCancel /\ bot.flow = "manage"
      <4>1. \/ bot.ret \/ bot.seen[bot.ord].status = "open"
            \/ bot' = NextOrder(bot)
        BY <2>2, <3>5 DEF Updated
      <4>2. bot'.ord = bot.ord /\ bot'.seen = bot.seen
        BY <1>0, <2>2, <3>2, <3>5 DEF Updated, BotFields
      <4> QED
        BY <2>2, <3>1, <3>2, <3>5, <4>1, <4>2
    <3> QED
      BY <3>3, <3>4, <3>5
  <2> QED
    BY <1>1, <2>1, <2>2 DEF UpdateStep
<1>2. CASE CancelStep
  <2>1. CASE CancelOnExchange
    BY <1>0, <2>1 DEF CancelOnExchange, RequestCancel, BotFields
  <2>2. CASE CancelKnown
    BY <1>0, <2>2 DEF CancelKnown, BotFields
  <2>3. CASE CancelKeep \/ CancelEnterResult \/ CancelExitResult
    BY <1>0, <2>3 DEF CancelKeep, CancelEnterResult, CancelExitResult, BotFields
  <2>4. CASE CancelRaises
    <3>1. CASE Rests
      BY <3>1, RestsRest DEF Resting
    <3>2. CASE bot'.pc = "placed"
      BY <3>2
    <3> QED
      BY <1>0, <2>4, <3>1, <3>2 DEF CancelRaises, Rests, BotFields
  <2>5. CASE Canceled
    <3>1. ASSUME NEW goal \in {"entry", "exit"}, NEW amt, NEW sake, Place(goal, amt, sake) PROVE FALSE
      BY <1>0, <3>1, PlaceSets
    <3> DEFINE c == NextOrder(bot)
    <3>2. DOMAIN c = BotFields /\ c.pc = "loop"
      BY <1>0, HelperFields
    <3> HIDE DEF c
    <3>3. bot' # c /\ bot' # [c EXCEPT !.goal = "none"]
      BY <3>2 DEF BotFields
    <3> QED
      BY <1>0, <2>5, <3>1, <3>3, CanceledEnds DEF c
  <2> QED
    BY <1>2, <2>1, <2>2, <2>3, <2>4, <2>5 DEF CancelStep
<1>3. CASE PlaceStep
  BY <1>0, <1>3, PlaceMoves DEF PlaceStep
<1>4. CASE LoopStep
  <2>1. CASE LoopFetch
    BY <1>0, <2>1 DEF LoopFetch, BotFields
  <2>2. CASE RecoverNext
    BY <1>0, <2>2 DEF RecoverNext, BotFields
  <2>3. CASE Rests
    BY <2>3, RestsRest DEF Resting
  <2>4. CASE bot' = [Idle("exit") EXCEPT !.pc = "decide"]
    BY <2>4, RestFields DEF BotFields
  <2>5. CASE bot'.pc \in {"loop", "create", "placed", "exit"}
    BY <2>5
  <2> QED
    BY <1>0, <1>4, <2>1, <2>2, <2>3, <2>4, <2>5, LoopFields DEF AssumeCanceled
<1>5. CASE PhaseStep
  BY <1>0, <1>5, PhaseMoves
<1>6. CASE RPC
  BY <1>0, <1>6, CommandMoves
<1>7. CASE Lifecycle
  BY <1>0, <1>7, LifecycleMoves
<1> QED
  BY <1>1, <1>2, <1>3, <1>4, <1>5, <1>6, <1>7 DEF Next, Bot

\* Where handle_onexchange_order is called.
LEMMA RecoverBegins ==
    ASSUME Fills, Places, Next, bot'.flow = "recover"
    PROVE  \/ bot.flow = "recover"
           \/ ReloadTrade
           \/ /\ ExitPhase /\ trade.st = "open" /\ OpenOrders = {} /\ Wallet < trade.amount
              /\ UNCHANGED <<ex, db, trade>>
<1>0. DOMAIN bot = BotFields /\ bot.back.flow # "recover"
  BY DEF Fills, Control
<1>1. CASE Rests
  BY <1>1, RestsRest
<1>2. CASE UpdateStep
  BY <1>0, <1>1, <1>2, UpdateFields, HelperFields DEF Rests, SameLoop
<1>3. CASE CancelStep
  <2>1. CASE Canceled
    <3>1. ASSUME NEW goal, NEW amt, NEW sake, Place(goal, amt, sake) PROVE bot.flow = "recover"
      BY <1>0, <3>1, PlaceSets
    <3> DEFINE c == NextOrder(bot)
    <3>2. DOMAIN c = BotFields /\ c.flow = bot.flow
      BY <1>0, HelperFields
    <3> HIDE DEF c
    <3>3. bot' = c \/ bot' = [c EXCEPT !.goal = "none"] => bot.flow = "recover"
      BY <3>2 DEF BotFields
    <3> QED
      BY <1>0, <2>1, <3>1, <3>3, CanceledEnds DEF c
  <2> QED
    BY <1>0, <1>1, <1>3, <2>1, CancelFields DEF SameLoop
<1>4. CASE PlaceStep
  <2>1. CASE NotPlaced
    BY <1>0, <2>1, NotPlacedSets DEF SameLoop
  <2>2. ASSUME NEW amt, ClearTheWay(amt) PROVE bot.flow = "recover"
    BY <1>0, <2>2, ClearTheWaySets, NotPlacedSets DEF SameLoop
  <2>3. CASE bot' = Resume(bot)
    BY <1>0, <2>3, HelperFields
  <2>4. CASE PrepareEntry \/ PrepareExit
    BY <2>1, <2>2, <2>4 DEF PrepareEntry, PrepareExit
  <2> QED
    BY <1>0, <1>1, <1>4, <2>1, <2>3, <2>4, PlaceFields DEF SameLoop
<1>5. CASE LoopStep
  <2>1. CASE bot' = [Idle("exit") EXCEPT !.pc = "decide"]
    BY <2>1, RestFields DEF BotFields
  <2> QED
    BY <1>0, <1>1, <1>5, <2>1, LoopFields DEF SameLoop
<1>6. CASE PhaseStep
  <2>1. CASE bot' = Loop(bot, "manage", OpenOrders)
    BY <1>0, <2>1, LoopSets
  <2>2. CASE bot' = [bot EXCEPT !.pc = "decide"]
    BY <1>0, <2>2 DEF BotFields
  <2>3. UNCHANGED <<ex, db, trade>>
    BY <1>6, PhaseQuiet DEF Fills
  <2> QED
    BY <1>0, <1>1, <1>6, <2>1, <2>2, <2>3, PhaseFields DEF SameLoop
<1>7. CASE RPC
  <2>1. CASE bot' = Loop(bot, "cancel_open_order", OpenOrders)
    BY <1>0, <2>1, LoopSets
  <2> QED
    BY <1>0, <1>7, <2>1, CommandFields
<1>8. CASE Lifecycle
  <2>1. CASE bot' = Loop(bot, "stop", OpenOrders)
    BY <1>0, <2>1, LoopSets
  <2>2. CASE bot' = Loop(Idle("fees"), "startup", OpenOrders)
    BY <2>2, LoopSets, RestFields
  <2> QED
    BY <1>0, <1>1, <1>8, <2>1, <2>2, LifecycleFields
<1>9. CASE Exchange
  BY <1>9, ExchangeStays
<1> QED
  BY <1>2, <1>3, <1>4, <1>5, <1>6, <1>7, <1>8, <1>9 DEF Next, Bot

-----------------------------------------------------------------------------
Accounts ==
    /\ Accounted /\ OneUnfinal /\ Unrecorded /\ Todo /\ Handled
    /\ FeesHandled /\ RecoverAll /\ PlacedAll

\* What the accounts of the orders rest on.
Steady == Purchase /\ Called

LEMMA SteadyParts ==
    ASSUME Steady
    PROVE  /\ Typed /\ Agreement /\ Fills /\ Places /\ SeenFinal /\ PlacedFills /\ Balanced
           /\ HandSeen /\ HandKnown /\ RecordsKnown /\ Origin /\ Said /\ Rested /\ Known
           /\ DOMAIN bot = BotFields /\ Course(bot)
BY DEF Steady, Purchase, Called, Ledger, Known, Places, Course

\* The order in hand stays the one it was.
LEMMA SideStays ==
    ASSUME Steady, Next, NEW o \in Orders, ex[o].status # "none"
    PROVE  IsEntry(o)' = IsEntry(o) /\ ex'[o].side = ex[o].side /\ ex'[o].amount = ex[o].amount
<1>1. Lasting
  BY SteadyParts, OrdersLast
<1> QED
  BY <1>1 DEF Lasting, IsEntry

LEMMA NextHandledOpen ==
    ASSUME Steady, Accounts, ~OrdersLost, Next
    PROVE  HandledOpen'
<1>0. DOMAIN bot = BotFields /\ Course(bot) /\ Course(bot')
  BY SteadyParts, NextPlaces DEF Places
<1> SUFFICES ASSUME InCharge'
             PROVE  OpenOrders' \subseteq {bot'.ord}
  BY DEF HandledOpen
<1>1. \/ bot'.pc \in Updating /\ (bot'.flow \in UpdatingFlows \/ bot'.inCancel)
      \/ bot'.pc \in {"cancel", "cancel_result"}
  BY DEF InCharge
<1>2. CASE Exchange
  BY <1>2, ExchangeStays DEF InCharge, OpenOrders, Accounts, Handled, HandledOpen
<1>3. CASE bot'.ord = bot.ord /\ InCharge /\ ~RecordOrder
  BY <1>3, OpenShrink, SteadyParts DEF Accounts, Handled, HandledOpen
<1>4. CASE LoopFetch /\ bot'.ord = Min(Left) /\ UNCHANGED db
  <2>1. bot.flow # "recover" /\ Left # {}
    BY <1>4 DEF LoopFetch
  <2>2. OpenOrders = {Min(Left)}
    BY <2>1, LoopTakesAll, SteadyParts DEF Accounts
  <2> QED
    BY <1>4, <2>2 DEF OpenOrders
<1>5. CASE bot'.pc \in Updating
  <2>1. CASE UpdateOrder \/ UpdateTradeRow
    <3>1. bot.pc \in Updating /\ bot.pc # "record"
      BY <1>0, <2>1, UpdateMoves DEF Updating
    <3>2. bot'.ord = bot.ord /\ bot'.flow = bot.flow /\ bot'.inCancel = bot.inCancel
      BY <1>0, <2>1 DEF UpdateOrder, UpdateTradeRow, BotFields
    <3>3. InCharge /\ ~RecordOrder
      BY <1>1, <1>5, <3>1, <3>2 DEF InCharge, Updating, RecordOrder
    <3> QED
      BY <1>3, <3>2, <3>3
  <2>2. CASE RecordOrder
    <3>1. bot'.flow = "placed"
      BY <1>0, <2>2, PlaceMoves, SteadyParts DEF PlacedFills
    <3>2. ~bot'.inCancel /\ bot'.flow \notin UpdatingFlows
      BY <1>0, <3>1 DEF Course, CancelFlows, UpdatingFlows
    <3> QED
      BY <1>1, <1>5, <3>2 DEF Updating
  <2>3. CASE RecoverNext
    <3>1. bot'.flow = "recover"
      BY <1>0, <2>3 DEF RecoverNext, BotFields
    <3>2. ~bot'.inCancel /\ bot'.flow \notin UpdatingFlows
      BY <1>0, <3>1 DEF Course, CancelFlows, UpdatingFlows
    <3> QED
      BY <1>1, <1>5, <3>2 DEF Updating
  <2>4. CASE (CancelEnterResult \/ CancelExitResult) /\ bot.pc = "cancel_result" /\ SameHand
    BY <1>3, <2>4 DEF InCharge, SameHand, RecordOrder
  <2>5. CASE FeesPhase /\ bot'.flow = "fees" /\ ~bot'.inCancel
    BY <1>1, <1>5, <2>5 DEF UpdatingFlows, Updating
  <2>6. CASE LoopFetch /\ bot'.ord = Min(Left) /\ UNCHANGED <<ex, db, trade>>
    BY <1>4, <2>6
  <2> QED
    BY <1>2, <1>5, <2>1, <2>2, <2>3, <2>4, <2>5, <2>6, UpdatingBegins, SteadyParts
<1>6. CASE bot'.pc \in {"cancel", "cancel_result"}
  <2>1. CASE Updated /\ bot.pc = "updated" /\ bot.flow = "manage" /\ bot'.ord = bot.ord
    BY <1>3, <2>1 DEF InCharge, Updating, UpdatingFlows, RecordOrder
  <2>2. CASE bot.pc = "cancel" /\ bot'.ord = bot.ord
    BY <1>3, <2>2 DEF InCharge, RecordOrder
  <2> QED
    BY <1>2, <1>4, <1>6, <2>1, <2>2, CancelingBegins, SteadyParts
<1> QED
  BY <1>1, <1>5, <1>6

LEMMA NextHandledFinal ==
    ASSUME Steady, Accounts, ~OrdersLost, Next
    PROVE  HandledFinal'
<1>0. DOMAIN bot = BotFields /\ Course(bot) /\ Course(bot')
  BY SteadyParts, NextPlaces DEF Places
<1> SUFFICES ASSUME InCharge', bot'.pc \notin {"update_trade", "updated"}, IsFinal(db'[bot'.ord])
             PROVE  CanceledEmpty(bot'.seen[bot'.ord])
  BY DEF HandledFinal
<1>1. \/ bot'.pc = "update_order" /\ (bot'.flow \in UpdatingFlows \/ bot'.inCancel)
      \/ bot'.pc \in {"cancel", "cancel_result"}
  BY DEF InCharge, Updating
<1>2. CASE Exchange
  BY <1>2, ExchangeStays DEF InCharge, Accounts, Handled, HandledFinal
<1>3. CASE LoopFetch /\ bot'.ord = Min(Left) /\ UNCHANGED db
  <2>1. bot.flow # "recover" /\ Left # {}
    BY <1>3 DEF LoopFetch
  <2>2. db[Min(Left)].status = "open"
    BY <2>1, LoopTakesAll, SteadyParts DEF Accounts, OpenOrders
  <2> QED
    BY <1>3, <2>2 DEF IsFinal
<1>4. CASE /\ bot.pc \in {"cancel", "cancel_result"} /\ bot'.ord = bot.ord /\ UNCHANGED db
           /\ bot'.seen = bot.seen \/ bot.seen[bot.ord].status = "open"
  <2>1. CanceledEmpty(bot.seen[bot.ord])
    BY <1>4 DEF InCharge, Accounts, Handled, HandledFinal
  <2> QED
    BY <1>4, <2>1 DEF CanceledEmpty, IsFinal
<1>5. CASE bot'.pc = "update_order"
  <2>1. CASE UpdateOrder \/ UpdateTradeRow
    BY <1>0, <1>5, <2>1, UpdateMoves
  <2>2. CASE RecordOrder
    <3>1. bot'.flow = "placed"
      BY <1>0, <2>2, PlaceMoves, SteadyParts DEF PlacedFills
    <3>2. ~bot'.inCancel /\ bot'.flow \notin UpdatingFlows
      BY <1>0, <3>1 DEF Course, CancelFlows, UpdatingFlows
    <3> QED
      BY <1>1, <1>5, <3>2
  <2>3. CASE RecoverNext
    <3>1. bot'.flow = "recover"
      BY <1>0, <2>3 DEF RecoverNext, BotFields
    <3>2. ~bot'.inCancel /\ bot'.flow \notin UpdatingFlows
      BY <1>0, <3>1 DEF Course, CancelFlows, UpdatingFlows
    <3> QED
      BY <1>1, <1>5, <3>2
  <2>4. CASE /\ CancelEnterResult \/ CancelExitResult
             /\ bot.pc = "cancel_result" /\ bot'.seen = bot.seen /\ SameHand /\ UNCHANGED <<ex, db, trade>>
    BY <1>4, <2>4 DEF SameHand
  <2>5. CASE FeesPhase /\ bot'.flow = "fees" /\ ~bot'.inCancel
    BY <1>1, <1>5, <2>5 DEF UpdatingFlows
  <2>6. CASE LoopFetch /\ bot'.ord = Min(Left) /\ UNCHANGED <<ex, db, trade>>
    BY <1>3, <2>6
  <2> QED
    BY <1>2, <1>5, <2>1, <2>2, <2>3, <2>4, <2>5, <2>6, UpdatingBegins, SteadyParts DEF Updating
<1>6. CASE bot'.pc \in {"cancel", "cancel_result"}
  <2>1. CASE /\ Updated /\ bot.pc = "updated" /\ bot'.ord = bot.ord /\ bot'.seen = bot.seen
             /\ bot.ret \/ bot.seen[bot.ord].status = "open"
             /\ UNCHANGED db
    BY <2>1, SteadyParts DEF Said, IsFinal
  <2> QED
    BY <1>2, <1>3, <1>4, <1>6, <2>1, CancelingBegins, SteadyParts
<1> QED
  BY <1>1, <1>5, <1>6

LEMMA NextFeesHandled ==
    ASSUME Steady, FeesHandled, ~OrdersLost, Next
    PROVE  FeesHandled'
<1>0. DOMAIN bot = BotFields /\ Course(bot) /\ Course(bot')
  BY SteadyParts, NextPlaces DEF Places
<1> SUFFICES ASSUME bot'.flow = "fees", bot'.pc \in Updating, trade'.st = "open"
             PROVE  ex'[bot'.ord].side = "buy"
  BY DEF FeesHandled, IsEntry
<1>1. CASE bot.flow = "fees" /\ bot.pc \in Updating /\ trade.st = "open" /\ bot'.ord = bot.ord
  <2>1. ex[bot.ord].status # "none" /\ bot.ord \in Orders
    BY <1>1, SteadyParts DEF HandKnown, InHand, Typed, BotTyped
  <2>2. IsEntry(bot.ord)
    BY <1>1 DEF FeesHandled
  <2>3. ex'[bot.ord].side = ex[bot.ord].side
    BY <2>1, SideStays
  <2> QED
    BY <1>1, <2>2, <2>3 DEF IsEntry
<1>2. CASE Exchange
  BY <1>1, <1>2, ExchangeStays
<1>3. CASE UpdateOrder \/ UpdateTradeRow
  <2>1. bot.pc \in Updating
    BY <1>0, <1>3, UpdateMoves DEF Updating
  <2>2. bot'.flow = bot.flow /\ bot'.ord = bot.ord
    BY <1>0, <1>3 DEF UpdateOrder, UpdateTradeRow, BotFields
  <2>3. trade.st = "open"
    <3>1. CASE UpdateOrder
      BY <3>1 DEF UpdateOrder
    <3>2. CASE UpdateTradeRow
      <4> DEFINE t == UpdateTrade(trade, db, bot.ord, Recalculating)
      <4>1. t.st \in {trade.st, "closed"} /\ DOMAIN t = {"st", "amount", "fee"}
        BY TradeUpdates, SteadyParts DEF Places
      <4>2. trade' = trade \/ trade' = t \/ \E fee : trade' = [t EXCEPT !.fee = fee]
        BY <3>2 DEF UpdateTradeRow
      <4> HIDE DEF t
      <4> QED
        BY <4>1, <4>2
    <3> QED
      BY <1>3, <3>1, <3>2
  <2> QED
    BY <1>1, <2>1, <2>2, <2>3
<1>4. CASE RecordOrder
  BY <1>0, <1>4, PlaceMoves, SteadyParts DEF PlacedFills
<1>5. CASE RecoverNext
  BY <1>0, <1>5 DEF RecoverNext, BotFields
<1>6. CASE bot'.inCancel
  BY <1>0, <1>6 DEF Course, CancelFlows
<1>7. CASE bot'.flow \in UpdatingFlows
  BY <1>7 DEF UpdatingFlows
<1>8. CASE FeesPhase /\ bot'.ord \in FeeOrder /\ UNCHANGED <<ex, db, trade>>
  <2>1. trade.st = "open"
    BY <1>8
  <2>2. FeeOrder \subseteq FilledOrders("buy")
    BY <2>1 DEF FeeOrder
  <2> QED
    BY <1>8, <2>2 DEF FilledOrders, IsEntry
<1> QED
  BY <1>2, <1>3, <1>4, <1>5, <1>6, <1>7, <1>8, UpdatingBegins, SteadyParts

LEMMA NextRecoverAll ==
    ASSUME Steady, Accounted, RecoverAll, "reload_trade" \notin Commands, Next
    PROVE  RecoverAll'
<1>0. DOMAIN bot = BotFields
  BY SteadyParts
<1> SUFFICES ASSUME bot'.flow = "recover"
             PROVE  OpenOrders' = {}
  BY DEF RecoverAll
<1>1. CASE bot.flow = "recover"
  <2>1. ~RecordOrder
    BY <1>1, SteadyParts DEF RecordOrder, Fills, Control, RecoverPlaces
  <2> QED
    BY <1>1, <2>1, OpenShrink, SteadyParts DEF RecoverAll
<1>2. CASE OpenOrders = {} /\ UNCHANGED <<ex, db, trade>>
  BY <1>2 DEF OpenOrders
<1> QED
  BY <1>1, <1>2, RecoverBegins, SteadyParts DEF ReloadTrade, Command

LEMMA NextPlacedAll ==
    ASSUME Steady, Accounted, OneUnfinal, PlacedAll, ~OrdersLost, Next
    PROVE  PlacedAll'
<1>0. DOMAIN bot = BotFields /\ Course(bot) /\ Course(bot')
  BY SteadyParts, NextPlaces DEF Places
<1> SUFFICES ASSUME bot'.flow = "placed", bot'.pc \in Updating
             PROVE  OpenOrders' = {}
  BY DEF PlacedAll
<1>1. CASE Exchange
  BY <1>1, ExchangeStays DEF PlacedAll, OpenOrders
<1>2. CASE UpdateOrder \/ UpdateTradeRow
  <2>1. bot.pc \in Updating
    BY <1>0, <1>2, UpdateMoves DEF Updating
  <2>2. bot'.flow = bot.flow /\ ~RecordOrder
    BY <1>0, <1>2 DEF UpdateOrder, UpdateTradeRow, RecordOrder, BotFields
  <2> QED
    BY <2>1, <2>2, OpenShrink, SteadyParts DEF PlacedAll
<1>3. CASE RecordOrder
  <2>1. bot.pc = "record" /\ IsFinal(bot.seen[bot.ord]) /\ bot.ord \in Orders
    <3>1. bot.pc = "record" /\ bot.ord \in Orders
      BY <1>3, SteadyParts DEF RecordOrder, Typed, BotTyped
    <3>2. CASE ~IsFinal(bot.seen[bot.ord])
      BY <1>0, <1>3, <3>2 DEF RecordOrder, Updating, BotFields
    <3> QED
      BY <3>1, <3>2
  <2>2. \A o \in OpenOrders : o = bot.ord
    BY <2>1 DEF OneUnfinal, Unfinal, OpenOrders
  <2>3. IsFinal(db'[bot.ord]) /\ \A o \in Orders \ {bot.ord} : db'[o] = db[o]
    BY <1>3, <2>1, WrittenExists, SteadyParts
  <2>4. \A o \in Orders : db'[o].status # "open"
    BY <2>2, <2>3 DEF OpenOrders, IsFinal
  <2> QED
    BY <2>4 DEF OpenOrders
<1>4. CASE RecoverNext
  BY <1>0, <1>4 DEF RecoverNext, BotFields
<1>5. CASE bot'.inCancel
  BY <1>0, <1>5 DEF Course, CancelFlows
<1>6. CASE bot'.flow \in UpdatingFlows
  BY <1>6 DEF UpdatingFlows
<1> QED
  BY <1>1, <1>2, <1>3, <1>4, <1>5, <1>6, UpdatingBegins, SteadyParts

LEMMA NextSteady ==
    ASSUME Steady, ~OrdersLost, [Next]_vars
    PROVE  Steady'
<1>1. Purchase'
  BY NextPurchase DEF Steady
<1>2. Typed'
  BY <1>1 DEF Purchase, Ledger
<1> QED
  BY <1>1, <1>2, NextCalled, SteadyParts DEF Steady

LEMMA NextAccounts ==
    ASSUME Steady, Accounts, ~OrdersLost, "reload_trade" \notin Commands, ~Crash, [Next]_vars
    PROVE  Accounts'
<1>1. CASE Next
  <2>1. Accounted'
    BY <1>1, NextAccounted, SteadyParts DEF Accounts
  <2>2. OneUnfinal'
    BY <1>1, NextOneUnfinal, SteadyParts DEF Accounts
  <2>3. Unrecorded'
    BY <1>1, NextUnrecorded, SteadyParts DEF Accounts
  <2>4. Todo'
    BY <1>1, NextTodo, SteadyParts DEF Accounts
  <2>5. Handled'
    BY <1>1, NextHandledOpen, NextHandledFinal DEF Handled
  <2>6. FeesHandled'
    BY <1>1, NextFeesHandled DEF Accounts
  <2>7. RecoverAll'
    BY <1>1, NextRecoverAll DEF Accounts
  <2>8. PlacedAll'
    BY <1>1, NextPlacedAll DEF Accounts
  <2> QED
    BY <2>1, <2>2, <2>3, <2>4, <2>5, <2>6, <2>7, <2>8 DEF Accounts
<1>2. CASE UNCHANGED vars
  BY <1>2 DEF vars, Accounts, Accounted, OneUnfinal, Unfinal, Unrecorded, Todo, Handled, HandledOpen,
              HandledFinal, InCharge, FeesHandled, RecoverAll, PlacedAll, OpenOrders, IsEntry
<1> QED
  BY <1>1, <1>2

LEMMA InitAccounts == Init => Steady /\ Accounts
<1> SUFFICES ASSUME Init PROVE Steady /\ Accounts
  OBVIOUS
<1>1. Steady
  BY InitPurchase, InitCalled DEF Steady
<1>2. /\ bot.pc = "idle" /\ bot.flow = "none" /\ bot.todo = {} /\ bot.back = NoLoop
      /\ \A o \in Orders : ex[o].status = "none" /\ db[o].status = "none"
  BY RestFields DEF Init, Nothing
<1>3. Accounted /\ OneUnfinal /\ Unrecorded
  BY <1>2 DEF Accounted, OneUnfinal, Unfinal, Unrecorded
<1>4. Todo
  BY <1>2 DEF Todo, NoLoop
<1>5. Handled /\ FeesHandled /\ RecoverAll /\ PlacedAll
  BY <1>2 DEF Handled, HandledOpen, HandledFinal, InCharge, Updating, FeesHandled, RecoverAll, PlacedAll
<1> QED
  BY <1>1, <1>3, <1>4, <1>5 DEF Accounts

-----------------------------------------------------------------------------
(* ClosedMeansFlat: the sum of the fills against the coins on the account.      *)

\* An order is placed to enter or to exit.
Goals ==
    bot.pc \in {"entry", "exit", "create"} \/ bot.flow = "similar" => bot.goal \in {"entry", "exit"}

LEMMA GoalStays ==
    ASSUME Goals, bot'.goal = bot.goal,
           bot'.pc \in {"entry", "exit", "create"} => bot.pc \in {"entry", "exit", "create"},
           bot'.flow = bot.flow
    PROVE  Goals'
BY DEF Goals

LEMMA GoalSet == ASSUME bot'.goal \in {"entry", "exit"} PROVE Goals'
BY DEF Goals

LEMMA NoGoal == ASSUME bot'.pc \notin {"entry", "exit", "create"}, bot'.flow # "similar" PROVE Goals'
BY DEF Goals

LEMMA NextGoals ==
    ASSUME Places, Rested, Goals, Next
    PROVE  Goals'
<1>0. DOMAIN bot = BotFields /\ Course(bot)
  BY DEF Places, Course
<1>1. CASE Rests
  BY <1>1, RestsRest, NoGoal DEF Resting
<1>2. CASE Exchange
  BY <1>2, ExchangeStays, GoalStays
<1>3. CASE UpdateStep
  <2>1. bot'.pc \notin {"entry", "exit", "create"}
    BY <1>0, <1>3, UpdateMoves DEF UpdateStep
  <2>2. CASE bot' = NextOrder(bot)
    BY <1>0, <2>1, <2>2, HelperFields, GoalStays
  <2>3. CASE SameLoop /\ SameErrand
    BY <2>1, <2>3, GoalStays DEF SameLoop, SameErrand
  <2> QED
    BY <1>0, <1>1, <1>3, <2>2, <2>3, UpdateFields DEF Rests
<1>4. CASE CancelStep
  <2>1. CASE SameLoop /\ SameErrand /\ ~Canceled
    <3>1. bot'.pc \notin {"entry", "exit", "create"}
      <4>1. CASE CancelKeep \/ CancelKnown \/ CancelOnExchange
        BY <1>0, <4>1 DEF CancelKeep, CancelKnown, CancelOnExchange, BotFields
      <4>2. CASE CancelEnterResult \/ CancelExitResult
        BY <1>0, <4>2 DEF CancelEnterResult, CancelExitResult, BotFields
      <4>3. CASE Rests
        BY <4>3, RestsRest DEF Resting
      <4>4. CASE bot'.pc = "placed"
        BY <4>4
      <4> QED
        BY <1>0, <1>4, <2>1, <4>1, <4>2, <4>3, <4>4, CancelFields
    <3> QED
      BY <2>1, <3>1, GoalStays DEF SameLoop, SameErrand
  <2>2. CASE Canceled
    <3>1. ASSUME NEW goal \in {"entry", "exit"}, NEW amt, NEW sake, Place(goal, amt, sake) PROVE Goals'
      BY <1>0, <3>1, PlaceSets, GoalSet
    <3> DEFINE c == NextOrder(bot)
    <3>2. DOMAIN c = BotFields /\ c.pc = "loop" /\ c.flow = bot.flow /\ c.goal = bot.goal
      BY <1>0, HelperFields
    <3> HIDE DEF c
    <3>3. CASE bot' = c
      BY <3>2, <3>3, GoalStays
    <3>4. CASE bot' = [c EXCEPT !.goal = "none"] /\ bot.flow = "forceexit"
      <4>1. bot'.pc = "loop" /\ bot'.flow = "forceexit"
        BY <3>2, <3>4 DEF BotFields
      <4> QED
        BY <4>1, NoGoal
    <3> QED
      BY <1>0, <2>2, <3>1, <3>3, <3>4, CanceledEnds DEF c
  <2> QED
    BY <1>0, <1>1, <1>4, <2>1, <2>2, CancelFields
<1>5. CASE PlaceStep
  <2>1. CASE NotPlaced
    BY <1>0, <2>1, NotPlacedSets, GoalStays DEF SameLoop, SameErrand
  <2>2. ASSUME NEW amt, ClearTheWay(amt), bot.pc \in {"entry", "exit"} PROVE Goals'
    BY <1>0, <2>1, <2>2, ClearTheWaySets, GoalSet DEF Goals
  <2>3. CASE PrepareEntry \/ PrepareExit
    BY <2>1, <2>2, <2>3 DEF PrepareEntry, PrepareExit
  <2>4. CASE CreateOrder /\ bot'.flow = "placed"
    BY <1>0, <2>4, PlaceMoves, NoGoal
  <2>5. CASE RecordOrder /\ SameLoop /\ SameErrand
    BY <1>0, <2>5, PlaceMoves, GoalStays DEF SameLoop, SameErrand
  <2>6. CASE bot' = Resume(bot) /\ bot.sake \in {"replace", "emergency"}
    <3>1. bot'.pc = "loop" /\ bot'.flow = bot.back.flow
      BY <1>0, <2>6, HelperFields
    <3>2. bot'.flow # "similar"
      BY <1>0, <2>6, <3>1 DEF Course
    <3> QED
      BY <3>1, <3>2, NoGoal
  <2> QED
    BY <1>0, <1>1, <1>5, <2>1, <2>3, <2>4, <2>5, <2>6, PlaceFields
<1>6. CASE LoopStep
  <2>1. CASE bot' = [Idle("exit") EXCEPT !.pc = "decide"]
    <3>1. bot'.pc = "decide" /\ bot'.flow = "none"
      BY <2>1, RestFields DEF BotFields
    <3> QED
      BY <3>1, NoGoal
  <2>2. CASE LoopEnd /\ SameLoop /\ SameErrand /\ ~Rests
    <3>1. bot.flow = "similar"
      <4>1. bot.pc = "loop" /\ bot.flow \notin {"recover", "forceexit"} /\ bot.flow \in LoopFlows
        BY <1>0, <2>2 DEF LoopEnd, Course
      <4>2. bot.flow \notin {"manage", "startup", "stop", "cancel_open_order"}
        BY <2>2 DEF LoopEnd, Rests
      <4> QED
        BY <4>1, <4>2 DEF LoopFlows, CancelFlows
    <3> QED
      BY <2>2, <3>1, GoalSet DEF Goals, SameErrand
  <2>3. CASE ForceExitEnd /\ bot.goal = "exit" /\ bot'.goal = bot.goal
    BY <2>3, GoalSet
  <2>4. CASE LoopFetch \/ AssumeCanceled \/ RecoverNext
    <3>1. bot'.pc \in {"cancel", "update_order"} /\ bot'.flow = bot.flow /\ bot'.goal = bot.goal
      BY <1>0, <2>4 DEF LoopFetch, AssumeCanceled, RecoverNext, BotFields
    <3> QED
      BY <3>1, GoalStays
  <2>5. CASE bot'.pc = "loop" /\ bot'.flow = bot.flow /\ SameErrand
    BY <2>5, GoalStays DEF SameErrand
  <2> QED
    BY <1>0, <1>1, <1>6, <2>1, <2>2, <2>3, <2>4, <2>5, LoopFields
<1>7. CASE PhaseStep
  <2>0. bot.flow = "none"
    <3>1. bot = Idle(bot.phase) \/ bot = [Idle("exit") EXCEPT !.pc = "decide"]
      BY <1>0, <1>7, PhaseMoves DEF Rested
    <3>2. Idle("exit").flow = "none" /\ DOMAIN Idle("exit") = BotFields /\ Idle(bot.phase).flow = "none"
      BY RestFields
    <3> QED
      BY <3>1, <3>2 DEF BotFields
  <2>1. CASE bot' = Loop(bot, "manage", OpenOrders)
    BY <1>0, <2>1, LoopSets, NoGoal
  <2>2. CASE bot'.pc \in {"update_order", "loop"} /\ bot'.flow \in {"fees", "recover"}
    BY <2>2, NoGoal
  <2>3. CASE bot' = [bot EXCEPT !.pc = "decide"]
    <3>1. bot'.pc = "decide" /\ bot'.flow = "none"
      BY <1>0, <2>0, <2>3 DEF BotFields
    <3> QED
      BY <3>1, NoGoal
  <2>4. CASE bot'.goal \in {"entry", "exit"}
    BY <2>4, GoalSet
  <2> QED
    BY <1>0, <1>1, <1>7, <2>1, <2>2, <2>3, <2>4, PhaseFields
<1>8. CASE RPC
  <2>1. CASE bot' = bot
    BY <2>1, GoalStays
  <2>2. CASE bot' = Loop(bot, "cancel_open_order", OpenOrders)
    BY <1>0, <2>2, LoopSets, NoGoal
  <2>3. CASE bot'.pc = "loop" /\ bot'.flow \in {"forceexit", "recover"}
    BY <2>3, NoGoal
  <2> QED
    BY <1>0, <1>8, <2>1, <2>2, <2>3, CommandFields
<1>9. CASE Lifecycle
  <2>1. CASE bot' = Loop(bot, "stop", OpenOrders)
    BY <1>0, <2>1, LoopSets, NoGoal
  <2>2. CASE bot' = Loop(Idle("fees"), "startup", OpenOrders)
    BY <2>2, LoopSets, RestFields, NoGoal
  <2> QED
    BY <1>0, <1>1, <1>9, <2>1, <2>2, LifecycleFields
<1> QED
  BY <1>2, <1>3, <1>4, <1>5, <1>6, <1>7, <1>8, <1>9 DEF Next, Bot

-----------------------------------------------------------------------------
(* The coins that are free: what each order adds to them or takes of them.      *)

LEMMA SumOfSums ==
    ASSUME NEW S, IsFiniteSet(S), NEW f, NEW g, NEW h,
           \A x \in S : f[x] \in Int /\ g[x] \in Int /\ h[x] = f[x] + g[x]
    PROVE  SumFunctionOnSet(h, S) = SumFunctionOnSet(f, S) + SumFunctionOnSet(g, S)
<1> DEFINE Adds(R) == SumFunctionOnSet(h, R) = SumFunctionOnSet(f, R) + SumFunctionOnSet(g, R)
           Adding == {R \in SUBSET S : Adds(R)}
<1>1. ASSUME NEW R \in SUBSET S, \A x \in R : R \ {x} \in Adding PROVE R \in Adding
  <2>1. CASE R = {}
    BY <2>1, SumOfNothing
  <2>2. CASE R # {}
    <3> DEFINE x == First(R)
               Q == R \ {x}
    <3>1. x \in R /\ x \in S /\ IsFiniteSet(R) /\ IsFiniteSet(Q)
      BY <2>2, FS_Subset, FirstIsMember
    <3>2. /\ SumFunctionOnSet(f, R) = f[x] + SumFunctionOnSet(f, Q)
          /\ SumFunctionOnSet(g, R) = g[x] + SumFunctionOnSet(g, Q)
          /\ SumFunctionOnSet(h, R) = h[x] + SumFunctionOnSet(h, Q)
      BY <2>2, <3>1, SumTakesFirst
    <3>3. SumFunctionOnSet(f, Q) \in Int /\ SumFunctionOnSet(g, Q) \in Int
      BY <3>1, SumIsInteger
    <3>4. SumFunctionOnSet(h, Q) = SumFunctionOnSet(f, Q) + SumFunctionOnSet(g, Q)
      BY <1>1, <3>1
    <3>5. f[x] \in Int /\ g[x] \in Int /\ h[x] = f[x] + g[x]
      BY <3>1
    <3> HIDE DEF x, Q
    <3>6. Adds(R)
      BY <3>2, <3>3, <3>4, <3>5
    <3> QED
      BY <3>6
  <2> QED
    BY <2>1, <2>2
<1>2. SUBSET S \subseteq Adding
  <2> HIDE DEF Adding
  <2> QED
    BY <1>1, BySize
<1> QED
  BY <1>2

LEMMA SumGrows ==
    ASSUME NEW S, IsFiniteSet(S), NEW f, NEW g,
           \A x \in S : f[x] \in Int /\ g[x] \in Int /\ f[x] <= g[x]
    PROVE  SumFunctionOnSet(f, S) <= SumFunctionOnSet(g, S)
<1> DEFINE d == [x \in S |-> g[x] - f[x]]
<1>1. \A x \in S : d[x] \in Nat /\ g[x] = f[x] + d[x]
  OBVIOUS
<1> HIDE DEF d
<1>2. SumFunctionOnSet(g, S) = SumFunctionOnSet(f, S) + SumFunctionOnSet(d, S)
  BY <1>1, SumOfSums
<1>3. SumFunctionOnSet(d, S) \in Nat /\ SumFunctionOnSet(f, S) \in Int
  BY <1>1, SumOfNaturals, SumIsInteger
<1> QED
  BY <1>2, <1>3

\* An entry brings what it filled; an exit takes all of it while it is live, what it filled after.
Coins(e, o) ==
    IF e[o].side = "buy" THEN e[o].filled
    ELSE IF e[o].status = "open" THEN -e[o].amount ELSE -e[o].filled

AllCoins(e) == [o \in Orders |-> Coins(e, o)]
FreeOf(e) == ExtraCoins + SumFunctionOnSet(AllCoins(e), Orders)

LEMMA CoinsAreIntegers ==
    ASSUME NEW e, e \in [Orders -> OrderState]
    PROVE  /\ \A o \in Orders : AllCoins(e)[o] = Coins(e, o) /\ Coins(e, o) \in Int
           /\ FreeOf(e) \in Int
<1>1. \A o \in Orders : AllCoins(e)[o] = Coins(e, o) /\ Coins(e, o) \in Int
  BY DEF AllCoins, Coins, OrderState
<1>2. SumFunctionOnSet(AllCoins(e), Orders) \in Int
  BY <1>1, OrdersFinite, SumIsInteger
<1> QED
  BY <1>1, <1>2, ConstantsAssumption DEF FreeOf

LEMMA FreeNow == ASSUME Typed PROVE FreeCoins = FreeOf(ex)
<1> DEFINE f == Flow(ex)
           R == {o \in Live : ~IsEntry(o)}
           t == [o \in Orders |-> ex[o].amount - ex[o].filled]
           u == [o \in Orders |-> IF o \in R THEN t[o] ELSE 0]
           c == AllCoins(ex)
<1>1. \A o \in Orders : f[o] \in Int /\ t[o] \in Int /\ u[o] \in Int /\ c[o] \in Int
  BY CoinsAreIntegers DEF Typed, OrderState, Flow
<1>2. \A o \in Orders : f[o] = c[o] + u[o]
  BY CoinsAreIntegers DEF Typed, OrderState, Flow, Coins, Live, IsEntry
<1>3. R \in SUBSET Orders /\ \A o \in Orders : t[o] \in Int /\ u[o] = IF o \in R THEN t[o] ELSE 0
  BY <1>1 DEF Live
<1>4. Wallet = ExtraCoins + SumFunctionOnSet(f, Orders) /\ FreeCoins = Wallet - SumFunctionOnSet(t, R)
      /\ FreeOf(ex) = ExtraCoins + SumFunctionOnSet(c, Orders)
  BY DEF Wallet, FreeCoins, FreeOf
<1> HIDE DEF f, R, t, u, c
<1>5. SumFunctionOnSet(t, R) = SumFunctionOnSet(u, Orders)
  <2>1. IsFiniteSet(Orders)
    BY OrdersFinite
  <2>2. R \in SUBSET Orders
    BY <1>3
  <2>3. \A o \in Orders : t[o] \in Int /\ u[o] = IF o \in R THEN t[o] ELSE 0
    BY <1>3
  <2> QED
    BY ONLY <2>1, <2>2, <2>3, SumOfPart
<1>6. SumFunctionOnSet(f, Orders) = SumFunctionOnSet(c, Orders) + SumFunctionOnSet(u, Orders)
  BY <1>1, <1>2, OrdersFinite, SumOfSums
<1>7. SumFunctionOnSet(c, Orders) \in Int /\ SumFunctionOnSet(u, Orders) \in Int
  BY <1>1, OrdersFinite, SumIsInteger
<1> QED
  BY <1>4, <1>5, <1>6, <1>7, ConstantsAssumption

\* An order that is open can still be filled.
ExFits == \A o \in Orders : ex[o].status = "open" => ex[o].filled < ex[o].amount

\* The orders that a step of the bot or the user may cancel.
Cancels ==
    \E S \in SUBSET Live :
      ex' = [o \in Orders |-> IF o \in S THEN [ex[o] EXCEPT !.status = "canceled"] ELSE ex[o]]

LEMMA CancelsOne ==
    ASSUME Typed, NEW o \in Live, ex' = [ex EXCEPT ![o].status = "canceled"]
    PROVE  Cancels
<1>1. ex' = [p \in Orders |-> IF p \in {o} THEN [ex[p] EXCEPT !.status = "canceled"] ELSE ex[p]]
  BY DEF Typed
<1> QED
  BY <1>1 DEF Cancels

LEMMA ExchangeMoves ==
    ASSUME Typed, Next
    PROVE  UNCHANGED ex \/ Cancels \/ CreateOrder \/ \E o \in Orders : Fill(o)
<1>1. CASE Exchange
  BY <1>1, CancelsOne DEF Exchange, CanceledOnExchange
<1>2. CASE UpdateStep
  BY <1>2 DEF UpdateStep, UpdateOrder, UpdateTradeRow, Updated
<1>3. CASE CancelStep
  <2>1. CASE RequestCancel
    BY <2>1, CancelsOne DEF RequestCancel
  <2> QED
    BY <1>3, <2>1 DEF CancelStep, CancelKeep, CancelOnExchange, CancelRaises, CancelKnown,
                      CancelEnterResult, CancelExitResult, Canceled
<1>4. CASE PlaceStep
  BY <1>4 DEF PlaceStep, PrepareEntry, PrepareExit, CreateRejected, RecordOrder, Placed
<1>5. CASE LoopStep
  BY <1>5 DEF LoopStep, LoopFetch, LoopFetchFails, AssumeCanceled, RecoverNext, RecoverEnd, LoopEnd,
              ForceExitEnd
<1>6. CASE PhaseStep
  BY <1>6 DEF PhaseStep, FeesPhase, ManagePhase, ExitPhase, DecideExit, AdjustPhase, EnterPhase, Skip
<1>7. CASE RPC
  <2>1. CASE DeleteTrade
    BY <2>1 DEF DeleteTrade, Cancels
  <2> QED
    BY <1>7, <2>1 DEF RPC, ForceExit, CancelOpenOrder, ReloadTrade
<1>8. CASE Lifecycle
  BY <1>8 DEF Lifecycle, Stop, StoppedCancelAll, Startup, Crash
<1> QED
  BY <1>1, <1>2, <1>3, <1>4, <1>5, <1>6, <1>7, <1>8 DEF Next, Bot

LEMMA CoinsGrow ==
    ASSUME Typed, Typed', ExFits, UNCHANGED ex \/ Cancels \/ \E o \in Orders : Fill(o)
    PROVE  ExFits' /\ \A o \in Orders : Coins(ex, o) <= Coins(ex', o)
<1>0. \A o \in Orders : ex[o] \in OrderState
  BY DEF Typed
<1> USE DEF Coins, ExFits
<1>1. CASE UNCHANGED ex
  BY <1>0, <1>1 DEF OrderState
<1>2. CASE Cancels
  <2>1. PICK S \in SUBSET Live :
          ex' = [o \in Orders |-> IF o \in S THEN [ex[o] EXCEPT !.status = "canceled"] ELSE ex[o]]
    BY <1>2 DEF Cancels
  <2>2. \A o \in Orders : \/ ex'[o] = ex[o]
                          \/ /\ ex[o].status = "open" /\ ex'[o].status = "canceled"
                             /\ ex'[o].side = ex[o].side /\ ex'[o].filled = ex[o].filled
    BY <1>0, <2>1 DEF Live, OrderState
  <2> QED
    BY <1>0, <2>2 DEF OrderState
<1>3. ASSUME NEW p \in Orders, Fill(p) PROVE ExFits' /\ \A o \in Orders : Coins(ex, o) <= Coins(ex', o)
  <2>1. /\ ex[p].status = "open" /\ \A o \in Orders \ {p} : ex'[o] = ex[o]
        /\ ex'[p].side = ex[p].side /\ ex'[p].amount = ex[p].amount /\ ex'[p].filled = ex[p].filled + 1
        /\ ex'[p].status = IF ex[p].filled + 1 = ex[p].amount THEN "closed" ELSE "open"
    BY <1>0, <1>3 DEF Fill, Live, Typed, OrderState
  <2>2. ex'[p].status = "open" => ex'[p].filled < ex'[p].amount
    BY <1>0, <2>1 DEF OrderState
  <2>3. Coins(ex, p) <= Coins(ex', p)
    BY <1>0, <2>1 DEF OrderState
  <2> QED
    BY <1>0, <2>1, <2>2, <2>3 DEF OrderState
<1> QED
  BY <1>1, <1>2, <1>3

\* No exit promises coins that are not there.
Covered == ExFits /\ FreeOf(ex) >= 0

LEMMA NextCovered ==
    ASSUME Typed, Typed', Fills, Goals, Covered, Next
    PROVE  Covered'
<1>0. Typed /\ Typed' /\ IsFiniteSet(Orders) /\ ExtraCoins \in Nat
  BY OrdersFinite, ConstantsAssumption
<1>1. FreeOf(ex) \in Int /\ FreeOf(ex') \in Int
  BY CoinsAreIntegers DEF Typed
<1>2. \A o \in Orders : AllCoins(ex)[o] = Coins(ex, o) /\ AllCoins(ex')[o] = Coins(ex', o)
                        /\ Coins(ex, o) \in Int /\ Coins(ex', o) \in Int
  BY CoinsAreIntegers DEF Typed
<1>3. SumFunctionOnSet(AllCoins(ex), Orders) \in Int /\ SumFunctionOnSet(AllCoins(ex'), Orders) \in Int
  BY <1>0, <1>2, SumIsInteger
<1>4. CASE ~CreateOrder
  <2>1. ExFits' /\ \A o \in Orders : Coins(ex, o) <= Coins(ex', o)
    BY <1>4, ExchangeMoves, CoinsGrow DEF Covered
  <2>2. SumFunctionOnSet(AllCoins(ex), Orders) <= SumFunctionOnSet(AllCoins(ex'), Orders)
    BY <1>0, <1>2, <2>1, SumGrows
  <2> QED
    BY <1>0, <1>1, <1>3, <2>1, <2>2 DEF Covered, FreeOf
<1>5. CASE CreateOrder
  <2>1. PICK n \in Orders, filled \in {0, bot.amt} :
          /\ ex[n].status = "none"
          /\ ex' = [ex EXCEPT ![n] =
                     [side   |-> IF bot.goal = "entry" THEN "buy" ELSE "sell",
                      amount |-> bot.amt, filled |-> filled,
                      status |-> IF filled = 0 THEN "open" ELSE "closed"]]
    BY <1>5 DEF CreateOrder
  <2>2. /\ bot.amt \in Nat \ {0} /\ bot.goal \in {"entry", "exit"}
        /\ bot.goal = "exit" => bot.amt <= FreeOf(ex)
    BY <1>5, FreeNow DEF CreateOrder, Goals
  <2>3. /\ \A o \in Orders \ {n} : ex'[o] = ex[o]
        /\ ex'[n] = [side   |-> IF bot.goal = "entry" THEN "buy" ELSE "sell",
                     amount |-> bot.amt, filled |-> filled,
                     status |-> IF filled = 0 THEN "open" ELSE "closed"]
    BY <2>1 DEF Typed
  <2>4. ExFits'
    BY <2>2, <2>3 DEF ExFits, Covered
  <2>5. Coins(ex, n) = 0
    BY <2>1 DEF Coins, Fills, ExchangeTyped
  <2>6. bot.goal = "exit" => Coins(ex', n) = -bot.amt
    BY <2>2, <2>3 DEF Coins
  <2>7. bot.goal = "entry" => Coins(ex', n) \in Nat
    BY <2>2, <2>3 DEF Coins
  <2>8. \A o \in Orders \ {n} : AllCoins(ex)[o] = AllCoins(ex')[o]
    BY <1>2, <2>3 DEF Coins
  <2>9. SumFunctionOnSet(AllCoins(ex'), Orders)
          = SumFunctionOnSet(AllCoins(ex), Orders) - AllCoins(ex)[n] + AllCoins(ex')[n]
    BY <1>0, <1>2, <2>8, SumChangesOne
  <2>10. FreeOf(ex') = FreeOf(ex) + Coins(ex', n)
    BY <1>0, <1>2, <1>3, <2>5, <2>9 DEF FreeOf
  <2> QED
    BY <1>1, <2>2, <2>4, <2>6, <2>7, <2>10 DEF Covered
<1> QED
  BY <1>4, <1>5

-----------------------------------------------------------------------------
\* When no order is open, the coins on the account are the sum of the fills.
LEMMA AllSettled ==
    ASSUME Steady, Accounted, trade.st # "deleted", OpenOrders = {}, bot.pc # "record"
    PROVE  /\ FreeOf(ex) = ExtraCoins + NetAmount(db) /\ Wallet = ExtraCoins + NetAmount(db)
           /\ NetAmount(db) \in Int
<1>0. Typed /\ FinalOrdersAgree /\ RecordsKnown /\ IsFiniteSet(Orders)
  BY SteadyParts, OrdersFinite DEF Agreement
<1>1. \A o \in Orders : ex[o].status # "none" => IsFinal(db[o])
  BY DEF Accounted, Unfinal, OpenOrders
<1>2. \A o \in Orders : ex[o].status = "none" => ex[o].filled = 0 /\ ~IsFinal(db[o])
  BY <1>0, SteadyParts DEF Fills, ExchangeTyped, RecordsKnown, IsFinal
<1>3. \A o \in Orders : IsFinal(db[o]) => ex[o].status = db[o].status /\ ex[o].filled = db[o].filled
  BY <1>0, FinalIsKnown
<1>4. \A o \in Orders : ex[o].status # "open"
  BY <1>1, <1>3 DEF IsFinal
<1>5. \A o \in Orders : Shares(ex, db)[o] = Flow(ex)[o] /\ AllCoins(ex)[o] = Flow(ex)[o]
  BY <1>0, <1>1, <1>2, <1>3, <1>4
     DEF Shares, Share, Flow, AllCoins, Coins, IsEntry, Typed, OrderState
<1>6. /\ SumFunctionOnSet(Shares(ex, db), Orders) = SumFunctionOnSet(Flow(ex), Orders)
      /\ SumFunctionOnSet(AllCoins(ex), Orders) = SumFunctionOnSet(Flow(ex), Orders)
  BY <1>0, <1>5, SumSame
<1>7. NetAmount(db) = SumFunctionOnSet(Flow(ex), Orders) /\ NetAmount(db) \in Int
  BY <1>0, <1>6, NetNow DEF Total
<1> QED
  BY <1>6, <1>7 DEF FreeOf, Wallet

\* Between the two commits nothing of the trade is open.
MidAll == Mid /\ ~Recalculating => OpenOrders = {}

LEMMA MidIsAlone == ASSUME Steady, Accounts PROVE MidAll
<1> SUFFICES ASSUME Mid, ~Recalculating
             PROVE  OpenOrders = {}
  BY DEF MidAll
<1>0. Origin /\ Course(bot)
  BY SteadyParts
<1>1. bot.pc \in Updating
  BY DEF Mid, Updating
<1>2. CASE bot.flow = "placed"
  BY <1>1, <1>2 DEF Accounts, PlacedAll
<1>3. CASE bot.flow # "placed"
  <2>1. InCharge
    BY <1>0, <1>1, <1>3 DEF Origin, Recalculating, InCharge
  <2>2. IsFinal(db[bot.ord])
    BY <1>3 DEF Mid
  <2> QED
    BY <2>1, <2>2 DEF Accounts, Handled, HandledOpen, OpenOrders, IsFinal
<1> QED
  BY <1>2, <1>3

\* The amount that an exit is compared with is what there was before it.
MidLedger ==
    /\ Mid /\ ~IsEntry(bot.ord) /\ ~Recalculating /\ trade.st = "open"
    /\ NetAmount(db) + db[bot.ord].filled > 0
    => trade.amount = NetAmount(db) + db[bot.ord].filled

\* An order that is about to be recorded serves the goal of the bot.
Errand == bot.pc = "record" => (IsEntry(bot.ord) <=> bot.goal = "entry")

LEMMA NextErrand ==
    ASSUME Steady, Errand, Next
    PROVE  Errand'
<1>0. DOMAIN bot = BotFields /\ Typed /\ bot.ord \in Orders
  BY SteadyParts DEF Typed, BotTyped
<1> SUFFICES ASSUME bot'.pc = "record"
             PROVE  ex'[bot'.ord].side = "buy" <=> bot'.goal = "entry"
  BY DEF Errand, IsEntry
<1>1. CASE Exchange
  <2>1. UNCHANGED bot /\ bot.pc = "record"
    BY <1>1, ExchangeStays
  <2>2. ex[bot.ord].status # "none"
    BY <2>1, SteadyParts DEF HandKnown, InHand
  <2>3. ex'[bot.ord].side = ex[bot.ord].side
    BY <1>0, <1>1, <2>2, SideStays
  <2> QED
    BY <2>1, <2>3 DEF Errand, IsEntry
<1>2. CASE CreateOrder
  <2>1. PICK n \in Orders, filled \in {0, bot.amt} :
           /\ ex' = [ex EXCEPT ![n] =
                       [side   |-> IF bot.goal = "entry" THEN "buy" ELSE "sell",
                        amount |-> bot.amt, filled |-> filled,
                        status |-> IF filled = 0 THEN "open" ELSE "closed"]]
           /\ bot' = [bot EXCEPT !.pc = "record", !.flow = "placed",
                                 !.ord = n, !.seen[n] = ViewIn(ex', n)]
    BY <1>2 DEF CreateOrder
  <2>2. bot'.ord = n /\ bot'.goal = bot.goal
    BY <1>0, <2>1 DEF BotFields
  <2>3. ex'[n].side = IF bot.goal = "entry" THEN "buy" ELSE "sell"
    BY <1>0, <2>1 DEF Typed
  <2> QED
    BY <2>2, <2>3
<1> QED
  BY <1>0, <1>1, <1>2, RecordingBegins

LEMMA NextTorn == ASSUME ~torn, ~Crash, Next PROVE ~torn'
BY Writers DEF UpdateOrder, UpdateTradeRow, RecordOrder

LEMMA NextMidLedger ==
    ASSUME Steady, Typed', Accounts, Errand, MidLedger, ~torn, ~OrdersLost, ~Crash, Next
    PROVE  MidLedger'
<1>0. /\ DOMAIN bot = BotFields /\ Course(bot) /\ Course(bot') /\ Typed /\ Agreement /\ Fills
      /\ SeenFinal /\ Balanced /\ PlacedFills
  BY SteadyParts, NextPlaces DEF Places
<1> SUFFICES ASSUME Mid', ex'[bot'.ord].side # "buy", bot'.flow \notin {"fees", "recover"},
                    trade'.st = "open", NetAmount(db)' + db'[bot'.ord].filled > 0
             PROVE  trade'.amount = NetAmount(db)' + db'[bot'.ord].filled
  BY DEF MidLedger, Recalculating, IsEntry
<1>1. \/ bot'.pc = "update_trade" /\ IsFinal(db'[bot'.ord])
      \/ bot'.pc = "update_order" /\ bot'.flow = "placed"
  BY DEF Mid
<1>2. CASE Exchange
  <2>1. UNCHANGED <<db, trade, bot>>
    BY <1>2, ExchangeStays
  <2>2. ex[bot.ord].status # "none" /\ bot.ord \in Orders
    <3>1. bot.pc \in InHand
      BY <1>1, <2>1 DEF InHand, Updating
    <3> QED
      BY <1>0, <3>1, SteadyParts DEF HandKnown, Typed, BotTyped
  <2>3. ex'[bot.ord].side = ex[bot.ord].side
    BY <2>2, SideStays
  <2>4. NetAmount(db)' = NetAmount(db)
    BY <1>0, <2>1, NetStays
  <2>5. Mid /\ ~IsEntry(bot.ord) /\ ~Recalculating
    BY <1>1, <2>1, <2>3 DEF Mid, IsEntry, Recalculating
  <2> QED
    BY <2>1, <2>4, <2>5 DEF MidLedger
<1>3. CASE UpdateOrder
  <2> DEFINE o == bot.ord
             v == bot.seen[o]
  <2>1. /\ bot.pc = "update_order" /\ bot'.ord = o /\ bot'.flow = bot.flow /\ UNCHANGED <<ex, trade>>
        /\ o \in Orders /\ db'[o] = v /\ v \in OrderRecord
    BY <1>0, <1>3, WrittenExists, SteadyParts DEF UpdateOrder, BotFields, Typed, BotTyped
  <2>2. bot'.pc # "update_order" /\ IsFinal(v) /\ ~CanceledEmpty(v)
    <3>1. bot'.pc # "update_order"
      BY <1>0, <1>3, UpdateMoves
    <3>2. CASE CanceledEmpty(v)
      BY <1>0, <1>1, <1>3, <3>2 DEF UpdateOrder, BotFields
    <3> QED
      BY <1>1, <2>1, <3>1, <3>2
  <2>3. CASE bot.flow = "placed"
    <3>1. UNCHANGED db /\ Mid
      BY <1>0, <1>3, <2>1, <2>3 DEF PlacedFills, UpdateOrder, Typed, Mid
    <3>2. NetAmount(db)' = NetAmount(db)
      BY <1>0, <3>1, NetStays
    <3>3. ~IsEntry(o) /\ ~Recalculating
      BY <2>1, <2>3 DEF IsEntry, Recalculating
    <3> QED
      BY <2>1, <3>1, <3>2, <3>3 DEF MidLedger
  <2>4. CASE bot.flow # "placed"
    <3>1. InCharge
      BY <2>1, <2>4, SteadyParts DEF Origin, InCharge, Updating
    <3>2. ~IsFinal(db[o])
      BY <2>1, <2>2, <3>1 DEF Accounts, Handled, HandledFinal
    <3>3. Share(ex, db, o) = 0 /\ Share(ex, db', o) = -v.filled
      BY <2>1, <2>2, <3>2 DEF Share
    <3>4. NetAmount(db)' = NetAmount(db) - Share(ex, db, o) + Share(ex, db', o) /\ NetAmount(db) \in Int
      BY <1>0, <1>3, NetWritten, NetNow
    <3>5. v.filled \in Nat
      BY <2>1 DEF OrderRecord
    <3>6. NetAmount(db)' + v.filled = NetAmount(db)
      BY <3>3, <3>4, <3>5
    <3>7. ~Mid
      BY <2>1, <2>4 DEF Mid
    <3> QED
      BY <1>0, <2>1, <3>6, <3>7 DEF Balanced
  <2> QED
    BY <2>3, <2>4
<1>4. CASE RecordOrder
  <2> DEFINE o == bot.ord
             v == bot.seen[o]
  <2>1. bot.pc = "record" /\ bot'.ord = o /\ UNCHANGED ex /\ o \in Orders /\ db'[o] = v /\ v \in OrderRecord
    BY <1>0, <1>4, WrittenExists, SteadyParts, PlaceFields DEF RecordOrder, SameHand, Typed, BotTyped
  <2>2. IsFinal(v)
    <3>1. CASE ~IsFinal(v)
      BY <1>0, <1>1, <1>4, <3>1 DEF RecordOrder, BotFields
    <3> QED
      BY <3>1
  <2>3. bot.goal # "entry" /\ UNCHANGED trade
    <3>1. ~IsEntry(o)
      BY <2>1 DEF IsEntry
    <3> QED
      BY <1>4, <2>1, <3>1 DEF RecordOrder, Errand
  <2>4. ~IsFinal(db[o]) /\ ~Mid
    BY <2>1 DEF Accounts, Unrecorded, IsFinal, Mid
  <2>5. Share(ex, db, o) = 0 /\ Share(ex, db', o) = -v.filled
    BY <2>1, <2>2, <2>4 DEF Share
  <2>6. NetAmount(db)' = NetAmount(db) - Share(ex, db, o) + Share(ex, db', o) /\ NetAmount(db) \in Int
    BY <1>0, <1>4, NetWritten, NetNow
  <2>7. v.filled \in Nat
    BY <2>1 DEF OrderRecord
  <2>8. NetAmount(db)' + v.filled = NetAmount(db)
    BY <2>5, <2>6, <2>7
  <2> QED
    BY <1>0, <2>1, <2>3, <2>4, <2>8 DEF Balanced
<1>5. CASE UpdateTradeRow
  BY <1>0, <1>1, <1>5, UpdateMoves
<1>6. CASE RecoverNext
  BY <1>0, <1>6 DEF RecoverNext, BotFields
<1>7. CASE bot'.pc = "update_order" /\ (bot'.inCancel \/ bot'.flow \in UpdatingFlows)
  BY <1>0, <1>1, <1>7 DEF Course, CancelFlows, UpdatingFlows
<1> QED
  BY <1>1, <1>2, <1>3, <1>4, <1>5, <1>6, <1>7, UpdatingBegins, SteadyParts DEF Updating

-----------------------------------------------------------------------------
\* Nothing is left of a trade that is closed or looked up for lost orders.
Flat ==
    /\ bot.flow = "recover" => NetAmount(db) = 0
    /\ trade.st = "closed" =>
         NetAmount(db) = 0 /\ OpenOrders = {} /\ (bot.pc = "record" => bot.goal = "entry")

Exact == Steady /\ Accounts /\ Goals /\ Covered /\ Errand /\ MidLedger /\ Flat /\ ~torn

LEMMA NothingOpenStays ==
    ASSUME Steady, Typed', Accounts, OpenOrders = {}, ~Delete, ~RecordOrder, Next
    PROVE  UNCHANGED db /\ OpenOrders' = {} /\ NetAmount(db)' = NetAmount(db)
<1>1. UNCHANGED db
  <2>1. CASE UpdateOrder
    <3>1. bot.ord \in Orders
      BY SteadyParts DEF Typed, BotTyped
    <3> QED
      BY <2>1, <3>1, UpdateShrinks, SteadyParts DEF Accounts, OpenOrders
  <2> QED
    BY <2>1, RecordsStay
<1>2. NetAmount(db)' = NetAmount(db)
  BY <1>1, NetStays, SteadyParts
<1> QED
  BY <1>1, <1>2 DEF OpenOrders

\* handle_onexchange_order is called by exit_positions when there is nothing to exit.
LEMMA NextRecoverFlat ==
    ASSUME Exact, Typed', ExtraCoins = 0, "reload_trade" \notin Commands, Next, bot'.flow = "recover"
    PROVE  NetAmount(db)' = 0
<1>0. Steady /\ Accounts /\ DOMAIN bot = BotFields
  BY SteadyParts DEF Exact
<1>1. CASE bot.flow = "recover"
  <2>1. OpenOrders = {} /\ NetAmount(db) = 0
    BY <1>0, <1>1 DEF Accounts, RecoverAll, Exact, Flat
  <2>2. ~RecordOrder
    BY <1>0, <1>1, SteadyParts DEF RecordOrder, Fills, Control, RecoverPlaces
  <2>3. ~Delete
    <3>1. trade'.st = "deleted" => bot'.pc # "loop" /\ bot'.pc \notin Updating
      <4>1. Places'
        BY <1>0, NextPlaces, SteadyParts
      <4>2. Control(bot')
        BY <1>0, NextFills, SteadyParts DEF Fills
      <4> QED
        BY <4>1, <4>2 DEF Places, Ends, Resting, Canceling, CancelFlows, Updating
    <3>2. bot'.pc \in RecoverPlaces
      BY <1>0, NextFills, SteadyParts DEF Fills, Control
    <3> QED
      BY <3>1, <3>2 DEF Delete, NoTrade, RecoverPlaces, Updating
  <2> QED
    BY <1>0, <2>1, <2>2, <2>3, NothingOpenStays
<1>2. CASE ExitPhase /\ trade.st = "open" /\ OpenOrders = {} /\ Wallet < trade.amount
           /\ UNCHANGED <<ex, db, trade>>
  <2>1. bot.pc = "idle"
    BY <1>2 DEF ExitPhase, Enter
  <2>2. FreeOf(ex) = NetAmount(db) /\ Wallet = NetAmount(db) /\ NetAmount(db) \in Int
    <3>1. FreeOf(ex) = 0 + NetAmount(db) /\ Wallet = 0 + NetAmount(db) /\ NetAmount(db) \in Int
      BY <1>0, <1>2, <2>1, AllSettled DEF Accounts
    <3> QED
      BY <3>1
  <2>3. NetAmount(db) >= 0
    BY <2>2 DEF Exact, Covered
  <2>4. NetAmount(db) > 0 => trade.amount = NetAmount(db)
    BY <1>0, <1>2, <2>1, SteadyParts DEF Balanced, Mid, Exact
  <2>5. NetAmount(db) = 0
    BY <1>2, <2>2, <2>3, <2>4
  <2>6. NetAmount(db)' = NetAmount(db)
    BY <1>0, <1>2, NetStays, SteadyParts
  <2> QED
    BY <2>5, <2>6
<1> QED
  BY <1>0, <1>1, <1>2, RecoverBegins, SteadyParts DEF ReloadTrade, Command

\* Only update_trade closes a trade, for a final exit that fills its amount.
LEMMA Closes ==
    ASSUME Typed, Places, Next, trade.st # "closed", trade'.st = "closed"
    PROVE  /\ UpdateTradeRow /\ IsFinal(db[bot.ord]) /\ ~IsEntry(bot.ord) /\ trade.st = "open"
           /\ \/ db[bot.ord].filled = trade.amount
              \/ ~Recalculating /\ db[bot.ord].filled > trade.amount
<1>1. CASE UpdateTradeRow
  <2> DEFINE o == bot.ord
             t == UpdateTrade(trade, db, o, Recalculating)
  <2>1. IsFinal(db[o])
    BY <1>1 DEF UpdateTradeRow
  <2>2. t.st \in {trade.st, "closed"} /\ DOMAIN t = {"st", "amount", "fee"}
    BY TradeUpdates DEF Places
  <2>3. trade.st = "open"
    BY <1>1, AliveAt DEF UpdateTradeRow, Alive, Updating, Typed, TradeRow
  <2>4. trade' = t \/ (IsEntry(o) /\ \E fee : trade' = [t EXCEPT !.fee = fee])
    BY <1>1, <2>1 DEF UpdateTradeRow, IsEntry
  <2>5. trade'.st = t.st
    <3> HIDE DEF t
    <3> QED
      BY <2>2, <2>4
  <2>6. t.st = "closed"
    BY <2>5
  <2>7. CASE IsEntry(o)
    <3>1. t = Recalc([trade EXCEPT !.amount = db[o].filled], db)
      BY <2>7 DEF UpdateTrade, IsEntry
    <3>2. [trade EXCEPT !.amount = db[o].filled].st = "open"
          /\ DOMAIN [trade EXCEPT !.amount = db[o].filled] = {"st", "amount", "fee"}
      BY <2>3 DEF Places
    <3>3. t.st = "open"
      BY <3>1, <3>2, TradeUpdates
    <3> QED
      BY <2>6, <3>3
  <2>8. CASE ~IsEntry(o) /\ ~(db[o].filled = trade.amount)
             /\ ~(~Recalculating /\ db[o].filled > trade.amount)
    <3>1. t = Recalc(trade, db)
      BY <2>8 DEF UpdateTrade, IsEntry
    <3>2. t.st = "open"
      BY <2>3, <3>1, TradeUpdates DEF Places
    <3> QED
      BY <2>6, <3>2
  <2> QED
    BY <1>1, <2>1, <2>3, <2>7, <2>8
<1>2. CASE RecordOrder
  <2>1. CASE bot.goal = "entry"
    <3> DEFINE t == [trade EXCEPT !.st = "open"]
    <3>1. DOMAIN t = {"st", "amount", "fee"} /\ t.st = "open"
      BY DEF Places
    <3>2. trade' = Recalc(t, db')
      BY <1>2, <2>1 DEF RecordOrder
    <3>3. trade'.st = "open"
      <4> HIDE DEF t
      <4> QED
        BY <3>1, <3>2, TradeUpdates
    <3> QED
      BY <3>3
  <2> QED
    BY <1>2, <2>1 DEF RecordOrder
<1>3. CASE UpdateOrder
  BY <1>3 DEF UpdateOrder
<1>4. CASE Delete
  BY <1>4 DEF Delete, NoTrade
<1> QED
  BY <1>1, <1>2, <1>3, <1>4, Writers

LEMMA ClosesFlat ==
    ASSUME Exact, Typed', ExtraCoins = 0, Next, trade.st # "closed", trade'.st = "closed"
    PROVE  NetAmount(db)' = 0 /\ OpenOrders' = {} /\ bot'.pc # "record"
<1> DEFINE o == bot.ord
           f == db[o].filled
           n == NetAmount(db)
<1>0. Steady /\ Accounts /\ DOMAIN bot = BotFields /\ Typed /\ Places /\ MidLedger /\ Flat /\ Covered
  BY SteadyParts DEF Exact
<1>1. /\ UpdateTradeRow /\ IsFinal(db[o]) /\ ~IsEntry(o) /\ trade.st = "open"
      /\ f = trade.amount \/ (~Recalculating /\ f > trade.amount)
  BY <1>0, Closes
<1>2. bot.pc = "update_trade" /\ bot'.pc = "updated" /\ UNCHANGED db
  BY <1>0, <1>1, UpdateMoves DEF UpdateTradeRow
<1>3. n = 0 /\ OpenOrders = {}
  <2>1. CASE bot.flow = "recover"
    BY <1>0, <2>1 DEF Flat, Accounts, RecoverAll
  <2>2. CASE bot.flow = "fees"
    BY <1>0, <1>1, <1>2, <2>2 DEF Accounts, FeesHandled, Updating
  <2>3. CASE ~Recalculating
    <3>1. OpenOrders = {} /\ Mid
      BY <1>0, <1>1, <1>2, <2>3, MidIsAlone DEF MidAll, Mid
    <3>2. FreeOf(ex) = 0 + n /\ n \in Int
      BY <1>0, <1>1, <1>2, <3>1, AllSettled DEF Accounts
    <3>3. n >= 0
      BY <1>0, <3>2 DEF Covered
    <3>4. n + f > 0 => trade.amount = n + f
      BY <1>0, <1>1, <2>3, <3>1 DEF MidLedger
    <3>5. f \in Nat /\ f >= trade.amount /\ trade.amount \in Nat
      <4>1. f \in Nat /\ trade.amount \in Nat
        BY <1>0 DEF Typed, BotTyped, OrderRecord, TradeRow
      <4> QED
        BY <1>1, <4>1
    <3> HIDE DEF n, f
    <3>6. n = 0
      BY <3>2, <3>3, <3>4, <3>5
    <3> QED
      BY <3>1, <3>6
  <2> QED
    BY <2>1, <2>2, <2>3 DEF Recalculating
<1>4. NetAmount(db)' = n
  BY <1>0, <1>2, NetStays, SteadyParts
<1> QED
  BY <1>2, <1>3, <1>4 DEF OpenOrders

\* Nothing is sold of a trade that is closed: there is nothing to sell.
LEMMA StaysFlat ==
    ASSUME Exact, Typed', ExtraCoins = 0, Next, trade.st = "closed", trade'.st = "closed"
    PROVE  NetAmount(db)' = 0 /\ OpenOrders' = {} /\ (bot'.pc = "record" => bot'.goal = "entry")
<1>0. /\ Steady /\ Accounts /\ DOMAIN bot = BotFields /\ Typed /\ Places /\ Goals /\ Covered
      /\ NetAmount(db) = 0 /\ OpenOrders = {} /\ (bot.pc = "record" => bot.goal = "entry")
  BY SteadyParts DEF Exact, Flat
<1>1. ~Delete
  BY DEF Delete, NoTrade
<1>2. ~RecordOrder
  <2>1. ASSUME RecordOrder PROVE FALSE
    <3> DEFINE t == [trade EXCEPT !.st = "open"]
    <3>1. DOMAIN t = {"st", "amount", "fee"} /\ t.st = "open"
      BY <1>0 DEF Places
    <3>2. trade' = Recalc(t, db')
      BY <1>0, <2>1 DEF RecordOrder
    <3> HIDE DEF t
    <3> QED
      BY <3>1, <3>2, TradeUpdates
  <2> QED
    BY <2>1
<1>3. NetAmount(db)' = 0 /\ OpenOrders' = {}
  BY <1>0, <1>1, <1>2, NothingOpenStays
<1>4. CASE bot'.pc = "record" /\ Exchange
  BY <1>0, <1>3, <1>4, ExchangeStays
<1>5. CASE CreateOrder
  <2>1. bot.pc = "create" /\ bot.amt \in Nat \ {0} /\ (bot.goal = "exit" => bot.amt <= FreeOf(ex))
    BY <1>0, <1>5, FreeNow DEF CreateOrder
  <2>2. FreeOf(ex) = 0
    <3>1. FreeOf(ex) = 0 + NetAmount(db)
      BY <1>0, <2>1, AllSettled DEF Accounts
    <3> QED
      BY <1>0, <3>1
  <2>3. bot.goal = "entry"
    BY <1>0, <2>1, <2>2 DEF Goals
  <2>4. bot'.goal = bot.goal
    BY <1>0, <1>5 DEF CreateOrder, BotFields
  <2> QED
    BY <1>3, <2>3, <2>4
<1> QED
  BY <1>0, <1>3, <1>4, <1>5, RecordingBegins

LEMMA NextExact ==
    ASSUME Exact, ~OrdersLost, ExtraCoins = 0, "reload_trade" \notin Commands, ~Crash, [Next]_vars
    PROVE  Exact'
<1>0. Steady /\ Accounts /\ Goals /\ Covered /\ Errand /\ MidLedger /\ Flat /\ ~torn
  BY DEF Exact
<1>1. Steady' /\ Accounts'
  BY <1>0, NextSteady, NextAccounts
<1>2. Typed' /\ Typed /\ Places /\ Rested /\ Fills
  BY <1>0, <1>1, SteadyParts DEF Steady, Purchase, Ledger
<1>3. CASE Next
  <2>1. Goals'
    BY <1>0, <1>2, <1>3, NextGoals
  <2>2. Covered'
    BY <1>0, <1>2, <1>3, NextCovered
  <2>3. Errand'
    BY <1>0, <1>3, NextErrand
  <2>4. MidLedger' /\ ~torn'
    BY <1>0, <1>2, <1>3, NextMidLedger, NextTorn
  <2>5. Flat'
    BY <1>2, <1>3, NextRecoverFlat, ClosesFlat, StaysFlat DEF Flat
  <2> QED
    BY <1>1, <2>1, <2>2, <2>3, <2>4, <2>5 DEF Exact
<1>4. CASE UNCHANGED vars
  <2>1. Goals' /\ Covered' /\ Errand' /\ ~torn'
    BY <1>0, <1>4 DEF vars, Goals, Covered, ExFits, Errand, IsEntry
  <2>2. MidLedger'
    BY <1>0, <1>4 DEF vars, MidLedger, Mid, IsEntry, Recalculating, NetAmount, Flow
  <2>3. Flat'
    BY <1>0, <1>4 DEF vars, Flat, NetAmount, Flow, IsEntry, OpenOrders
  <2> QED
    BY <1>1, <2>1, <2>2, <2>3 DEF Exact
<1> QED
  BY <1>3, <1>4

LEMMA InitExact == Init => Exact
<1> SUFFICES ASSUME Init PROVE Exact
  OBVIOUS
<1>1. Steady /\ Accounts /\ Typed
  BY InitAccounts, SteadyParts
<1>2. /\ bot.pc = "idle" /\ bot.flow = "none" /\ ~torn /\ trade.st = "none"
      /\ \A o \in Orders : ex[o].status = "none" /\ ex[o].filled = 0 /\ ex[o].side = "buy"
  BY RestFields DEF Init, NoTrade
<1>3. Goals /\ Errand /\ MidLedger /\ Flat
  BY <1>2 DEF Goals, Errand, MidLedger, Mid, Flat
<1>4. FreeOf(ex) >= 0
  <2>1. \A o \in Orders : AllCoins(ex)[o] \in Nat
    BY <1>2 DEF AllCoins, Coins
  <2>2. SumFunctionOnSet(AllCoins(ex), Orders) \in Nat
    BY <2>1, OrdersFinite, SumOfNaturals
  <2> QED
    BY <2>2, ConstantsAssumption DEF FreeOf
<1> QED
  BY <1>1, <1>2, <1>3, <1>4 DEF Exact, Covered, ExFits

\* A trade that is closed has sold all it bought, for any number of entries, partial exits and
\* cancellations (update_trade closes it by the amount of one exit, not by the sum): as long as
\* the process is not killed, the account holds no other coins and no trade is reloaded.
THEOREM ClosedAlwaysFlat ==
    ASSUME ~OrdersLost, MaxCrashes = 0, ExtraCoins = 0, "reload_trade" \notin Commands
    PROVE  Spec => []ClosedMeansFlat
<1> DEFINE Inv == Exact /\ crashes = 0
<1>1. Init => Inv
  BY InitExact DEF Init
<1>2. Inv /\ [Next]_vars => Inv'
  <2> SUFFICES ASSUME Inv, [Next]_vars PROVE Inv'
    OBVIOUS
  <2>1. ~Crash /\ crashes' = 0
    BY NoCrashes
  <2> QED
    BY <2>1, NextExact
<1>3. Inv => ClosedMeansFlat
  BY DEF Exact, Flat, ClosedMeansFlat
<1> QED
  BY <1>1, <1>2, <1>3, PTL DEF Spec

-----------------------------------------------------------------------------
(* NoTradeLeftEmpty: without a restart, an open trade has a position, an open   *)
(* order, or a handler at work that will give it one or delete it.              *)

\* update_trade is called for orders that are not cancelled and empty.
Worth == bot.pc = "update_trade" => ~CanceledEmpty(db[bot.ord])

LEMMA NextWorth ==
    ASSUME Steady, Worth, ~OrdersLost, Next
    PROVE  Worth'
<1>0. DOMAIN bot = BotFields /\ Typed
  BY SteadyParts
<1> SUFFICES ASSUME bot'.pc = "update_trade"
             PROVE  ~CanceledEmpty(db'[bot'.ord])
  BY DEF Worth, CanceledEmpty, IsFinal
<1>1. CASE Exchange
  BY <1>1, ExchangeStays DEF Worth
<1>2. CASE UpdateOrder
  <2>1. ~CanceledEmpty(bot.seen[bot.ord])
    BY <1>0, <1>2 DEF UpdateOrder, BotFields
  <2>2. bot'.ord = bot.ord /\ db'[bot.ord] = bot.seen[bot.ord]
    BY <1>0, <1>2, WrittenExists, SteadyParts DEF UpdateOrder, BotFields
  <2> QED
    BY <2>1, <2>2
<1>3. CASE UpdateTradeRow
  BY <1>0, <1>3, UpdateMoves
<1>4. CASE RecordOrder
  BY <1>0, <1>4, PlaceMoves
<1>5. CASE RecoverNext
  BY <1>0, <1>5 DEF RecoverNext, BotFields
<1> QED
  BY <1>1, <1>2, <1>3, <1>4, <1>5, UpdatingBegins, SteadyParts DEF Updating

\* The order whose fee is looked up is final.
FeesFinal == bot.flow = "fees" /\ bot.pc \in Updating => IsFinal(db[bot.ord])

LEMMA NextFeesFinal ==
    ASSUME Steady, Accounted, FeesFinal, ~OrdersLost, Next
    PROVE  FeesFinal'
<1>0. DOMAIN bot = BotFields /\ Course(bot) /\ Course(bot')
  BY SteadyParts, NextPlaces DEF Places
<1> SUFFICES ASSUME bot'.flow = "fees", bot'.pc \in Updating
             PROVE  IsFinal(db'[bot'.ord])
  BY DEF FeesFinal, IsFinal
<1>1. CASE Exchange
  BY <1>1, ExchangeStays DEF FeesFinal
<1>2. CASE UpdateOrder \/ UpdateTradeRow
  <2>1. bot.pc \in Updating
    BY <1>0, <1>2, UpdateMoves DEF Updating
  <2>2. bot'.flow = bot.flow /\ bot'.ord = bot.ord
    BY <1>0, <1>2 DEF UpdateOrder, UpdateTradeRow, BotFields
  <2>3. IsFinal(db[bot.ord])
    BY <2>1, <2>2 DEF FeesFinal
  <2>4. UNCHANGED db
    <3>1. CASE UpdateOrder
      BY <2>3, <3>1, UpdateShrinks, SteadyParts DEF IsFinal
    <3> QED
      BY <1>2, <3>1 DEF UpdateTradeRow
  <2> QED
    BY <2>2, <2>3, <2>4
<1>3. CASE RecordOrder
  BY <1>0, <1>3, PlaceMoves, SteadyParts DEF PlacedFills
<1>4. CASE RecoverNext
  BY <1>0, <1>4 DEF RecoverNext, BotFields
<1>5. CASE bot'.inCancel
  BY <1>0, <1>5 DEF Course, CancelFlows
<1>6. CASE bot'.flow \in UpdatingFlows
  BY <1>6 DEF UpdatingFlows
<1>7. CASE bot'.ord \in FeeOrder /\ UNCHANGED <<ex, db, trade>>
  BY <1>7 DEF FeeOrder, FilledOrders
<1> QED
  BY <1>1, <1>2, <1>3, <1>4, <1>5, <1>6, <1>7, UpdatingBegins, SteadyParts

\* An entry that is final leaves a position.
LEMMA EntryGivesAmount ==
    ASSUME Steady, Typed', Worth, UpdateTradeRow, IsFinal(db[bot.ord]), IsEntry(bot.ord)
    PROVE  trade'.amount > 0
<1> DEFINE o == bot.ord
           t == UpdateTrade(trade, db, o, Recalculating)
           u == [trade EXCEPT !.amount = db[o].filled]
<1>0. Typed /\ Places /\ o \in Orders /\ bot.pc = "update_trade"
  BY SteadyParts DEF Typed, BotTyped, UpdateTradeRow
<1>1. db[o].filled \in Nat /\ db[o].filled > 0
  <2>1. db[o].filled \in Nat /\ db[o].filled # 0
    BY <1>0 DEF Worth, CanceledEmpty, Typed, OrderRecord
  <2> QED
    BY <2>1
<1>2. t = Recalc(u, db) /\ u.amount = db[o].filled /\ DOMAIN u = {"st", "amount", "fee"}
  BY <1>0 DEF UpdateTrade, IsEntry, Places
<1>3. t.amount > 0
  <2> HIDE DEF u
  <2> QED
    BY <1>1, <1>2 DEF Recalc
<1>4. DOMAIN t = {"st", "amount", "fee"}
  BY <1>0, TradeUpdates DEF Places
<1>5. \E found : trade' = [t EXCEPT !.fee = found]
  BY DEF UpdateTradeRow, IsEntry
<1>6. trade'.amount = t.amount
  <2> HIDE DEF t
  <2> QED
    BY <1>4, <1>5
<1> QED
  BY <1>3, <1>6

\* A position is never forgotten.
LEMMA RecalcKeeps ==
    ASSUME NEW t, NEW d, DOMAIN t = {"st", "amount", "fee"}, t.amount > 0
    PROVE  Recalc(t, d).amount > 0
BY DEF Recalc

LEMMA PositionStays ==
    ASSUME Steady, Typed', Worth, Next, trade.amount > 0, trade'.st # "deleted"
    PROVE  trade'.amount > 0
<1>0. Typed /\ Places
  BY SteadyParts
<1>1. CASE UpdateTradeRow
  <2> DEFINE o == bot.ord
             t == UpdateTrade(trade, db, o, Recalculating)
  <2>1. CASE ~IsFinal(db[o])
    BY <1>1, <2>1 DEF UpdateTradeRow
  <2>2. CASE IsFinal(db[o]) /\ IsEntry(o)
    BY <1>1, <2>2, EntryGivesAmount
  <2>3. CASE IsFinal(db[o]) /\ ~IsEntry(o)
    <3>1. trade' = t
      BY <1>1, <2>3 DEF UpdateTradeRow, IsEntry
    <3>2. t = Recalc([trade EXCEPT !.st = "closed"], db) \/ t = Recalc(trade, db)
      BY <2>3 DEF UpdateTrade, IsEntry, Close
    <3>3. [trade EXCEPT !.st = "closed"].amount = trade.amount
          /\ DOMAIN [trade EXCEPT !.st = "closed"] = {"st", "amount", "fee"}
      BY <1>0 DEF Places
    <3> QED
      BY <1>0, <3>1, <3>2, <3>3, RecalcKeeps DEF Places
  <2> QED
    BY <2>1, <2>2, <2>3
<1>2. CASE RecordOrder
  <2> DEFINE t == [trade EXCEPT !.st = "open"]
  <2>1. DOMAIN t = {"st", "amount", "fee"} /\ t.amount = trade.amount
    BY <1>0 DEF Places
  <2>2. trade' = Recalc(t, db') \/ UNCHANGED trade
    BY <1>2 DEF RecordOrder
  <2> HIDE DEF t
  <2> QED
    BY <2>1, <2>2, RecalcKeeps
<1>3. CASE UpdateOrder
  BY <1>3 DEF UpdateOrder
<1>4. CASE Delete
  BY <1>4 DEF Delete, NoTrade
<1> QED
  BY <1>1, <1>2, <1>3, <1>4, Writers

-----------------------------------------------------------------------------
\* Which loop or handler is active after a step, and which one it will go back to.
FlowMoved ==
    /\ bot'.flow \in {bot.flow, bot.back.flow, "none", "manage", "recover", "placed", "similar",
                      "forceexit", "cancel_open_order", "fees"}
    /\ bot'.back.flow \in {bot.back.flow, bot.flow, "none"}

LEMMA FlowMoves ==
    ASSUME DOMAIN bot = BotFields, Next
    PROVE  FlowMoved \/ StoppedCancelAll \/ Startup
<1>0. NoLoop.flow = "none"
  BY DEF NoLoop
<1> USE DEF FlowMoved
<1>1. CASE Rests
  BY <1>0, <1>1, RestsRest
<1>2. CASE Exchange
  BY <1>2, ExchangeStays
<1>3. CASE UpdateStep
  <2>1. CASE bot' = NextOrder(bot)
    BY <2>1, HelperFields
  <2>2. CASE SameLoop
    BY <2>2 DEF SameLoop
  <2> QED
    BY <1>1, <1>3, <2>1, <2>2, UpdateFields DEF Rests
<1>4. CASE CancelStep
  <2>1. CASE Canceled
    <3>1. ASSUME NEW goal, NEW amt, NEW sake, Place(goal, amt, sake) PROVE FlowMoved
      BY <3>1, PlaceSets
    <3> DEFINE c == NextOrder(bot)
    <3>2. DOMAIN c = BotFields /\ c.flow = bot.flow /\ c.back = bot.back
      BY HelperFields
    <3> HIDE DEF c
    <3>3. CASE bot' = c
      BY <3>2, <3>3
    <3>4. CASE bot' = [c EXCEPT !.goal = "none"]
      <4>1. bot'.flow = c.flow /\ bot'.back = c.back
        BY <3>2, <3>4 DEF BotFields
      <4> QED
        BY <3>2, <4>1
    <3> QED
      BY <2>1, <3>1, <3>3, <3>4, CanceledEnds DEF c
  <2>2. CASE SameLoop
    BY <2>2 DEF SameLoop
  <2> QED
    BY <1>1, <1>4, <2>1, <2>2, CancelFields
<1>5. CASE PlaceStep
  <2>1. CASE NotPlaced
    BY <2>1, NotPlacedSets DEF SameLoop
  <2>2. ASSUME NEW amt, ClearTheWay(amt) PROVE FlowMoved
    BY <2>2, NotPlacedSets, ClearTheWaySets DEF SameLoop
  <2>3. CASE PrepareEntry \/ PrepareExit
    BY <2>1, <2>2, <2>3 DEF PrepareEntry, PrepareExit
  <2>4. CASE bot' = Resume(bot)
    BY <1>0, <2>4, HelperFields
  <2> QED
    BY <1>1, <1>5, <2>1, <2>3, <2>4, PlaceFields DEF SameLoop
<1>6. CASE LoopStep
  <2>1. CASE bot' = [Idle("exit") EXCEPT !.pc = "decide"]
    <3>1. bot'.flow = "none" /\ bot'.back = NoLoop
      BY <2>1, RestFields DEF BotFields
    <3> QED
      BY <1>0, <3>1
  <2> QED
    BY <1>1, <1>6, <2>1, LoopFields DEF SameLoop
<1>7. CASE PhaseStep
  <2>1. CASE bot' = Loop(bot, "manage", OpenOrders)
    BY <2>1, LoopSets
  <2>2. CASE bot' = [bot EXCEPT !.pc = "decide"]
    <3>1. bot'.flow = bot.flow /\ bot'.back = bot.back
      BY <2>2 DEF BotFields
    <3> QED
      BY <3>1
  <2> QED
    BY <1>1, <1>7, <2>1, <2>2, PhaseFields DEF SameLoop
<1>8. CASE RPC
  <2>1. CASE bot' = Loop(bot, "cancel_open_order", OpenOrders)
    BY <2>1, LoopSets
  <2>2. CASE bot' = bot
    BY <2>2
  <2> QED
    BY <1>8, <2>1, <2>2, CommandFields
<1>9. CASE Lifecycle
  BY <1>1, <1>9, LifecycleFields
<1> QED
  BY <1>2, <1>3, <1>4, <1>5, <1>6, <1>7, <1>8, <1>9 DEF Next, Bot

\* The bot was neither stopped nor killed.
NotStopped ==
    /\ bot.pc \notin {"down", "stopped"}
    /\ bot.flow \notin {"startup", "stop"} /\ bot.back.flow \notin {"startup", "stop"}

\* It stops by a command, by the loop or the error of one that it ran while stopped, or by a crash.
LEMMA StopsIn ==
    ASSUME DOMAIN bot = BotFields, Next, bot'.pc \in {"down", "stopped"}
    PROVE  Stop \/ Crash \/ bot.flow = "stop" \/ (Exchange /\ UNCHANGED bot)
<1>0. \A phase : bot' # Idle(phase)
  BY RestFields
<1>1. CASE Exchange
  BY <1>1, ExchangeStays
<1>2. CASE UpdateStep
  BY <1>2, UpdateMoves DEF UpdateStep
<1>3. CASE CancelStep
  <2>1. CASE CancelRaises
    BY <1>0, <2>1 DEF CancelRaises, BotFields
  <2>2. CASE CancelKeep \/ CancelKnown \/ CancelOnExchange
    BY <2>2 DEF CancelKeep, CancelKnown, CancelOnExchange, BotFields
  <2>3. CASE CancelEnterResult \/ CancelExitResult
    BY <2>3 DEF CancelEnterResult, CancelExitResult, BotFields
  <2>4. CASE Canceled
    <3>1. ASSUME NEW goal \in {"entry", "exit"}, NEW amt, NEW sake, Place(goal, amt, sake) PROVE FALSE
      BY <3>1, PlaceSets
    <3> DEFINE c == NextOrder(bot)
    <3>2. DOMAIN c = BotFields /\ c.pc = "loop"
      BY HelperFields
    <3> HIDE DEF c
    <3>3. bot' # c /\ bot' # [c EXCEPT !.goal = "none"]
      BY <3>2 DEF BotFields
    <3> QED
      BY <2>4, <3>1, <3>3, CanceledEnds DEF c
  <2> QED
    BY <1>3, <2>1, <2>2, <2>3, <2>4 DEF CancelStep
<1>4. CASE PlaceStep
  BY <1>4, PlaceMoves DEF PlaceStep
<1>5. CASE LoopStep
  <2>1. CASE LoopEnd
    BY <1>0, <2>1 DEF LoopEnd, BotFields
  <2>2. CASE ForceExitEnd
    BY <1>0, <2>2 DEF ForceExitEnd, BotFields
  <2>3. CASE LoopFetchFails
    <3>1. bot' # NextOrder([bot EXCEPT !.todo = @ \ {Min(Left)}])
      BY WhereTo
    <3> QED
      BY <1>0, <2>3, <3>1 DEF LoopFetchFails
  <2>4. CASE RecoverEnd
    <3>1. [Idle("exit") EXCEPT !.pc = "decide"].pc = "decide"
      BY RestFields DEF BotFields
    <3> QED
      BY <1>0, <2>4, <3>1 DEF RecoverEnd
  <2>5. CASE LoopFetch \/ AssumeCanceled \/ RecoverNext
    BY <2>5 DEF LoopFetch, AssumeCanceled, RecoverNext, BotFields
  <2> QED
    BY <1>5, <2>1, <2>2, <2>3, <2>4, <2>5 DEF LoopStep
<1>6. CASE PhaseStep
  BY <1>6, PhaseMoves
<1>7. CASE RPC
  BY <1>7, CommandMoves
<1>8. CASE Lifecycle
  <2>1. CASE StoppedCancelAll
    BY <2>1, LoopSets DEF StoppedCancelAll
  <2>2. CASE Startup
    BY <2>2, LoopSets, RestFields DEF Startup
  <2> QED
    BY <1>8, <2>1, <2>2 DEF Lifecycle
<1> QED
  BY <1>1, <1>2, <1>3, <1>4, <1>5, <1>6, <1>7, <1>8 DEF Next, Bot

LEMMA NextNotStopped ==
    ASSUME DOMAIN bot = BotFields, NotStopped, "stop" \notin Commands, ~Crash, Next
    PROVE  NotStopped'
<1>1. ~Stop /\ ~StoppedCancelAll /\ ~Startup
  BY DEF Stop, Command, StoppedCancelAll, Startup, NotStopped
<1>2. FlowMoved
  BY <1>1, FlowMoves
<1>3. bot'.pc \notin {"down", "stopped"}
  BY <1>1, StopsIn DEF NotStopped
<1> QED
  BY <1>2, <1>3 DEF NotStopped, FlowMoved

-----------------------------------------------------------------------------
\* The trade exists and has no amount.
Vacant == trade.st \in {"open", "closed"} /\ trade.amount = 0

\* Its first fill is recorded, its amount comes next.
Filling == Mid /\ IsEntry(bot.ord) /\ db[bot.ord].filled > 0

\* A handler has an empty, cancelled order in hand, or replaces one.
EmptyHand ==
    \/ /\ bot.pc = "updated" /\ ~bot.inCancel /\ bot.flow = "manage" /\ bot.ret
       /\ CanceledEmpty(bot.seen[bot.ord])
    \/ /\ bot.pc \in {"cancel", "cancel_result"} /\ CanceledEmpty(bot.seen[bot.ord])
       /\ bot.why = "timeout" /\ bot.flow # "similar"
    \/ bot.pc = "updated" /\ bot.inCancel /\ bot.why = "replace" /\ bot.ret
    \/ bot.pc = "canceled" /\ bot.why = "replace" /\ bot.ret
    \/ bot.sake = "replace" /\ bot.pc \in {"entry", "create", "record"}
    \/ bot.sake = "replace" /\ bot.pc = "placed" /\ ~bot.ret

Occupied == Vacant => Filling \/ (FilledOrders("buy") = {} /\ (OpenOrders # {} \/ EmptyHand))

\* handle_cancel_enter keeps a trade without a fill only to replace its order.
EmptyCanceled ==
    /\ bot.pc = "update_order" /\ bot.inCancel /\ IsEntry(bot.ord)
    /\ bot.seen[bot.ord].filled = 0 /\ FilledOrders("buy") = {}
    => IsReplacing

\* The order that is to be replaced is out of the way.
WayMade ==
    /\ bot.pc = "canceled" \/ (bot.pc = "updated" /\ bot.inCancel)
    /\ bot.why = "replace" /\ bot.ret /\ IsEntry(bot.ord)
    => OpenOrders = {}

ClearEntry == bot.pc = "entry" => OpenOrders = {}
ClearExit == bot.pc = "exit" => trade.amount > 0 \/ OpenOrders = {}
SimilarHeld == bot.flow = "similar" => trade.amount > 0

Manned ==
    /\ NotStopped /\ Worth /\ FeesFinal /\ Errand /\ EmptyCanceled /\ WayMade
    /\ ClearEntry /\ ClearExit /\ SimilarHeld /\ Occupied

LEMMA FilledSame ==
    ASSUME Steady, Next, UNCHANGED db
    PROVE  FilledOrders("buy")' = FilledOrders("buy")
<1>1. \A o \in Orders : IsFinal(db[o]) => ex[o].status # "none"
  BY SteadyParts DEF RecordsKnown, IsFinal
<1>2. \A o \in Orders : IsFinal(db[o]) => ex'[o].side = ex[o].side
  BY <1>1, SideStays
<1> QED
  BY <1>2 DEF FilledOrders, IsFinal

LEMMA HandSideStays ==
    ASSUME Steady, Next, bot.pc \in InHand
    PROVE  bot.ord \in Orders /\ ex[bot.ord].status # "none" /\ ex'[bot.ord].side = ex[bot.ord].side
<1>1. bot.ord \in Orders /\ ex[bot.ord].status # "none"
  BY SteadyParts DEF HandKnown, Typed, BotTyped
<1> QED
  BY <1>1, SideStays

LEMMA NextEmptyCanceled ==
    ASSUME Steady, Accounts, EmptyCanceled, ~OrdersLost, Next
    PROVE  EmptyCanceled'
<1>0. DOMAIN bot = BotFields /\ Course(bot) /\ Course(bot')
  BY SteadyParts, NextPlaces DEF Places
<1> SUFFICES ASSUME bot'.pc = "update_order", bot'.inCancel, ex'[bot'.ord].side = "buy",
                    bot'.seen[bot'.ord].filled = 0, FilledOrders("buy")' = {}
             PROVE  bot'.why = "replace" \/ bot'.flow = "similar"
  BY DEF EmptyCanceled, IsReplacing, IsEntry
<1>1. CASE Exchange
  <2>1. UNCHANGED <<db, bot>>
    BY <1>1, ExchangeStays
  <2>2. IsEntry(bot.ord)
    BY <2>1, HandSideStays DEF InHand, Updating, IsEntry
  <2> QED
    BY <2>1, <2>2, FilledSame DEF EmptyCanceled, IsReplacing
<1>2. CASE /\ CancelEnterResult \/ CancelExitResult
           /\ bot.pc = "cancel_result" /\ bot'.seen = bot.seen /\ SameHand /\ SameLoop
           /\ UNCHANGED <<ex, db, trade>>
  <2>1. IsEntry(bot.ord) /\ CancelEnterResult
    BY <1>2 DEF IsEntry, SameHand, CancelExitResult
  <2>2. FilledOrders("buy") = {}
    BY <1>2, FilledSame
  <2>3. NothingElse(bot.ord)
    BY <1>2, <2>2 DEF NothingElse, Accounts, Handled, HandledOpen, InCharge
  <2>4. \/ bot' = [bot EXCEPT !.pc = "canceled", !.ret = FALSE]
        \/ bot' = [bot EXCEPT !.pc = "canceled", !.ret = TRUE]
        \/ ~(bot.seen[bot.ord].filled = 0 /\ NothingElse(bot.ord) /\ ~IsReplacing)
    BY <2>1 DEF CancelEnterResult
  <2>5. IsReplacing
    <3>1. bot' # [bot EXCEPT !.pc = "canceled", !.ret = FALSE]
          /\ bot' # [bot EXCEPT !.pc = "canceled", !.ret = TRUE]
      BY <1>0 DEF BotFields
    <3> QED
      BY <1>2, <2>3, <2>4, <3>1 DEF SameHand
  <2> QED
    BY <1>2, <2>5 DEF IsReplacing, SameHand, SameLoop
<1>3. CASE UpdateOrder \/ UpdateTradeRow
  BY <1>0, <1>3, UpdateMoves
<1>4. CASE RecordOrder
  <2>1. bot'.flow = "placed"
    BY <1>0, <1>4, PlaceMoves, SteadyParts DEF PlacedFills
  <2> QED
    BY <1>0, <2>1 DEF Course, CancelFlows
<1>5. CASE RecoverNext
  <2>1. bot'.flow = "recover"
    BY <1>0, <1>5 DEF RecoverNext, BotFields
  <2> QED
    BY <1>0, <2>1 DEF Course, CancelFlows
<1> QED
  BY <1>1, <1>2, <1>3, <1>4, <1>5, UpdatingBegins, SteadyParts DEF Updating

\* Where handle_cancel_enter and handle_cancel_exit return.
LEMMA CanceledBegins ==
    ASSUME DOMAIN bot = BotFields, Next, bot'.pc = "canceled"
    PROVE  \/ Exchange
           \/ /\ Updated /\ bot.pc = "updated" /\ bot.inCancel /\ SameHand /\ UNCHANGED <<ex, db, trade>>
              /\ IsEntry(bot.ord) => bot'.ret = bot.ret
           \/ CancelKeep /\ ~bot'.ret /\ UNCHANGED <<ex, db, trade>>
           \/ CancelEnterResult /\ (Delete \/ (~bot'.ret /\ UNCHANGED <<ex, db, trade>>))
<1>1. CASE UpdateStep
  <2>1. Updated /\ bot.inCancel /\ SameHand
    <3>1. CASE UpdateOrder \/ UpdateTradeRow
      BY <3>1, UpdateMoves
    <3>2. CASE bot' = NextOrder(bot)
      BY <3>2, WhereTo
    <3>3. CASE bot' = Idle("manage")
      BY <3>3, WhereTo
    <3> QED
      BY <1>1, <3>1, <3>2, <3>3, UpdateFields
  <2>2. IsEntry(bot.ord) => bot'.ret = bot.ret
    BY <2>1 DEF Updated, BotFields
  <2> QED
    BY <2>1, <2>2 DEF Updated
<1>2. CASE CancelStep
  <2>1. CASE CancelKeep
    BY <2>1 DEF CancelKeep, BotFields
  <2>2. CASE CancelEnterResult
    BY <2>2 DEF CancelEnterResult, BotFields
  <2>3. CASE CancelOnExchange \/ CancelKnown \/ CancelExitResult
    BY <2>3 DEF CancelOnExchange, CancelKnown, CancelExitResult, BotFields
  <2>4. CASE CancelRaises
    <3>1. CASE Rests
      BY <3>1, RestsRest DEF Resting
    <3> QED
      BY <2>4, <3>1 DEF CancelRaises, Rests, BotFields
  <2>5. CASE Canceled
    <3>1. ASSUME NEW goal \in {"entry", "exit"}, NEW amt, NEW sake, Place(goal, amt, sake) PROVE FALSE
      BY <3>1, PlaceSets
    <3> DEFINE c == NextOrder(bot)
    <3>2. DOMAIN c = BotFields /\ c.pc = "loop"
      BY HelperFields
    <3> HIDE DEF c
    <3>3. bot' # c /\ bot' # [c EXCEPT !.goal = "none"]
      BY <3>2 DEF BotFields
    <3> QED
      BY <2>5, <3>1, <3>3, CanceledEnds DEF c
  <2> QED
    BY <1>2, <2>1, <2>2, <2>3, <2>4, <2>5 DEF CancelStep
<1>3. CASE PlaceStep
  BY <1>3, PlaceMoves DEF PlaceStep
<1>4. CASE LoopStep
  BY <1>4, LoopMoves
<1>5. CASE PhaseStep
  BY <1>5, PhaseMoves
<1>6. CASE RPC
  BY <1>6, CommandMoves
<1>7. CASE Lifecycle
  BY <1>7, LifecycleMoves
<1> QED
  BY <1>1, <1>2, <1>3, <1>4, <1>5, <1>6, <1>7 DEF Next, Bot

LEMMA NextWayMade ==
    ASSUME Steady, Accounts, Worth, WayMade, ~OrdersLost, Next
    PROVE  WayMade'
<1>0. DOMAIN bot = BotFields
  BY SteadyParts
<1> SUFFICES ASSUME bot'.pc = "canceled" \/ (bot'.pc = "updated" /\ bot'.inCancel),
                    bot'.why = "replace", bot'.ret, ex'[bot'.ord].side = "buy"
             PROVE  OpenOrders' = {}
  BY DEF WayMade, IsEntry
<1>1. CASE Exchange
  <2>1. UNCHANGED <<db, bot>>
    BY <1>1, ExchangeStays
  <2>2. IsEntry(bot.ord)
    BY <2>1, HandSideStays DEF InHand, Updating, Canceling, IsEntry
  <2> QED
    BY <2>1, <2>2 DEF WayMade, OpenOrders
<1>2. CASE Updated /\ bot.pc = "updated" /\ bot.inCancel /\ SameHand /\ UNCHANGED <<ex, db, trade>>
           /\ (IsEntry(bot.ord) => bot'.ret = bot.ret)
  <2>1. IsEntry(bot.ord) /\ bot.ret /\ bot.why = "replace"
    BY <1>2 DEF SameHand, IsEntry
  <2> QED
    BY <1>2, <2>1 DEF WayMade, OpenOrders
<1>3. CASE Delete
  BY <1>3, BlankRecords DEF OpenOrders, Nothing
<1>4. CASE bot'.pc = "canceled"
  BY <1>0, <1>1, <1>2, <1>3, <1>4, CanceledBegins
<1>5. CASE bot'.pc = "updated" /\ bot'.inCancel /\ UpdateOrder
  <2>1. CanceledEmpty(bot.seen[bot.ord]) /\ bot.inCancel /\ bot.pc = "update_order"
    BY <1>0, <1>5 DEF UpdateOrder, BotFields
  <2>2. OpenOrders \subseteq {bot.ord}
    BY <2>1 DEF Accounts, Handled, HandledOpen, InCharge, Updating
  <2>3. \A o \in Orders : db'[o].status # "open"
    <3>1. /\ db'[bot.ord] = bot.seen[bot.ord]
          /\ \A o \in Orders \ {bot.ord} : db'[o] = db[o]
      BY <1>5, WrittenExists, SteadyParts
    <3> QED
      BY <2>1, <2>2, <3>1 DEF OpenOrders, CanceledEmpty, IsFinal
  <2> QED
    BY <2>3 DEF OpenOrders
<1>6. CASE bot'.pc = "updated" /\ UpdateTradeRow
  <2>1. bot.pc = "update_trade" /\ bot.ret
    BY <1>0, <1>6 DEF UpdateTradeRow, BotFields
  <2> QED
    BY <2>1, SteadyParts DEF Said, Worth
<1>7. CASE bot'.pc = "updated" /\ ~Exchange
  <2>1. UpdateOrder \/ UpdateTradeRow
    <3>1. CASE RecordOrder
      BY <1>0, <1>7, <3>1, PlaceMoves
    <3>2. CASE RecoverNext
      BY <1>0, <1>7, <3>2 DEF RecoverNext, BotFields
    <3> QED
      BY <1>7, <3>1, <3>2, UpdatingBegins, SteadyParts DEF Updating
  <2> QED
    BY <1>5, <1>6, <1>7, <2>1
<1> QED
  BY <1>1, <1>4, <1>7

-----------------------------------------------------------------------------
\* Where execute_entry and execute_trade_exit are called, without additional entries.
LEMMA PreparesIn ==
    ASSUME DOMAIN bot = BotFields, AdjustAmount = 0, Next, bot'.pc \in {"entry", "exit"}
    PROVE  \/ Exchange
           \/ /\ Canceled /\ UNCHANGED <<ex, db, trade>>
              /\ \/ bot'.pc = "entry" /\ bot.why = "replace" /\ bot.ret /\ IsEntry(bot.ord)
                 \/ bot'.pc = "exit" /\ ~IsEntry(bot.ord)
           \/ ForceExitEnd /\ AllCanceled /\ bot'.pc = "exit" /\ UNCHANGED <<ex, db, trade>>
           \/ DecideExit /\ trade.amount > 0 /\ bot'.pc = "exit" /\ UNCHANGED <<ex, db, trade>>
<1>1. CASE UpdateStep
  BY <1>1, UpdateMoves DEF UpdateStep
<1>2. CASE CancelStep
  <2>1. CASE CancelKeep \/ CancelOnExchange \/ CancelKnown
    BY <2>1 DEF CancelKeep, CancelOnExchange, CancelKnown, BotFields
  <2>2. CASE CancelEnterResult \/ CancelExitResult
    BY <2>2 DEF CancelEnterResult, CancelExitResult, BotFields
  <2>3. CASE CancelRaises
    <3>1. CASE Rests
      BY <3>1, RestsRest DEF Resting
    <3> QED
      BY <2>3, <3>1 DEF CancelRaises, Rests, BotFields
  <2>4. CASE Canceled
    <3> DEFINE c == NextOrder(bot)
    <3>1. DOMAIN c = BotFields /\ c.pc = "loop"
      BY HelperFields
    <3> HIDE DEF c
    <3>2. bot' # c /\ bot' # [c EXCEPT !.goal = "none"]
      BY <3>1 DEF BotFields
    <3>3. CASE Emergency /\ Place("exit", Remaining(bot.ord), "emergency") /\ UNCHANGED <<db, trade>>
      BY <2>4, <3>3, PlaceSets DEF Emergency, Canceled
    <3>4. CASE /\ bot.why = "replace" /\ bot.ret /\ UNCHANGED <<db, trade>>
               /\ Place(IF IsEntry(bot.ord) THEN "entry" ELSE "exit", Remaining(bot.ord), "replace")
      <4>1. bot'.pc = IF IsEntry(bot.ord) THEN "entry" ELSE "exit"
        BY <3>4, PlaceSets
      <4> QED
        BY <2>4, <3>4, <4>1 DEF Canceled
    <3> QED
      BY <2>4, <3>2, <3>3, <3>4, CanceledEnds DEF c
  <2> QED
    BY <1>2, <2>1, <2>2, <2>3, <2>4 DEF CancelStep
<1>3. CASE PlaceStep
  BY <1>3, PlaceMoves DEF PlaceStep
<1>4. CASE LoopStep
  <2>1. CASE LoopFetch \/ AssumeCanceled \/ RecoverNext
    BY <2>1 DEF LoopFetch, AssumeCanceled, RecoverNext, BotFields
  <2>2. CASE Rests
    BY <2>2, RestsRest DEF Resting
  <2>3. CASE bot' = [Idle("exit") EXCEPT !.pc = "decide"]
    BY <2>3, RestFields DEF BotFields
  <2>4. CASE ForceExitEnd
    <3>1. UNCHANGED <<ex, db, trade>> /\ (bot' = Idle(bot.phase) \/ (bot.goal = "exit" /\ AllCanceled))
      BY <2>4 DEF ForceExitEnd
    <3>2. bot' # Idle(bot.phase)
      BY RestFields
    <3> QED
      BY <1>4, <2>4, <3>1, <3>2, LoopMoves
  <2>5. CASE bot'.pc \in {"loop", "create", "placed"}
    BY <2>5
  <2> QED
    BY <1>4, <2>1, <2>2, <2>3, <2>4, <2>5, LoopFields
<1>5. CASE PhaseStep
  <2>1. CASE Rests
    BY <2>1, RestsRest DEF Resting
  <2>2. CASE bot' = Loop(bot, "manage", OpenOrders)
    BY <2>2, LoopSets
  <2>3. CASE DecideExit
    BY <2>1, <2>3 DEF DecideExit, Rests, BotFields
  <2> QED
    BY <1>5, <2>1, <2>2, <2>3, PhaseFields
<1>6. CASE RPC
  BY <1>6, CommandMoves
<1>7. CASE Lifecycle
  BY <1>7, LifecycleMoves
<1> QED
  BY <1>1, <1>2, <1>3, <1>4, <1>5, <1>6, <1>7 DEF Next, Bot

\* A trade with an exit order has a position.
LEMMA ExitHasPosition ==
    ASSUME Steady, Occupied, trade.st \notin {"none", "deleted"}, ~Filling,
           NEW o \in Orders, ex[o].status # "none", ~IsEntry(o)
    PROVE  trade.amount > 0
<1>1. trade.amount \in Nat /\ trade.st \in {"open", "closed"}
  BY SteadyParts DEF Typed, TradeRow
<1>2. CASE trade.amount = 0
  <2>1. FilledOrders("buy") = {}
    BY <1>1, <1>2 DEF Occupied, Vacant
  <2>2. AllBuys
    BY <2>1 DEF Steady, Purchase, Bought
  <2> QED
    BY <2>2 DEF AllBuys
<1> QED
  BY <1>1, <1>2

LEMMA NextClearEntry ==
    ASSUME Steady, WayMade, ClearEntry, AdjustAmount = 0, Next
    PROVE  ClearEntry'
<1> SUFFICES ASSUME bot'.pc = "entry" PROVE OpenOrders' = {}
  BY DEF ClearEntry
<1>1. CASE Exchange
  BY <1>1, ExchangeStays DEF ClearEntry, OpenOrders
<1>2. CASE Canceled /\ bot.why = "replace" /\ bot.ret /\ IsEntry(bot.ord) /\ UNCHANGED <<ex, db, trade>>
  <2>1. bot.pc = "canceled"
    BY <1>2 DEF Canceled
  <2> QED
    BY <1>2, <2>1 DEF WayMade, OpenOrders
<1> QED
  BY <1>1, <1>2, PreparesIn, SteadyParts

LEMMA NextClearExit ==
    ASSUME Steady, Occupied, ClearExit, AdjustAmount = 0, Next
    PROVE  ClearExit'
<1> SUFFICES ASSUME bot'.pc = "exit" PROVE trade'.amount > 0 \/ OpenOrders' = {}
  BY DEF ClearExit
<1>1. CASE Exchange
  BY <1>1, ExchangeStays DEF ClearExit, OpenOrders
<1>2. CASE Canceled /\ ~IsEntry(bot.ord) /\ UNCHANGED <<ex, db, trade>>
  <2>1. bot.pc = "canceled"
    BY <1>2 DEF Canceled
  <2>2. bot.ord \in Orders /\ ex[bot.ord].status # "none"
    BY <2>1, SteadyParts DEF HandKnown, InHand, Canceling, Typed, BotTyped
  <2>3. trade.st \notin {"none", "deleted"}
    BY <1>2, <2>1, SteadyParts DEF Places, Begins, Ends, Resting
  <2>4. ~Filling
    BY <2>1 DEF Filling, Mid
  <2> QED
    BY <1>2, <2>2, <2>3, <2>4, ExitHasPosition
<1> QED
  BY <1>1, <1>2, PreparesIn, SteadyParts DEF AllCanceled, OpenOrders

\* Where handle_similar_open_order begins to cancel.
LEMMA SimilarBegins ==
    ASSUME Course(bot), Next, bot'.flow = "similar"
    PROVE  \/ bot.flow = "similar"
           \/ (PrepareEntry \/ PrepareExit) /\ OpenOrders # {} /\ UNCHANGED <<ex, db, trade>>
<1>0. DOMAIN bot = BotFields
  BY DEF Course
<1>1. CASE Rests
  BY <1>1, RestsRest
<1>2. CASE UpdateStep
  BY <1>0, <1>1, <1>2, UpdateFields, HelperFields DEF Rests, SameLoop
<1>3. CASE CancelStep
  <2>1. CASE Canceled
    <3>1. ASSUME NEW goal, NEW amt, NEW sake, Place(goal, amt, sake) PROVE bot.flow = "similar"
      BY <1>0, <3>1, PlaceSets
    <3> DEFINE c == NextOrder(bot)
    <3>2. DOMAIN c = BotFields /\ c.flow = bot.flow
      BY <1>0, HelperFields
    <3> HIDE DEF c
    <3>3. bot' = c \/ bot' = [c EXCEPT !.goal = "none"] => bot.flow = "similar"
      BY <3>2 DEF BotFields
    <3> QED
      BY <1>0, <2>1, <3>1, <3>3, CanceledEnds DEF c
  <2> QED
    BY <1>0, <1>1, <1>3, <2>1, CancelFields DEF SameLoop
<1>4. CASE PlaceStep
  <2>1. CASE NotPlaced
    BY <1>0, <2>1, NotPlacedSets DEF SameLoop
  <2>2. ASSUME NEW amt, ClearTheWay(amt) PROVE bot.flow = "similar" \/ OpenOrders # {}
    BY <1>0, <2>2, ClearTheWaySets DEF SameLoop
  <2>3. CASE bot' = Resume(bot) /\ bot.sake \in {"replace", "emergency"}
    <3>1. bot'.flow = bot.back.flow
      BY <1>0, <2>3, HelperFields
    <3> QED
      BY <2>3, <3>1 DEF Course
  <2>4. CASE PrepareEntry \/ PrepareExit
    BY <2>1, <2>2, <2>4 DEF PrepareEntry, PrepareExit
  <2> QED
    BY <1>0, <1>1, <1>4, <2>1, <2>3, <2>4, PlaceFields DEF SameLoop
<1>5. CASE LoopStep
  <2>1. CASE bot' = [Idle("exit") EXCEPT !.pc = "decide"]
    BY <2>1, RestFields DEF BotFields
  <2> QED
    BY <1>0, <1>1, <1>5, <2>1, LoopFields DEF SameLoop
<1>6. CASE PhaseStep
  <2>1. CASE bot' = Loop(bot, "manage", OpenOrders)
    BY <1>0, <2>1, LoopSets
  <2>2. CASE bot' = [bot EXCEPT !.pc = "decide"]
    BY <1>0, <2>2 DEF BotFields
  <2> QED
    BY <1>0, <1>1, <1>6, <2>1, <2>2, PhaseFields DEF SameLoop
<1>7. CASE RPC
  <2>1. CASE bot' = Loop(bot, "cancel_open_order", OpenOrders)
    BY <1>0, <2>1, LoopSets
  <2> QED
    BY <1>0, <1>7, <2>1, CommandFields
<1>8. CASE Lifecycle
  <2>1. CASE bot' = Loop(bot, "stop", OpenOrders)
    BY <1>0, <2>1, LoopSets
  <2>2. CASE bot' = Loop(Idle("fees"), "startup", OpenOrders)
    BY <2>2, LoopSets, RestFields
  <2> QED
    BY <1>0, <1>1, <1>8, <2>1, <2>2, LifecycleFields
<1>9. CASE Exchange
  BY <1>9, ExchangeStays
<1> QED
  BY <1>2, <1>3, <1>4, <1>5, <1>6, <1>7, <1>8, <1>9 DEF Next, Bot

LEMMA NextSimilarHeld ==
    ASSUME Steady, Steady', Worth, ClearEntry, ClearExit, SimilarHeld, Next
    PROVE  SimilarHeld'
<1> SUFFICES ASSUME bot'.flow = "similar" PROVE trade'.amount > 0
  BY DEF SimilarHeld
<1>1. Places' /\ Rested' /\ Typed'
  BY DEF Steady, Purchase, Ledger
<1>2. trade'.st # "deleted"
  <2>1. bot'.pc \notin Resting
    BY <1>1, RestFields DEF Rested, Resting
  <2> QED
    BY <1>1, <2>1 DEF Places, Ends, CancelFlows
<1>3. CASE bot.flow = "similar"
  BY <1>1, <1>2, <1>3, PositionStays DEF SimilarHeld
<1>4. CASE PrepareEntry /\ OpenOrders # {}
  BY <1>4 DEF PrepareEntry, ClearEntry
<1>5. CASE PrepareExit /\ OpenOrders # {} /\ UNCHANGED <<ex, db, trade>>
  BY <1>5 DEF PrepareExit, ClearExit
<1> QED
  BY <1>3, <1>4, <1>5, SimilarBegins, SteadyParts

-----------------------------------------------------------------------------
\* The record of an entry gives a vacant trade an open order or its first fill.
LEMMA WrittenOccupies ==
    ASSUME Steady, Next, UpdateOrder \/ RecordOrder, FilledOrders("buy") = {}
    PROVE  /\ ~IsFinal(bot.seen[bot.ord]) => FilledOrders("buy")' = {} /\ bot.ord \in OpenOrders'
           /\ bot.seen[bot.ord].filled = 0 => FilledOrders("buy")' = {}
           /\ bot.ord \in Orders /\ ex[bot.ord].status # "none"
<1>1. /\ bot.ord \in Orders /\ db'[bot.ord] = bot.seen[bot.ord]
      /\ db'[bot.ord].status \in {"open", "closed", "canceled"}
      /\ \A o \in Orders \ {bot.ord} : db'[o] = db[o]
  BY WrittenExists, SteadyParts
<1>2. bot.pc \in {"update_order", "record"}
  BY DEF UpdateOrder, RecordOrder
<1>3. ex[bot.ord].status # "none"
  BY <1>2, HandSideStays DEF InHand, Updating
<1>4. \A o \in Orders : IsFinal(db[o]) => ex'[o].side = ex[o].side
  <2>1. \A o \in Orders : IsFinal(db[o]) => ex[o].status # "none"
    BY SteadyParts DEF RecordsKnown, IsFinal
  <2> QED
    BY <2>1, SideStays
<1>5. \A o \in Orders \ {bot.ord} : ~(IsFinal(db'[o]) /\ db'[o].filled > 0 /\ ex'[o].side = "buy")
  BY <1>1, <1>4 DEF FilledOrders
<1>6. ~IsFinal(db'[bot.ord]) \/ db'[bot.ord].filled = 0 => FilledOrders("buy")' = {}
  <2>1. ~(0 > 0)
    OBVIOUS
  <2> QED
    BY <1>1, <1>5, <2>1 DEF FilledOrders, IsFinal
<1> QED
  BY <1>1, <1>3, <1>6 DEF OpenOrders, IsFinal

LEMMA RecordOccupies ==
    ASSUME Steady, Next, RecordOrder, FilledOrders("buy") = {}, IsEntry(bot.ord)
    PROVE  Filling' \/ (FilledOrders("buy")' = {} /\ OpenOrders' # {})
<1>1. bot.pc = "record" /\ db'[bot.ord] = bot.seen[bot.ord] /\ bot.ord \in Orders
  BY WrittenExists, SteadyParts DEF RecordOrder
<1>2. CASE IsFinal(bot.seen[bot.ord])
  <2>1. bot'.pc = "update_order" /\ bot'.flow = "placed" /\ bot'.ord = bot.ord
        /\ bot.seen[bot.ord].filled > 0
    BY <1>1, <1>2, SteadyParts DEF RecordOrder, PlacedFills, BotFields
  <2>2. ex'[bot.ord].side = "buy"
    BY <1>1, HandSideStays DEF InHand, IsEntry
  <2> QED
    BY <1>1, <2>1, <2>2 DEF Filling, Mid, IsEntry
<1>3. CASE ~IsFinal(bot.seen[bot.ord])
  BY <1>3, WrittenOccupies
<1> QED
  BY <1>2, <1>3

\* Between the two commits of update_trade_state a fill only goes on to the position.
LEMMA FillingGoesOn ==
    ASSUME Steady, Steady', Worth, Filling, Vacant', ~Crash, Next
    PROVE  Filling'
<1>0. bot.pc \in {"update_order", "update_trade"} /\ IsEntry(bot.ord) /\ db[bot.ord].filled > 0
      /\ DOMAIN bot = BotFields /\ bot.ord \in Orders
  BY SteadyParts DEF Filling, Mid, Typed, BotTyped
<1>1. ex'[bot.ord].side = "buy"
  BY <1>0, HandSideStays DEF InHand, Updating, IsEntry
<1>2. CASE Exchange
  BY <1>0, <1>1, <1>2, ExchangeStays DEF Filling, Mid, IsEntry, IsFinal
<1>3. CASE UpdateOrder
  <2>1. bot.pc = "update_order" /\ bot.flow = "placed"
    BY <1>3 DEF UpdateOrder, Filling, Mid
  <2>2. IsFinal(bot.seen[bot.ord]) /\ bot.seen[bot.ord].filled > 0 /\ db[bot.ord] = bot.seen[bot.ord]
    BY <2>1, SteadyParts DEF PlacedFills
  <2>3. ~CanceledEmpty(bot.seen[bot.ord])
    <3>1. ~(0 > 0)
      OBVIOUS
    <3> QED
      BY <2>2, <3>1 DEF CanceledEmpty
  <2>4. bot'.pc = "update_trade" /\ bot'.ord = bot.ord /\ db'[bot.ord] = bot.seen[bot.ord]
    BY <1>0, <1>3, <2>3, WrittenExists, SteadyParts DEF UpdateOrder, BotFields
  <2> QED
    BY <1>1, <2>2, <2>4 DEF Filling, Mid, IsEntry, IsFinal
<1>4. CASE UpdateTradeRow
  <2>1. IsFinal(db[bot.ord])
    BY <1>4 DEF UpdateTradeRow, Filling, Mid
  <2>2. trade'.amount > 0
    BY <1>0, <1>4, <2>1, EntryGivesAmount, SteadyParts DEF Steady, Purchase, Ledger
  <2> QED
    BY <2>2 DEF Vacant
<1>5. CASE Updated
  BY <1>0, <1>5 DEF Updated
<1> QED
  BY <1>0, <1>2, <1>3, <1>4, <1>5, UpdatingSteps DEF UpdateStep, Updating

\* An entry of a vacant trade that is found cancelled and empty is in a handler's hand.
LEMMA UpdateOccupies ==
    ASSUME Steady, Accounts, ~OrdersLost, NotStopped, FeesFinal, EmptyCanceled, SimilarHeld,
           trade.amount = 0, FilledOrders("buy") = {}, AllBuys, OpenOrders # {}, UpdateOrder, Next
    PROVE  Filling' \/ (FilledOrders("buy")' = {} /\ (OpenOrders' # {} \/ EmptyHand'))
<1> DEFINE v == bot.seen[bot.ord]
<1>0. /\ DOMAIN bot = BotFields /\ bot.pc = "update_order" /\ bot.ord \in Orders
      /\ db'[bot.ord] = v /\ v.filled \in Nat /\ IsEntry(bot.ord)
  <2>1. bot.pc = "update_order" /\ bot.ord \in Orders /\ ex[bot.ord].status # "none"
    BY WrittenOccupies DEF UpdateOrder
  <2> QED
    BY <2>1, WrittenExists, SteadyParts DEF AllBuys, Typed, BotTyped, OrderRecord
<1>1. CASE UNCHANGED db
  BY <1>1, FilledSame DEF OpenOrders
<1>2. CASE ~IsFinal(v)
  BY <1>2, WrittenOccupies
<1>3. CASE IsFinal(v) /\ v.filled > 0
  <2>1. bot'.pc = "update_trade" /\ bot'.ord = bot.ord
    <3>1. ~(0 > 0)
      OBVIOUS
    <3>2. ~CanceledEmpty(v)
      BY <1>3, <3>1 DEF CanceledEmpty
    <3> QED
      BY <1>0, <3>2 DEF UpdateOrder, BotFields
  <2>2. ex'[bot.ord].side = "buy"
    BY <1>0, HandSideStays DEF InHand, Updating, IsEntry
  <2> QED
    BY <1>0, <1>3, <2>1, <2>2 DEF Filling, Mid, IsEntry, IsFinal
<1>4. CASE IsFinal(v) /\ v.filled = 0 /\ db[bot.ord].status = "open"
  <2>1. CanceledEmpty(v)
    BY <1>4 DEF CanceledEmpty
  <2>2. /\ bot'.pc = "updated" /\ bot'.ret /\ bot'.seen = bot.seen
        /\ bot'.flow = bot.flow /\ bot'.inCancel = bot.inCancel /\ SameHand
    BY <1>0, <2>1 DEF UpdateOrder, BotFields, SameHand
  <2>3. CASE bot.inCancel
    <3>1. IsReplacing
      BY <1>0, <1>4, <2>3 DEF EmptyCanceled
    <3>2. bot.flow # "similar"
      <4>1. ~(0 > 0)
        OBVIOUS
      <4> QED
        BY <4>1 DEF SimilarHeld
    <3> QED
      BY <1>4, <2>2, <2>3, <3>1, <3>2, WrittenOccupies DEF EmptyHand, IsReplacing, SameHand
  <2>4. CASE ~bot.inCancel
    <3>1. bot.flow # "startup"
      BY DEF NotStopped
    <3>2. bot.flow # "fees"
      BY <1>0, <1>4 DEF FeesFinal, Updating, IsFinal
    <3>3. bot.flow # "recover"
      BY DEF Accounts, RecoverAll
    <3>4. bot.flow # "placed"
      BY <1>0, <1>4, SteadyParts DEF PlacedFills, IsFinal
    <3>5. bot.flow = "manage"
      BY <1>0, <2>4, <3>1, <3>2, <3>3, <3>4, SteadyParts DEF Origin, Updating, UpdatingFlows
    <3> QED
      BY <1>4, <2>1, <2>2, <2>4, <3>5, WrittenOccupies DEF EmptyHand, SameHand
  <2> QED
    BY <2>3, <2>4
<1> QED
  <2>1. db[bot.ord].status = "open" \/ UNCHANGED db
    BY UpdateShrinks, SteadyParts DEF Accounts
  <2>2. v.filled = 0 \/ v.filled > 0
    BY <1>0
  <2> QED
    BY <1>1, <1>2, <1>3, <1>4, <2>1, <2>2

-----------------------------------------------------------------------------
\* The handler that has an empty, cancelled order in hand deletes the trade or places another.
LEMMA HandPasses ==
    ASSUME Steady, Next, ~OrdersLost, ~Crash, EmptyHand, AllBuys,
           OpenOrders = {}, FilledOrders("buy") = {}, ~Delete, ~UpdateOrder, ~RecordOrder
    PROVE  EmptyHand'
<1> USE DEF EmptyHand
<1>0. /\ DOMAIN bot = BotFields /\ Course(bot)
      /\ bot.pc \in {"updated", "cancel", "cancel_result", "canceled", "entry", "create", "record", "placed"}
  BY SteadyParts
<1>1. bot.pc \in InHand => IsEntry(bot.ord)
  BY HandSideStays DEF AllBuys
<1>2. CASE Exchange
  BY <1>2, ExchangeStays DEF CanceledEmpty, IsFinal
<1>3. CASE UpdateStep
  <2>1. Updated /\ bot.pc = "updated"
    BY <1>0, <1>3, UpdateMoves DEF UpdateStep
  <2>2. CASE ~bot.inCancel /\ bot.flow = "manage" /\ bot.ret /\ CanceledEmpty(bot.seen[bot.ord])
    <3>1. bot' = [bot EXCEPT !.pc = "cancel", !.why = "timeout", !.ret = FALSE]
      BY <2>1, <2>2 DEF Updated
    <3>2. bot'.pc = "cancel" /\ bot'.why = "timeout" /\ bot'.flow = bot.flow /\ bot'.seen = bot.seen
          /\ bot'.ord = bot.ord
      BY <1>0, <3>1 DEF BotFields
    <3> QED
      BY <2>2, <3>2
  <2>3. CASE bot.inCancel /\ bot.why = "replace" /\ bot.ret
    <3>1. IsEntry(bot.ord)
      BY <1>1, <2>1 DEF InHand, Updating
    <3>2. bot' = [bot EXCEPT !.pc = "canceled", !.inCancel = FALSE, !.ret = bot.ret]
      BY <1>0, <2>1, <2>3, <3>1 DEF Updated, BotFields
    <3>3. bot'.pc = "canceled" /\ bot'.why = bot.why /\ bot'.ret = bot.ret
      BY <1>0, <3>2 DEF BotFields
    <3> QED
      BY <2>3, <3>3
  <2> QED
    BY <2>1, <2>2, <2>3
<1>4. CASE CancelStep
  <2>0. bot.pc \in Canceling
    BY <1>0, <1>4, CancelMoves
  <2>1. CASE bot.pc \in {"cancel", "cancel_result"}
    <3>1. CanceledEmpty(bot.seen[bot.ord]) /\ bot.why = "timeout" /\ bot.flow # "similar"
          /\ IsEntry(bot.ord) /\ bot.seen[bot.ord].status # "open"
      BY <1>1, <2>1 DEF CanceledEmpty, IsFinal, InHand, Canceling
    <3>2. CASE CancelKnown
      <4>1. bot'.pc = "cancel_result" /\ bot'.seen = bot.seen /\ bot'.ord = bot.ord
            /\ bot'.why = bot.why /\ bot'.flow = bot.flow
        BY <1>0, <3>2 DEF CancelKnown, BotFields
      <4> QED
        BY <3>1, <4>1
    <3>3. CASE CancelEnterResult
      <4>1. bot.seen[bot.ord].filled = 0 /\ NothingElse(bot.ord) /\ ~IsReplacing
        BY <3>1 DEF CanceledEmpty, NothingElse, IsReplacing
      <4> QED
        BY <3>1, <3>3, <4>1 DEF CancelEnterResult, CancelRefused, CanceledEmpty
    <3>4. ~CancelKeep /\ ~RequestCancel /\ ~CancelExitResult /\ ~Canceled
      BY <2>1, <3>1 DEF CancelKeep, RequestCancel, CancelExitResult, Canceled
    <3> QED
      BY <1>4, <3>2, <3>3, <3>4 DEF CancelStep, CancelOnExchange, CancelRaises
  <2>2. CASE bot.pc = "canceled"
    <3>1. bot.why = "replace" /\ bot.ret /\ IsEntry(bot.ord) /\ Canceled
      BY <1>1, <1>4, <2>2 DEF InHand, Canceling, CancelStep, CancelKeep, CancelOnExchange, CancelRaises,
                              RequestCancel, CancelKnown, CancelEnterResult, CancelExitResult
    <3>2. Place(IF IsEntry(bot.ord) THEN "entry" ELSE "exit", Remaining(bot.ord), "replace")
      BY <1>0, <3>1, CanceledEnds DEF Emergency
    <3>3. bot'.pc = "entry" /\ bot'.sake = "replace"
      BY <1>0, <3>1, <3>2, PlaceSets
    <3> QED
      BY <3>3
  <2> QED
    BY <2>0, <2>1, <2>2 DEF Canceling
<1>5. CASE PlaceStep
  <2>1. bot.sake = "replace" /\ (bot.pc = "placed" => ~bot.ret)
    BY <1>0, <1>5, PlaceMoves DEF PlaceStep
  <2>2. CASE NotPlaced
    BY <1>0, <2>1, <2>2, NotPlacedSets DEF SameErrand
  <2>3. CASE PrepareEntry
    BY <1>0, <2>1, <2>2, <2>3, ClearTheWaySets DEF PrepareEntry
  <2>4. CASE CreateOrder
    BY <1>0, <1>5, <2>1, <2>4, PlaceMoves, PlaceFields DEF SameErrand, CreateOrder
  <2>5. CASE Placed
    BY <2>1, <2>5 DEF Placed, ReplaceFailed
  <2>6. ~PrepareExit
    BY <1>0 DEF PrepareExit
  <2> QED
    BY <1>5, <2>2, <2>3, <2>4, <2>5, <2>6 DEF PlaceStep, CreateRejected
<1>6. ~LoopStep /\ ~PhaseStep /\ ~RPC /\ ~Lifecycle
  BY <1>0, LoopMoves, PhaseMoves, CommandMoves, LifecycleMoves DEF Resting
<1> QED
  BY <1>2, <1>3, <1>4, <1>5, <1>6 DEF Next, Bot

LEMMA NextOccupied ==
    ASSUME Steady, Steady', Accounts, Manned, ~OrdersLost, ~Crash, Next
    PROVE  Occupied'
<1>0. DOMAIN bot = BotFields /\ Typed /\ Places
  BY SteadyParts
<1> SUFFICES ASSUME Vacant'
             PROVE  Filling' \/ (FilledOrders("buy")' = {} /\ (OpenOrders' # {} \/ EmptyHand'))
  BY DEF Occupied
<1>1. trade'.st # "deleted" /\ ~Delete /\ ~(trade'.amount > 0)
  <2>1. ~(0 > 0)
    OBVIOUS
  <2> QED
    BY <2>1 DEF Vacant, Delete, NoTrade
<1>2. CASE trade.st \in {"none", "deleted"}
  <2>1. RecordOrder
    <3>1. trade' # trade
      BY <1>2 DEF Vacant
    <3>2. ~UpdateTradeRow
      BY <1>0, <1>2, AliveAt DEF UpdateTradeRow, Updating, Alive
    <3> QED
      BY <1>1, <3>1, <3>2, Writers DEF UpdateOrder
  <2>2. bot.pc = "record" /\ bot.goal = "entry"
    BY <1>0, <1>2, <2>1 DEF RecordOrder, Places, Begins, Ends, Resting
  <2>3. FilledOrders("buy") = {}
    BY <1>0, <1>2 DEF Places, NoRecords, Nothing, FilledOrders, IsFinal
  <2>4. IsEntry(bot.ord)
    BY <2>2 DEF Manned, Errand
  <2> QED
    BY <2>1, <2>3, <2>4, RecordOccupies
<1>3. CASE trade.st \in {"open", "closed"} /\ trade.amount = 0
  <2>1. CASE Filling
    BY <2>1, FillingGoesOn DEF Manned
  <2>2. CASE ~Filling
    <3>1. FilledOrders("buy") = {} /\ (OpenOrders # {} \/ EmptyHand)
      BY <1>3, <2>2 DEF Manned, Occupied, Vacant
    <3>2. AllBuys
      BY <1>3, <3>1 DEF Steady, Purchase, Bought
    <3>3. CASE RecordOrder
      <4>1. IsEntry(bot.ord)
        BY <3>2, <3>3, HandSideStays DEF RecordOrder, InHand, AllBuys
      <4> QED
        BY <3>1, <3>3, <4>1, RecordOccupies
    <3>4. CASE UpdateOrder
      <4>1. OpenOrders # {}
        BY <3>1, <3>4 DEF UpdateOrder, EmptyHand
      <4> QED
        BY <1>3, <3>1, <3>2, <3>4, <4>1, UpdateOccupies DEF Manned
    <3>5. CASE ~RecordOrder /\ ~UpdateOrder
      <4>1. UNCHANGED db
        BY <1>1, <3>5, RecordsStay
      <4>2. FilledOrders("buy")' = {} /\ OpenOrders' = OpenOrders
        BY <3>1, <4>1, FilledSame DEF OpenOrders
      <4> QED
        BY <1>1, <3>1, <3>2, <3>5, <4>2, HandPasses
    <3> QED
      BY <3>3, <3>4, <3>5
  <2> QED
    BY <2>1, <2>2
<1>4. CASE trade.amount > 0
  BY <1>1, <1>4, PositionStays DEF Manned, Steady, Purchase, Ledger
<1> QED
  BY <1>0, <1>2, <1>3, <1>4 DEF Typed, TradeRow

-----------------------------------------------------------------------------
LEMMA NextManned ==
    ASSUME Steady, Steady', Accounts, Manned, ~OrdersLost, AdjustAmount = 0, "stop" \notin Commands,
           ~Crash, [Next]_vars
    PROVE  Manned'
<1>0. /\ NotStopped /\ Worth /\ FeesFinal /\ Errand /\ EmptyCanceled /\ WayMade
      /\ ClearEntry /\ ClearExit /\ SimilarHeld /\ Occupied /\ DOMAIN bot = BotFields
  BY SteadyParts DEF Manned
<1>1. CASE Next
  <2>1. NotStopped'
    BY <1>0, <1>1, NextNotStopped
  <2>2. Worth' /\ FeesFinal' /\ Errand'
    BY <1>0, <1>1, NextWorth, NextFeesFinal, NextErrand DEF Accounts
  <2>3. EmptyCanceled' /\ WayMade'
    BY <1>0, <1>1, NextEmptyCanceled, NextWayMade
  <2>4. ClearEntry' /\ ClearExit' /\ SimilarHeld'
    BY <1>0, <1>1, NextClearEntry, NextClearExit, NextSimilarHeld
  <2>5. Occupied'
    BY <1>1, NextOccupied
  <2> QED
    BY <2>1, <2>2, <2>3, <2>4, <2>5 DEF Manned
<1>2. CASE UNCHANGED vars
  <2> USE DEF vars, IsEntry, CanceledEmpty, IsFinal, FilledOrders, OpenOrders
  <2>1. NotStopped' /\ Worth' /\ FeesFinal' /\ Errand'
    BY <1>0, <1>2 DEF NotStopped, Worth, FeesFinal, Errand
  <2>2. EmptyCanceled' /\ WayMade' /\ ClearEntry' /\ ClearExit' /\ SimilarHeld'
    BY <1>0, <1>2 DEF EmptyCanceled, IsReplacing, WayMade, ClearEntry, ClearExit, SimilarHeld
  <2>3. Occupied'
    BY <1>0, <1>2 DEF Occupied, Vacant, Filling, Mid, EmptyHand
  <2> QED
    BY <2>1, <2>2, <2>3 DEF Manned
<1> QED
  BY <1>1, <1>2

LEMMA InitManned == Init => Manned
<1> SUFFICES ASSUME Init PROVE Manned
  OBVIOUS
<1>1. bot.pc = "idle" /\ bot.flow = "none" /\ bot.back.flow = "none" /\ trade.st = "none"
  BY RestFields DEF Init, NoTrade, NoLoop
<1> QED
  BY <1>1 DEF Manned, NotStopped, Worth, FeesFinal, Errand, EmptyCanceled, WayMade, ClearEntry,
              ClearExit, SimilarHeld, Occupied, Vacant

LEMMA CrashesCount ==
    ASSUME Typed, [Next]_vars, crashes' = 0
    PROVE  crashes = 0 /\ ~Crash
<1>1. crashes \in Nat
  BY ConstantsAssumption DEF Typed
<1>2. ~Crash
  BY <1>1 DEF Crash
<1> QED
  BY <1>2, Writers DEF UpdateOrder, UpdateTradeRow, RecordOrder, vars

LEMMA MannedLeavesNone ==
    ASSUME Steady, Manned
    PROVE  NoEmptyTrade
<1> SUFFICES ASSUME Enter("fees"), trade.st = "open", ~(trade.amount > 0)
             PROVE  OpenOrders # {}
  BY DEF NoEmptyTrade
<1>1. bot.pc = "idle" /\ trade.amount = 0
  BY SteadyParts DEF Enter, Typed, TradeRow
<1> QED
  BY <1>1 DEF Manned, Occupied, Vacant, Filling, Mid, EmptyHand

\* As long as the process was not killed, no trade is left behind without a position and without
\* an open order that could give it one, whatever filled while it was cancelled or replaced, and
\* whatever a cancel request or a new order came to (handle_cancel_enter, replace_order_failed):
\* for any number of orders and any amounts, without additional entries, and as long as no trade
\* is reloaded and the bot is not stopped and started again.
THEOREM NeverLeftEmpty ==
    ASSUME ~OrdersLost, AdjustAmount = 0, "reload_trade" \notin Commands, "stop" \notin Commands
    PROVE  Spec => []NoTradeLeftEmpty
<1> DEFINE Inv == Steady /\ (crashes = 0 => Accounts /\ Manned)
<1>1. Init => Inv
  BY InitAccounts, InitManned
<1>2. Inv /\ [Next]_vars => Inv'
  <2> SUFFICES ASSUME Inv, [Next]_vars PROVE Inv'
    OBVIOUS
  <2>1. Steady'
    BY NextSteady
  <2>2. ASSUME crashes' = 0 PROVE Accounts' /\ Manned'
    <3>1. Accounts /\ Manned /\ ~Crash
      BY <2>2, CrashesCount, SteadyParts
    <3> QED
      BY <2>1, <3>1, NextAccounts, NextManned
  <2> QED
    BY <2>1, <2>2
<1>3. Inv => NoTradeLeftEmpty
  BY MannedLeavesNone DEF NoTradeLeftEmpty
<1> QED
  BY <1>1, <1>2, <1>3, PTL DEF Spec

-----------------------------------------------------------------------------
(* KeepsRecords: the records implement OrderRecords.  The exchange only moves   *)
(* orders on (Moves); a record is written from a copy in hand that is between   *)
(* what is recorded and what the exchange has (HandBetween).                    *)

\* What OrderRecords calls order.
Truth == [o \in Orders |-> View(o)]

Moves == \A o \in Orders : Records!Follows(View(o)', View(o))

LEMMA ViewHas ==
    ASSUME Typed, NEW o \in Orders
    PROVE  View(o).status = ex[o].status /\ View(o).filled = ex[o].filled /\ View(o) \in OrderRecord
BY DEF View, ViewIn, Typed, OrderState, OrderRecord

\* Orders are placed, fill and are cancelled; a final order stays what it is.
LEMMA ExchangeMovesOn ==
    ASSUME Typed, Typed', Next
    PROVE  Moves
<1>1. ASSUME NEW o \in Orders, ex'[o] = ex[o]
      PROVE  Records!Follows(View(o)', View(o))
  <2>1. View(o)' = View(o)
    BY <1>1 DEF View, ViewIn
  <2> QED
    BY <2>1 DEF Records!Follows
<1>2. ASSUME NEW o \in Orders, ex[o].status = "open", ex'[o].status # "none",
             ex'[o].filled >= ex[o].filled
      PROVE  Records!Follows(View(o)', View(o))
  BY <1>2 DEF View, ViewIn, Records!Follows
<1>3. ASSUME NEW o \in Orders, ex[o].status = "none"
      PROVE  Records!Follows(View(o)', View(o))
  BY <1>3 DEF View, ViewIn, Records!Follows
<1>4. CASE UNCHANGED ex
  BY <1>1, <1>4 DEF Moves
<1>5. CASE Cancels
  <2>1. PICK S \in SUBSET Live :
           ex' = [o \in Orders |-> IF o \in S THEN [ex[o] EXCEPT !.status = "canceled"] ELSE ex[o]]
    BY <1>5 DEF Cancels
  <2>2. ASSUME NEW o \in S PROVE Records!Follows(View(o)', View(o))
    <3>1. /\ o \in Orders /\ ex[o].status = "open" /\ ex[o].filled \in Nat
          /\ ex'[o].status = "canceled" /\ ex'[o].filled = ex[o].filled
      BY <2>1, <2>2 DEF Live, Typed, OrderState
    <3> QED
      BY <1>2, <3>1
  <2>3. \A o \in Orders \ S : ex'[o] = ex[o]
    BY <2>1
  <2> QED
    BY <1>1, <2>2, <2>3 DEF Moves
<1>6. CASE CreateOrder
  <2>1. PICK n \in Orders : ex[n].status = "none" /\ \A o \in Orders \ {n} : ex'[o] = ex[o]
    BY <1>6 DEF CreateOrder, Typed
  <2> QED
    BY <1>1, <1>3, <2>1 DEF Moves
<1>7. ASSUME NEW n \in Orders, Fill(n) PROVE Moves
  <2>1. /\ ex[n].status = "open" /\ ex[n].filled \in Nat
        /\ ex'[n].filled = ex[n].filled + 1 /\ ex'[n].status # "none"
        /\ \A o \in Orders \ {n} : ex'[o] = ex[o]
    BY <1>7 DEF Fill, Live, Typed, OrderState
  <2>2. ex'[n].filled >= ex[n].filled
    BY <2>1
  <2> QED
    BY <1>1, <1>2, <2>1, <2>2 DEF Moves
<1> QED
  BY <1>4, <1>5, <1>6, <1>7, ExchangeMoves

\* What is written was seen after what is recorded, and before what the exchange has now.
LEMMA HandBetween ==
    ASSUME Steady, bot.pc \in {"update_order", "record"}
    PROVE  LET o == bot.ord
               v == bot.seen[o]
           IN  Records!Follows(v, db[o]) /\ Records!Follows(View(o), v)
<1> DEFINE o == bot.ord
           v == bot.seen[o]
<1>1. o \in Orders /\ o \in HeldBy(bot) /\ {v, db[o]} \subseteq OrderRecord
  BY SteadyParts DEF Typed, BotTyped, HeldBy, Writing
<1>2. /\ v.filled \in Nat /\ db[o].filled \in Nat /\ ex[o].filled \in Nat
      /\ v.status \in Statuses /\ db[o].status \in Statuses
  BY <1>1, SteadyParts DEF OrderRecord, Typed, OrderState
<1>3. db[o].filled <= v.filled /\ v.filled <= ex[o].filled
  BY <1>1, SteadyParts DEF Fills, SeenFresh, SeenBehind
<1>4. ex[o].status # "none" /\ v.status # "none"
  BY <1>1, SteadyParts DEF HandKnown, InHand, Updating, HandSeen
<1>5. IsFinal(v) => View(o) = v
  BY <1>1, SteadyParts DEF Agreement, SeenAgrees
<1>6. IsFinal(db[o]) => v = db[o]
  <2>1. IsFinal(db[o]) => db[o] = View(o) /\ IsFinal(v)
    BY <1>1, SteadyParts DEF Agreement, FinalOrdersAgree, SeenFinal
  <2> QED
    BY <1>5, <2>1
<1>7. Records!Follows(v, db[o])
  BY <1>2, <1>3, <1>4, <1>6 DEF Records!Follows, IsFinal, Statuses
<1>8. Records!Follows(View(o), v)
  <2>1. View(o).status = ex[o].status /\ View(o).filled = ex[o].filled
    BY <1>1, SteadyParts, ViewHas
  <2> QED
    BY <1>2, <1>3, <1>4, <1>5, <2>1 DEF Records!Follows, IsFinal, Statuses
<1> QED
  BY <1>7, <1>8

\* Every step is one of OrderRecords, or leaves the records and the orders alone.
LEMMA StepRecords ==
    ASSUME Steady, Steady', Next
    PROVE  [Records!RNext]_<<Truth, db, trade.st = "deleted">>
<1> DEFINE Dropped == trade.st = "deleted"
<1>1. Typed /\ Typed' /\ Places
  BY SteadyParts, PTL DEF Steady, Purchase, Ledger
<1>2. /\ DOMAIN Truth = Orders /\ DOMAIN Truth' = Orders
      /\ \A o \in Orders : Truth[o] = View(o) /\ Truth'[o] = View(o)'
  BY DEF Truth
<1>3. Records!Proceed
  BY <1>1, ExchangeMovesOn DEF Records!Proceed, Moves
<1>4. Dropped => Dropped' /\ UNCHANGED db
  <2> SUFFICES ASSUME Dropped PROVE Dropped' /\ UNCHANGED db
    OBVIOUS
  <2>1. Dropped'
    BY <1>1, DeletedStays DEF StaysDeleted
  <2>2. \A o \in Orders : db[o] = Nothing /\ db'[o] = Nothing
    BY <1>1, <2>1 DEF Places, NoRecords, Steady, Purchase, Ledger
  <2> QED
    BY <1>1, <2>1, <2>2 DEF Typed
<1>5. CASE UNCHANGED <<db, trade>>
  BY <1>3, <1>5 DEF Records!RNext, Records!Exchange
<1>6. CASE Delete
  <2>1. Dropped' /\ db' = [o \in Orders |-> Records!Unknown]
    BY <1>6 DEF Delete, NoTrade, Nothing, Records!Unknown
  <2>2. CASE Dropped
    BY <1>3, <1>4, <2>1, <2>2 DEF Records!RNext, Records!Exchange
  <2>3. CASE ~Dropped
    BY <1>3, <2>1, <2>3 DEF Records!RNext, Records!Drop
  <2> QED
    BY <2>2, <2>3
<1>7. CASE UpdateOrder \/ RecordOrder
  <2>1. /\ UNCHANGED ex /\ db' = [db EXCEPT ![bot.ord] = bot.seen[bot.ord]]
        /\ bot.pc \in {"update_order", "record"}
    BY <1>7, SteadyParts, Writes DEF Fills
  <2>2. bot.ord \in Orders
    BY <1>1 DEF Typed, BotTyped
  <2>3. ~Dropped /\ ~Dropped'
    <3>1. ~Dropped
      BY <1>1, <2>1 DEF Places, Ends, Resting
    <3>2. CASE UpdateOrder
      BY <3>1, <3>2 DEF UpdateOrder
    <3>3. CASE RecordOrder
      <4>1. UNCHANGED trade \/ trade' = Recalc([trade EXCEPT !.st = "open"], db')
        BY <3>3 DEF RecordOrder
      <4>2. Recalc([trade EXCEPT !.st = "open"], db').st = "open"
        BY <1>1 DEF Recalc, Places
      <4> QED
        BY <3>1, <4>1, <4>2
    <3> QED
      BY <1>7, <3>1, <3>2, <3>3
  <2>4. UNCHANGED Truth
    BY <2>1 DEF Truth, View, ViewIn
  <2>5. /\ Records!Follows(bot.seen[bot.ord], db[bot.ord])
        /\ Records!Follows(View(bot.ord), bot.seen[bot.ord])
    BY <2>1, HandBetween
  <2>6. db'[bot.ord] = bot.seen[bot.ord]
    BY <1>1, <2>1, <2>2 DEF Typed
  <2>7. Records!Learn(bot.ord)
    BY <1>2, <2>1, <2>2, <2>3, <2>4, <2>5, <2>6 DEF Records!Learn, Truth
  <2> QED
    BY <2>2, <2>7 DEF Records!RNext
<1>8. CASE UpdateTradeRow
  <2>1. ~Dropped /\ ~Dropped' /\ UNCHANGED db
    BY <1>1, <1>8, AliveAt DEF UpdateTradeRow, Updating, Alive, UpdateTrade, Recalc, Close, Places
  <2> QED
    BY <1>3, <2>1 DEF Records!RNext, Records!Exchange
<1> QED
  BY <1>5, <1>6, <1>7, <1>8, Writers

\* The records implement OrderRecords: whatever races with a cancel request, is interrupted,
\* repeated or recovered after a crash, update_trade_state never writes a copy of an order that is
\* older than what is recorded or ahead of the exchange, never reopens a final order, and never
\* writes an order of a deleted trade; for any number of orders, amounts, commands and crashes.
THEOREM RecordsAlwaysKept ==
    ASSUME ~OrdersLost PROVE Spec => KeepsRecords
<1>1. Init => Records!RInit
  <2> SUFFICES ASSUME Init PROVE Records!RInit
    OBVIOUS
  <2>1. \A o \in Orders : View(o) = Nothing
    BY DEF Init, View, ViewIn, Nothing
  <2> QED
    BY <2>1 DEF Init, Nothing, NoTrade, Records!RInit, Records!Unknown
<1>2. Init => Steady
  BY InitAccounts
<1>3. Steady /\ [Next]_vars => Steady'
  BY NextSteady
<1>4. Steady /\ [Next]_vars => [Records!RNext]_<<[o \in Orders |-> View(o)], db, trade.st = "deleted">>
  <2> SUFFICES ASSUME Steady, [Next]_vars
               PROVE  [Records!RNext]_<<Truth, db, trade.st = "deleted">>
    BY DEF Truth
  <2>1. Steady'
    BY NextSteady
  <2>2. CASE UNCHANGED vars
    BY <2>2 DEF vars, Truth, View, ViewIn
  <2> QED
    BY <2>1, <2>2, StepRecords
<1> QED
  BY <1>1, <1>2, <1>3, <1>4, PTL DEF Spec, KeepsRecords, Records!RSpec, Records!rvars

=============================================================================
