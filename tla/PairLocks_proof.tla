--------------------------- MODULE PairLocks_proof ---------------------------
(***************************************************************************)
(* Proofs about PairLocks, for any pairs, candles, protections and users:  *)
(* every demand has a lock that stands for it to its end, which is why     *)
(* protections may leave a lock out when another one reaches further, and  *)
(* why entries on old candles are held back.                               *)
(***************************************************************************)
EXTENDS PairLocks, WellFoundedInduction, TLAPS

-----------------------------------------------------------------------------
(* The inductive invariant *)

LockFields == {"pair", "side", "reason", "end", "active"}
Closed == [pair : Pairs, side : Sides, date : Int, profit : Int, stop : BOOLEAN]
Closing == [pair : Pairs \cup {"none"}, side : Sides \cup {"none"}, step : Nat]

\* What the argument needs of the variables.
Shaped ==
    /\ now \in Int
    /\ seen \in [Pairs -> Int]
    /\ \A l \in locks : DOMAIN l = LockFields /\ l.end \in Int
    /\ open \in [Pairs -> Sides \cup {"none"}]
    /\ closed \in Seq(Closed) /\ \A i \in DOMAIN closed : closed[i].date <= now
    /\ closing \in Closing
    /\ \A d \in due : d.until \in Int

\* l enforces what d demands to its last minute.
Enforces(l, d) == l.active /\ l.end > d.until /\ Covers(l, d)

\* Each demand that was not released has its lock, also long after its end.
Enforced == \A d \in due : \E l \in locks : Enforces(l, d)

IInv == Shaped /\ Enforced

-----------------------------------------------------------------------------
(* Time *)

\* The next candle starts later, and at most a candle later.
LEMMA NextDateLater ==
    ASSUME NEW t \in Int
    PROVE  NextDate(t) \in Int /\ NextDate(t) > t /\ NextDate(t) <= t + Timeframe
<1>1. Timeframe \in Nat \ {0}
  BY LocksAssumption
<1>2. t % Timeframe \in Int /\ 0 <= t % Timeframe /\ t % Timeframe < Timeframe
  BY <1>1
<1> QED
  BY <1>1, <1>2 DEF NextDate

\* The latest of some dates that are not in the future is one of them.
LEMMA LatestIsMember ==
    ASSUME NEW S \in SUBSET Int, S # {}, NEW bound \in Int, \A x \in S : x <= bound
    PROVE  Max(S) \in S
<1> DEFINE D == {bound - x : x \in S}
<1>1. D \subseteq Nat /\ D # {}
  <2>1. \A x \in S : bound - x \in Nat
    OBVIOUS
  <2> QED
    BY <2>1
<1>2. IsWellFoundedOn(OpToRel(<, Nat), Nat)
  BY NatLessThanWellFounded
<1>3. PICK m \in D : \A y \in D : ~(<<y, m>> \in OpToRel(<, Nat))
  BY <1>1, <1>2, WFMin
<1>4. \A y \in D : ~(y < m)
  <2> SUFFICES ASSUME NEW y \in D, y < m PROVE FALSE
    OBVIOUS
  <2>1. <<y, m>> \in Nat \X Nat /\ <<y, m>>[1] < <<y, m>>[2]
    BY <1>1
  <2>2. <<y, m>> \in OpToRel(<, Nat)
    BY <2>1 DEF OpToRel
  <2> QED
    BY <1>3, <2>2
<1>5. PICK x \in S : m = bound - x
  BY <1>3
<1>6. \A y \in S : x >= y
  BY <1>4, <1>5
<1> QED
  BY <1>5, <1>6 DEF Max

\* The end of a protection's lock is a time.
LEMMA LockEndTyped ==
    ASSUME Shaped, NEW P \in ProtectionType, NEW T \in SUBSET DOMAIN closed, T # {}
    PROVE  LockEnd(P, T) \in Int
<1> DEFINE S == {closed[i].date : i \in T}
           last == Max(S)
<1>1. \A i \in DOMAIN closed : closed[i] \in Closed
  BY DEF Shaped
<1>2. S \in SUBSET Int /\ S # {} /\ \A x \in S : x <= now
  BY <1>1 DEF Shaped, Closed
<1>3. last \in Int
  BY <1>2, LatestIsMember DEF Shaped
<1>4. P.unlockAt \in Int /\ P.duration \in Int /\ Day \in Nat \ {0}
  BY LocksAssumption DEF ProtectionType
<1> HIDE DEF last
<1>5. last % Day \in Int
  BY <1>3, <1>4
<1> QED
  BY <1>3, <1>4, <1>5 DEF LockEnd, last

-----------------------------------------------------------------------------
(* What is set *)

\* A new lock enforces its demand, or an old one does.
LEMMA LockedUntil ==
    ASSUME Shaped, NEW pair, NEW until \in Int, NEW reason, NEW side
    PROVE  LET L == WithLock(pair, until, reason, side)
               d == [pair |-> pair, side |-> side, until |-> until]
           IN  /\ locks \subseteq L
               /\ \A l \in L : DOMAIN l = LockFields /\ l.end \in Int
               /\ \E l \in L : Enforces(l, d)
<1> DEFINE d == [pair |-> pair, side |-> side, until |-> until]
           new == [pair |-> pair, side |-> side, reason |-> reason,
                   end |-> NextDate(until), active |-> TRUE]
           L == WithLock(pair, until, reason, side)
<1>1. NextDate(until) \in Int /\ NextDate(until) > until
  BY NextDateLater
<1>2. DOMAIN new = LockFields /\ new.end \in Int /\ Enforces(new, d)
  BY <1>1 DEF LockFields, Enforces, Covers
<1>3. CASE \E l \in GetPairLocks(pair, now, side) :
              l.reason = reason /\ l.end = NextDate(until) /\ l.side = side
  <2>1. PICK l \in GetPairLocks(pair, now, side) : l.end = NextDate(until) /\ l.side = side
    BY <1>3
  <2>2. l \in locks /\ Enforces(l, d)
    BY <1>1, <2>1 DEF GetPairLocks, Enforces, Covers
  <2>3. L = locks
    BY <1>3 DEF WithLock
  <2> QED
    BY <2>2, <2>3 DEF Shaped
<1>4. CASE ~\E l \in GetPairLocks(pair, now, side) :
              l.reason = reason /\ l.end = NextDate(until) /\ l.side = side
  <2>1. L = locks \cup {new}
    BY <1>4 DEF WithLock
  <2> QED
    BY <1>2, <2>1 DEF Shaped
<1> QED
  BY <1>3, <1>4

\* A protection writes its lock, or one that reaches further is there.
LEMMA ProtectedUntil ==
    ASSUME Shaped, NEW pair, NEW r, r.until \in Int, NEW reason
    PROVE  LET L == ProtectionLock(r, pair, reason)
               d == [pair |-> pair, side |-> r.side, until |-> r.until]
           IN  /\ locks \subseteq L
               /\ \A l \in L : DOMAIN l = LockFields /\ l.end \in Int
               /\ \E l \in L : Enforces(l, d)
<1> DEFINE d == [pair |-> pair, side |-> r.side, until |-> r.until]
           there == IF pair = Both THEN IsGlobalLock(r.until, r.side)
                    ELSE IsPairLocked(pair, r.until, r.side)
<1>1. CASE there
  <2>1. PICK l \in locks : /\ l.end > r.until /\ l.active /\ l.pair \in {pair, Both}
                          /\ l.side \in {r.side, Both}
    BY <1>1 DEF IsGlobalLock, IsPairLocked, GetPairLocks
  <2>2. Enforces(l, d)
    BY <2>1 DEF Enforces, Covers
  <2>3. ProtectionLock(r, pair, reason) = locks
    BY <1>1 DEF ProtectionLock
  <2> QED
    BY <2>2, <2>3 DEF Shaped
<1>2. CASE ~there
  <2>1. ProtectionLock(r, pair, reason) = WithLock(pair, r.until, reason, r.side)
    BY <1>2 DEF ProtectionLock
  <2> QED
    BY <2>1, LockedUntil
<1> QED
  BY <1>1, <1>2

\* A protection returns one lock at most, and it has an end.
LEMMA TriggerTyped ==
    ASSUME Shaped, NEW i \in DOMAIN Protections, NEW pair, NEW side
    PROVE  LET returned == Trigger(Protections[i], pair, side)
           IN  returned = {} \/ \E r : returned = {r} /\ r.until \in Int
<1> DEFINE P == Protections[i]
           trades == Recent(P, pair)
           bad == LosingStops(P, trades, side)
           Lock(of) == {[until |-> LockEnd(P, of), side |-> IF P.perSide THEN side ELSE Both]}
<1>1. P \in ProtectionType
  BY LocksAssumption
<1>2. trades \subseteq DOMAIN closed /\ bad \subseteq DOMAIN closed
  BY DEF Recent, LosingStops, OfSide
<1> HIDE DEF P
<1>3. P.kind \in {"CooldownPeriod", "StoplossGuard", "LowProfitPairs", "MaxDrawdown"}
  BY <1>1 DEF ProtectionType
<1>4. \/ Trigger(P, pair, side) = {}
      \/ trades # {} /\ Trigger(P, pair, side) = Lock(trades)
      \/ bad # {} /\ Trigger(P, pair, side) = Lock(bad)
  BY <1>3 DEF Trigger
<1>5. trades # {} => LockEnd(P, trades) \in Int
  BY <1>1, <1>2, LockEndTyped
<1>6. bad # {} => LockEnd(P, bad) \in Int
  BY <1>1, <1>2, LockEndTyped
<1> HIDE DEF trades, bad
<1>7. Trigger(P, pair, side) = {} \/ \E r : Trigger(P, pair, side) = {r} /\ r.until \in Int
  BY <1>4, <1>5, <1>6
<1> QED
  BY <1>7 DEF P

-----------------------------------------------------------------------------
(* The steps *)

\* A demand is made, and a lock enforces it.
LEMMA DemandStep ==
    ASSUME IInv, NEW d, d.until \in Int, locks \subseteq locks',
           \A l \in locks' : DOMAIN l = LockFields /\ l.end \in Int,
           \E l \in locks' : Enforces(l, d), due' = due \cup {d},
           UNCHANGED <<now, seen, open, closed>>, closing' \in Closing
    PROVE  IInv'
<1>1. Shaped'
  BY DEF IInv, Shaped
<1>2. Enforced'
  BY DEF IInv, Enforced
<1> QED
  BY <1>1, <1>2 DEF IInv

\* Locks are released, with all that they stood for; R is what their rows become.
LEMMA ReleaseStep ==
    ASSUME IInv, NEW L \in SUBSET locks, NEW R, locks' = (locks \ L) \cup R,
           \A l \in R : DOMAIN l = LockFields /\ l.end \in Int,
           due' = StillDue(L), UNCHANGED <<now, seen, open, closed, closing>>
    PROVE  IInv'
<1>1. Shaped'
  BY DEF IInv, Shaped, StillDue
<1>2. ASSUME NEW d \in due'
      PROVE  \E l \in locks' : Enforces(l, d)
  <2>1. d \in due /\ \A l \in L : ~Covers(l, d)
    BY DEF StillDue
  <2>2. PICK l \in locks : Enforces(l, d)
    BY <2>1 DEF IInv, Enforced
  <2>3. l \in locks'
    BY <2>1, <2>2 DEF Enforces
  <2> QED
    BY <2>2, <2>3
<1> QED
  BY <1>1, <1>2 DEF IInv, Enforced

\* The row of a released lock keeps its fields.
LEMMA ReleasedShaped ==
    ASSUME Shaped, NEW l \in locks, NEW end \in Int
    PROVE  LET m == [l EXCEPT !.active = FALSE, !.end = end]
           IN  DOMAIN m = LockFields /\ m.end \in Int
  BY DEF Shaped, LockFields

LEMMA InitInv ==
    ASSUME Init
    PROVE  IInv
  BY LocksAssumption DEF Init, IInv, Shaped, Enforced, NoClose, Closing

LEMMA NextInv ==
    ASSUME IInv, [Next]_vars
    PROVE  IInv'
<1> USE DEF IInv
<1>1. ASSUME NEW p \in Pairs, CloseTrade(p)
      PROVE  IInv'
  <2>1. PICK o \in Outcomes :
           closed' = Append(closed, [pair |-> p, side |-> open[p], date |-> now - o.late,
                                     profit |-> o.profit, stop |-> o.stop])
    BY <1>1 DEF CloseTrade
  <2> DEFINE c == [pair |-> p, side |-> open[p], date |-> now - o.late,
                   profit |-> o.profit, stop |-> o.stop]
  <2>2. open[p] \in Sides
    BY <1>1 DEF CloseTrade, Shaped
  <2>3. o.late \in Nat /\ o.profit \in Int /\ o.stop \in BOOLEAN
    BY LocksAssumption
  <2>4. c \in Closed /\ c.date <= now
    BY <2>2, <2>3 DEF Closed, Shaped
  <2> HIDE DEF c
  <2>5. closed' = Append(closed, c)
    BY <2>1 DEF c
  <2>6. closed' \in Seq(Closed) /\ \A i \in DOMAIN closed' : closed'[i].date <= now
    BY <2>4, <2>5 DEF Shaped
  <2>7. open' \in [Pairs -> Sides \cup {"none"}] /\ closing' \in Closing
    BY <1>1, <2>2 DEF CloseTrade, Shaped, Closing
  <2>8. UNCHANGED <<now, seen, locks, due>>
    BY <1>1 DEF CloseTrade
  <2>9. Shaped'
    BY <2>6, <2>7, <2>8 DEF Shaped
  <2>10. Enforced'
    BY <2>8 DEF Enforced
  <2> QED
    BY <2>9, <2>10
<1>2. ASSUME NEW p \in Pairs, SkipPair(p) \/ Refresh(p)
      PROVE  IInv'
  <2>1. UNCHANGED <<now, locks, open, closed, closing, due>>
    BY <1>2 DEF SkipPair, Refresh
  <2>2. seen' \in [Pairs -> Int]
    <3>1. CASE SkipPair(p)
      BY <3>1 DEF SkipPair, Shaped
    <3>2. CASE Refresh(p)
      <4>1. seen[p] + 1 \in Int /\ NextDate(now) - 2 * Timeframe \in Int
        <5>1. now \in Int /\ seen[p] \in Int /\ Timeframe \in Nat
          BY LocksAssumption DEF Shaped
        <5>2. NextDate(now) \in Int
          BY <5>1, NextDateLater
        <5> QED
          BY <5>1, <5>2
      <4>2. PICK c \in (seen[p] + 1)..(NextDate(now) - 2 * Timeframe) :
               seen' = [seen EXCEPT ![p] = c]
        BY <3>2 DEF Refresh
      <4>3. c \in Int
        BY <4>1, <4>2
      <4> QED
        BY <4>2, <4>3 DEF Shaped
    <3> QED
      BY <1>2, <3>1, <3>2
  <2> QED
    BY <2>1, <2>2 DEF Shaped, Enforced
<1>3. ASSUME NEW p \in Pairs, NEW s \in Sides, CreateTrade(p, s)
      PROVE  IInv'
  BY <1>3 DEF CreateTrade, Shaped, Enforced
<1>4. CASE AutoLock
  <2> DEFINE d == [pair |-> closing.pair, side |-> closing.side, until |-> now]
  <2>1. d.until \in Int /\ now \in Int /\ closing' \in Closing
    BY <1>4 DEF AutoLock, Shaped, Closing
  <2>2. /\ locks' = WithLock(closing.pair, now, "Auto lock", closing.side)
        /\ due' = due \cup {d} /\ UNCHANGED <<now, seen, open, closed>>
    BY <1>4 DEF AutoLock
  <2>3. /\ locks \subseteq locks'
        /\ \A l \in locks' : DOMAIN l = LockFields /\ l.end \in Int
        /\ \E l \in locks' : Enforces(l, d)
    BY <2>1, <2>2, LockedUntil
  <2> HIDE DEF d
  <2> QED
    BY <2>1, <2>2, <2>3, DemandStep
<1>5. CASE Protect
  <2> DEFINE n == Len(Protections)
             global == closing.step > n
             i == IF global THEN closing.step - n ELSE closing.step
             pair == IF global THEN Both ELSE closing.pair
             returned == Trigger(Protections[i], pair, closing.side)
  <2>1. i \in DOMAIN Protections
    BY <1>5, LocksAssumption DEF Protect
  <2>2. /\ locks' = IF returned = {} THEN locks
                    ELSE ProtectionLock(CHOOSE r \in returned : TRUE, pair, Protections[i].kind)
        /\ due' = due \cup {[pair |-> pair, side |-> r.side, until |-> r.until] : r \in returned}
        /\ UNCHANGED <<now, seen, open, closed>>
        /\ closing' = [closing EXCEPT !.step = @ + 1]
    BY <1>5 DEF Protect
  <2>3. returned = {} \/ \E r : returned = {r} /\ r.until \in Int
    BY <2>1, TriggerTyped
  <2> HIDE DEF i, pair, returned
  <2>4. closing' \in Closing
    BY <2>2 DEF Shaped, Closing
  <2>5. CASE returned = {}
    BY <2>2, <2>4, <2>5 DEF Shaped, Enforced
  <2>6. CASE returned # {}
    <3>1. PICK r : returned = {r} /\ r.until \in Int
      BY <2>3, <2>6
    <3> DEFINE d == [pair |-> pair, side |-> r.side, until |-> r.until]
    <3>2. (CHOOSE q \in returned : TRUE) = r
      BY <3>1
    <3>3. locks' = ProtectionLock(r, pair, Protections[i].kind) /\ due' = due \cup {d}
      BY <2>2, <2>6, <3>1, <3>2
    <3>4. /\ locks \subseteq locks'
          /\ \A l \in locks' : DOMAIN l = LockFields /\ l.end \in Int
          /\ \E l \in locks' : Enforces(l, d)
      BY <3>1, <3>3, ProtectedUntil
    <3>5. d.until \in Int
      BY <3>1
    <3> HIDE DEF d
    <3> QED
      BY <2>2, <2>4, <3>3, <3>4, <3>5, DemandStep
  <2> QED
    BY <2>5, <2>6
<1>6. CASE ProtectionsDone \/ EnterPositions
  BY <1>6 DEF ProtectionsDone, EnterPositions, Shaped, Enforced, NoClose, Closing
<1>7. ASSUME NEW p, NEW s, NEW r, UserLock(p, s, r)
      PROVE  IInv'
  <2>1. PICK until \in Untils :
           /\ locks' = WithLock(p, until, r, s)
           /\ due' = due \cup {[pair |-> p, side |-> s, until |-> until]}
    BY <1>7 DEF UserLock
  <2> DEFINE d == [pair |-> p, side |-> s, until |-> until]
  <2>2. until \in Int /\ d.until \in Int
    BY LocksAssumption
  <2>3. /\ locks \subseteq locks'
        /\ \A l \in locks' : DOMAIN l = LockFields /\ l.end \in Int
        /\ \E l \in locks' : Enforces(l, d)
    BY <2>1, <2>2, LockedUntil
  <2>4. due' = due \cup {d}
    BY <2>1
  <2>5. UNCHANGED <<now, seen, open, closed>> /\ closing' \in Closing
    BY <1>7 DEF UserLock, Shaped
  <2> HIDE DEF d
  <2> QED
    BY <2>2, <2>3, <2>4, <2>5, DemandStep
<1>8. ASSUME NEW p \in Pairs, UnlockPair(p)
      PROVE  IInv'
  <2> DEFINE L == GetPairLocks(p, now, Both)
             R == {[l EXCEPT !.active = FALSE, !.end = l.end] : l \in L}
  <2>1. L \subseteq locks /\ \A l \in L : l.end \in Int
    BY DEF Shaped, GetPairLocks
  <2>2. \A l \in R : DOMAIN l = LockFields /\ l.end \in Int
    BY <2>1, ReleasedShaped
  <2>3. /\ locks' = (locks \ L) \cup R /\ due' = StillDue(L)
        /\ UNCHANGED <<now, seen, open, closed, closing>>
    BY <1>8 DEF UnlockPair, Released
  <2> HIDE DEF L, R
  <2> QED
    BY <2>1, <2>2, <2>3, ReleaseStep
<1>9. ASSUME NEW r, UnlockReason(r)
      PROVE  IInv'
  <2> DEFINE L == {l \in locks : l.end > now /\ l.active /\ l.reason = r}
             R == {[l EXCEPT !.active = FALSE, !.end = l.end] : l \in L}
  <2>1. L \subseteq locks /\ \A l \in L : l.end \in Int
    BY DEF Shaped, GetPairLocks
  <2>2. \A l \in R : DOMAIN l = LockFields /\ l.end \in Int
    BY <2>1, ReleasedShaped
  <2>3. /\ locks' = (locks \ L) \cup R /\ due' = StillDue(L)
        /\ UNCHANGED <<now, seen, open, closed, closing>>
    BY <1>9 DEF UnlockReason, Released
  <2> HIDE DEF L, R
  <2> QED
    BY <2>1, <2>2, <2>3, ReleaseStep
<1>10. ASSUME NEW p \in Pairs, DeleteLocksOf(p)
       PROVE  IInv'
  <2> DEFINE L == {l \in locks : l.end > now /\ l.active /\ l.pair = p}
             R == {[l EXCEPT !.active = FALSE, !.end = now] : l \in L}
  <2>1. L \subseteq locks /\ \A l \in L : now \in Int
    BY DEF Shaped, GetPairLocks
  <2>2. \A l \in R : DOMAIN l = LockFields /\ l.end \in Int
    BY <2>1, ReleasedShaped
  <2>3. /\ locks' = (locks \ L) \cup R /\ due' = StillDue(L)
        /\ UNCHANGED <<now, seen, open, closed, closing>>
    BY <1>10 DEF DeleteLocksOf, Released
  <2> HIDE DEF L, R
  <2> QED
    BY <2>1, <2>2, <2>3, ReleaseStep
<1>11. ASSUME NEW k \in locks, DeleteLock(k)
       PROVE  IInv'
  <2> DEFINE L == {k}
             R == {[l EXCEPT !.active = FALSE, !.end = now] : l \in L}
  <2>1. L \subseteq locks /\ \A l \in L : now \in Int
    BY DEF Shaped, GetPairLocks
  <2>2. \A l \in R : DOMAIN l = LockFields /\ l.end \in Int
    BY <2>1, ReleasedShaped
  <2>3. /\ locks' = (locks \ L) \cup R /\ due' = StillDue(L)
        /\ UNCHANGED <<now, seen, open, closed, closing>>
    BY <1>11 DEF DeleteLock, Released
  <2> HIDE DEF L, R
  <2> QED
    BY <2>1, <2>2, <2>3, ReleaseStep
<1>12. CASE Tick
  <2>1. now' = now + 1 /\ UNCHANGED <<seen, locks, open, closed, closing, due>>
    BY <1>12 DEF Tick
  <2>2. \A i \in DOMAIN closed : closed[i].date \in Int
    <3>1. \A i \in DOMAIN closed : closed[i] \in Closed
      BY DEF Shaped
    <3> QED
      BY <3>1 DEF Closed
  <2>3. now \in Int /\ \A i \in DOMAIN closed : closed[i].date <= now
    BY DEF Shaped
  <2>4. now' \in Int /\ \A i \in DOMAIN closed : closed[i].date <= now'
    BY <2>1, <2>2, <2>3
  <2>5. Shaped'
    BY <2>1, <2>4 DEF Shaped
  <2>6. Enforced'
    BY <2>1 DEF Enforced
  <2> QED
    BY <2>5, <2>6
<1>13. CASE Restart
  BY <1>13 DEF Restart, Shaped, Enforced, NoClose, Closing
<1>14. CASE UNCHANGED vars
  BY <1>14 DEF vars, Shaped, Enforced
<1> QED
  BY <1>1, <1>2, <1>3, <1>4, <1>5, <1>6, <1>7, <1>8, <1>9, <1>10, <1>11, <1>12, <1>13, <1>14
     DEF Next, Users

-----------------------------------------------------------------------------
(* The types *)

AnyPair == Pairs \cup {Both}
AnySide == Sides \cup {Both}
AnyReason == Reasons \cup {"Auto lock"} \cup {Protections[i].kind : i \in DOMAIN Protections}
Demand == [pair : AnyPair, side : AnySide, until : Int]

\* The locks of a call are rows of the table.
LEMMA WithLockTyped ==
    ASSUME locks \subseteq LockType, NEW pair \in AnyPair, NEW until \in Int,
           NEW reason \in AnyReason, NEW side \in AnySide
    PROVE  WithLock(pair, until, reason, side) \subseteq LockType
<1>1. NextDate(until) \in Int
  BY NextDateLater
<1>2. [pair |-> pair, side |-> side, reason |-> reason, end |-> NextDate(until), active |-> TRUE]
        \in LockType
  BY <1>1 DEF LockType, AnyPair, AnySide, AnyReason
<1> QED
  BY <1>2 DEF WithLock

\* So are those that are released.
LEMMA ReleasedTyped ==
    ASSUME locks \subseteq LockType, NEW L \in SUBSET locks, NEW R,
           \A m \in R : \E l \in L, end \in Int : m = [l EXCEPT !.active = FALSE, !.end = end]
    PROVE  (locks \ L) \cup R \subseteq LockType
<1> DEFINE Freed(l, end) == [l EXCEPT !.active = FALSE, !.end = end]
<1>1. ASSUME NEW l \in LockType, NEW end \in Int
      PROVE  Freed(l, end) \in LockType
  BY DEF LockType
<1>2. \A m \in R : \E l \in L, end \in Int : m = Freed(l, end)
  OBVIOUS
<1>3. L \subseteq LockType
  OBVIOUS
<1> HIDE DEF Freed
<1>4. ASSUME NEW m \in R
      PROVE  m \in LockType
  <2>1. PICK l \in L, end \in Int : m = Freed(l, end)
    BY <1>2
  <2>2. l \in LockType
    BY <1>3
  <2> QED
    BY <1>1, <2>1, <2>2
<1> QED
  BY <1>4

\* What a protection returns is for the side of the trade, or for both.
LEMMA TriggerSides ==
    ASSUME Shaped, NEW i \in DOMAIN Protections, NEW pair, NEW side \in Sides,
           NEW r \in Trigger(Protections[i], pair, side)
    PROVE  r.side \in AnySide /\ r.until \in Int
<1>1. r.until \in Int
  BY TriggerTyped
<1>2. Protections[i] \in ProtectionType
  BY LocksAssumption
<1>3. r.side \in {side, Both}
  <2> DEFINE P == Protections[i]
             Lock(of) == {[until |-> LockEnd(P, of), side |-> IF P.perSide THEN side ELSE Both]}
  <2>1. P.kind \in {"CooldownPeriod", "StoplossGuard", "LowProfitPairs", "MaxDrawdown"}
    BY <1>2 DEF ProtectionType
  <2> HIDE DEF P
  <2>2. \/ Trigger(P, pair, side) = {}
        \/ \E T : Trigger(P, pair, side) = Lock(T)
    BY <2>1 DEF Trigger
  <2>3. r \in Trigger(P, pair, side)
    BY DEF P
  <2> QED
    BY <2>2, <2>3
<1> QED
  BY <1>1, <1>3 DEF AnySide

\* What stays of the demands when locks are released, and the call that does it.
LEMMA ReleaseTypes ==
    ASSUME TypeOK, calls < MaxCalls, calls' = calls + 1, NEW L, due' = StillDue(L)
    PROVE  calls' \in 0..MaxCalls /\ due' \subseteq Demand
  BY LocksAssumption DEF TypeOK, StillDue, Demand, AnyPair, AnySide

LEMMA InitTyped == ASSUME Init PROVE TypeOK
  BY LocksAssumption DEF Init, TypeOK

LEMMA NextTyped ==
    ASSUME IInv, TypeOK, [Next]_vars
    PROVE  TypeOK'
<1> USE DEF TypeOK
<1>1. ASSUME NEW p \in Pairs, CloseTrade(p)
      PROVE  TypeOK'
  <2>1. PICK o \in Outcomes :
           closed' = Append(closed, [pair |-> p, side |-> open[p], date |-> now - o.late,
                                     profit |-> o.profit, stop |-> o.stop])
    BY <1>1 DEF CloseTrade
  <2>2. open[p] \in Sides /\ now \in Int
    BY <1>1 DEF CloseTrade
  <2>3. o.late \in Nat /\ o.profit \in Int /\ o.stop \in BOOLEAN
    BY LocksAssumption
  <2>4. [pair |-> p, side |-> open[p], date |-> now - o.late, profit |-> o.profit,
         stop |-> o.stop] \in Closed
    BY <2>2, <2>3 DEF Closed
  <2>5. closed' \in Seq(Closed)
    BY <2>1, <2>4 DEF Closed
  <2>6. closing' \in [pair : Pairs, side : Sides, step : Nat]
    BY <1>1, <2>2 DEF CloseTrade
  <2> QED
    BY <1>1, <2>5, <2>6 DEF CloseTrade, Closed
<1>2. ASSUME NEW p \in Pairs, SkipPair(p)
      PROVE  TypeOK'
  BY <1>2 DEF SkipPair
<1>3. ASSUME NEW p \in Pairs, Refresh(p)
      PROVE  TypeOK'
  <2>1. seen' \in [Pairs -> Int]
    <3>1. Next
      BY <1>3 DEF Next
    <3> QED
      BY <3>1, NextInv DEF IInv, Shaped
  <2> QED
    BY <1>3, <2>1 DEF Refresh
<1>4. ASSUME NEW p \in Pairs, NEW s \in Sides, CreateTrade(p, s)
      PROVE  TypeOK'
  BY <1>4 DEF CreateTrade
<1>5. CASE AutoLock
  <2>1. closing \in [pair : Pairs, side : Sides, step : Nat]
    BY <1>5 DEF AutoLock
  <2>2. closing.pair \in AnyPair /\ closing.side \in AnySide /\ now \in Int
    BY <2>1 DEF AnyPair, AnySide
  <2>3. locks' \subseteq LockType
    <3>1. "Auto lock" \in AnyReason
      BY DEF AnyReason
    <3>2. locks' = WithLock(closing.pair, now, "Auto lock", closing.side)
      BY <1>5 DEF AutoLock
    <3> QED
      BY <2>2, <3>1, <3>2, WithLockTyped
  <2>4. due' \subseteq Demand
    <3>1. [pair |-> closing.pair, side |-> closing.side, until |-> now] \in Demand
      BY <2>2 DEF Demand
    <3>2. due \subseteq Demand
      BY DEF Demand, AnyPair, AnySide
    <3> QED
      BY <1>5, <3>1, <3>2 DEF AutoLock
  <2>5. closing' \in [pair : Pairs, side : Sides, step : Nat]
    BY <1>5, <2>1 DEF AutoLock
  <2> QED
    BY <1>5, <2>3, <2>4, <2>5 DEF AutoLock, Demand, AnyPair, AnySide
<1>6. CASE Protect
  <2> DEFINE n == Len(Protections)
             global == closing.step > n
             i == IF global THEN closing.step - n ELSE closing.step
             pair == IF global THEN Both ELSE closing.pair
             returned == Trigger(Protections[i], pair, closing.side)
  <2>1. i \in DOMAIN Protections
    BY <1>6, LocksAssumption DEF Protect, IInv, Shaped, Closing
  <2>2. closing \in [pair : Pairs, side : Sides, step : Nat]
    <3>1. NoClose.step = 0
      BY DEF NoClose
    <3>2. closing # NoClose
      BY <1>6, <3>1, LocksAssumption DEF Protect
    <3> QED
      BY <3>2
  <2>3. pair \in AnyPair /\ closing.side \in Sides
    BY <2>2 DEF AnyPair
  <2>4. /\ locks' = IF returned = {} THEN locks
                    ELSE ProtectionLock(CHOOSE r \in returned : TRUE, pair, Protections[i].kind)
        /\ due' = due \cup {[pair |-> pair, side |-> r.side, until |-> r.until] : r \in returned}
        /\ UNCHANGED <<now, seen, open, closed, entering, calls>>
        /\ closing' = [closing EXCEPT !.step = @ + 1]
    BY <1>6 DEF Protect
  <2>5. Protections[i].kind \in AnyReason
    BY <2>1 DEF AnyReason
  <2>6. \A r \in returned : r.side \in AnySide /\ r.until \in Int
    BY <2>1, <2>3, TriggerSides DEF IInv
  <2> HIDE DEF i, pair, returned
  <2>7. locks' \subseteq LockType
    <3>1. CASE returned = {}
      BY <2>4, <3>1
    <3>2. CASE returned # {}
      <4>1. PICK r : r = CHOOSE q \in returned : TRUE
        OBVIOUS
      <4>2. r.side \in AnySide /\ r.until \in Int
        BY <2>6, <3>2, <4>1
      <4>3. locks' = ProtectionLock(r, pair, Protections[i].kind)
        BY <2>4, <3>2, <4>1
      <4>4. WithLock(pair, r.until, Protections[i].kind, r.side) \subseteq LockType
        BY <2>3, <2>5, <4>2, WithLockTyped
      <4> QED
        BY <4>3, <4>4 DEF ProtectionLock
    <3> QED
      BY <3>1, <3>2
  <2>8. due' \subseteq Demand
    BY <2>3, <2>4, <2>6 DEF Demand, AnyPair, AnySide
  <2>9. closing' \in [pair : Pairs, side : Sides, step : Nat]
    <3>1. \A c \in [pair : Pairs, side : Sides, step : Nat] :
            [c EXCEPT !.step = @ + 1] \in [pair : Pairs, side : Sides, step : Nat]
      OBVIOUS
    <3> QED
      BY <2>2, <2>4, <3>1
  <2> QED
    BY <2>4, <2>7, <2>8, <2>9 DEF Demand, AnyPair, AnySide
<1>7. CASE ProtectionsDone \/ EnterPositions
  BY <1>7 DEF ProtectionsDone, EnterPositions
<1>8. ASSUME NEW p \in AnyPair, NEW s \in AnySide, NEW r \in Reasons, UserLock(p, s, r)
      PROVE  TypeOK'
  <2>1. PICK until \in Untils :
           /\ locks' = WithLock(p, until, r, s)
           /\ due' = due \cup {[pair |-> p, side |-> s, until |-> until]}
    BY <1>8 DEF UserLock
  <2>2. until \in Int /\ r \in AnyReason
    BY LocksAssumption DEF AnyReason
  <2>3. locks' \subseteq LockType
    BY <2>1, <2>2, WithLockTyped
  <2>4. due' \subseteq Demand
    BY <2>1, <2>2 DEF Demand, AnyPair, AnySide
  <2>5. calls' \in 0..MaxCalls
    BY <1>8, LocksAssumption DEF UserLock
  <2> QED
    BY <1>8, <2>3, <2>4, <2>5 DEF UserLock, Demand, AnyPair, AnySide
<1>9. ASSUME NEW p \in Pairs, UnlockPair(p)
      PROVE  TypeOK'
  <2> DEFINE L == GetPairLocks(p, now, Both)
             R == {[l EXCEPT !.active = FALSE, !.end = l.end] : l \in L}
  <2>1. L \subseteq locks /\ \A l \in L : l.end \in Int
    BY DEF IInv, Shaped, GetPairLocks
  <2>2. /\ locks' = (locks \ L) \cup R /\ due' = StillDue(L) /\ calls < MaxCalls
        /\ calls' = calls + 1 /\ UNCHANGED <<now, seen, open, closed, closing, entering>>
    BY <1>9 DEF UnlockPair, Released
  <2>3. \A m \in R : \E l \in L, end \in Int : m = [l EXCEPT !.active = FALSE, !.end = end]
    BY <2>1
  <2> HIDE DEF L, R
  <2>4. locks' \subseteq LockType
    <3>1. locks \subseteq LockType /\ L \in SUBSET locks
      BY <2>1
    <3>2. (locks \ L) \cup R \subseteq LockType
      BY <2>3, <3>1, ReleasedTyped
    <3> QED
      BY <2>2, <3>2
  <2>5. calls' \in 0..MaxCalls /\ due' \subseteq Demand
    BY <2>2, ReleaseTypes
  <2> QED
    BY <2>2, <2>4, <2>5 DEF Demand, AnyPair, AnySide
<1>10. ASSUME NEW r \in Reasons, UnlockReason(r)
       PROVE  TypeOK'
  <2> DEFINE L == {l \in locks : l.end > now /\ l.active /\ l.reason = r}
             R == {[l EXCEPT !.active = FALSE, !.end = l.end] : l \in L}
  <2>1. L \subseteq locks /\ \A l \in L : l.end \in Int
    BY DEF IInv, Shaped
  <2>2. /\ locks' = (locks \ L) \cup R /\ due' = StillDue(L) /\ calls < MaxCalls
        /\ calls' = calls + 1 /\ UNCHANGED <<now, seen, open, closed, closing, entering>>
    BY <1>10 DEF UnlockReason, Released
  <2>3. \A m \in R : \E l \in L, end \in Int : m = [l EXCEPT !.active = FALSE, !.end = end]
    BY <2>1
  <2> HIDE DEF L, R
  <2>4. locks' \subseteq LockType
    <3>1. locks \subseteq LockType /\ L \in SUBSET locks
      BY <2>1
    <3>2. (locks \ L) \cup R \subseteq LockType
      BY <2>3, <3>1, ReleasedTyped
    <3> QED
      BY <2>2, <3>2
  <2>5. calls' \in 0..MaxCalls /\ due' \subseteq Demand
    BY <2>2, ReleaseTypes
  <2> QED
    BY <2>2, <2>4, <2>5 DEF Demand, AnyPair, AnySide
<1>11. ASSUME NEW p \in Pairs, DeleteLocksOf(p)
       PROVE  TypeOK'
  <2> DEFINE L == {l \in locks : l.end > now /\ l.active /\ l.pair = p}
             R == {[l EXCEPT !.active = FALSE, !.end = now] : l \in L}
  <2>1. L \subseteq locks /\ now \in Int
    BY DEF IInv, Shaped
  <2>2. /\ locks' = (locks \ L) \cup R /\ due' = StillDue(L) /\ calls < MaxCalls
        /\ calls' = calls + 1 /\ UNCHANGED <<now, seen, open, closed, closing, entering>>
    BY <1>11 DEF DeleteLocksOf, Released
  <2>3. \A m \in R : \E l \in L, end \in Int : m = [l EXCEPT !.active = FALSE, !.end = end]
    BY <2>1
  <2> HIDE DEF L, R
  <2>4. locks' \subseteq LockType
    <3>1. locks \subseteq LockType /\ L \in SUBSET locks
      BY <2>1
    <3>2. (locks \ L) \cup R \subseteq LockType
      BY <2>3, <3>1, ReleasedTyped
    <3> QED
      BY <2>2, <3>2
  <2>5. calls' \in 0..MaxCalls /\ due' \subseteq Demand
    BY <2>2, ReleaseTypes
  <2> QED
    BY <2>2, <2>4, <2>5 DEF Demand, AnyPair, AnySide
<1>12. ASSUME NEW k \in locks, DeleteLock(k)
       PROVE  TypeOK'
  <2> DEFINE L == {k}
             R == {[l EXCEPT !.active = FALSE, !.end = now] : l \in L}
  <2>1. L \subseteq locks /\ now \in Int
    BY DEF IInv, Shaped
  <2>2. /\ locks' = (locks \ L) \cup R /\ due' = StillDue(L) /\ calls < MaxCalls
        /\ calls' = calls + 1 /\ UNCHANGED <<now, seen, open, closed, closing, entering>>
    BY <1>12 DEF DeleteLock, Released
  <2>3. \A m \in R : \E l \in L, end \in Int : m = [l EXCEPT !.active = FALSE, !.end = end]
    BY <2>1
  <2> HIDE DEF L, R
  <2>4. locks' \subseteq LockType
    <3>1. locks \subseteq LockType /\ L \in SUBSET locks
      BY <2>1
    <3>2. (locks \ L) \cup R \subseteq LockType
      BY <2>3, <3>1, ReleasedTyped
    <3> QED
      BY <2>2, <3>2
  <2>5. calls' \in 0..MaxCalls /\ due' \subseteq Demand
    BY <2>2, ReleaseTypes
  <2> QED
    BY <2>2, <2>4, <2>5 DEF Demand, AnyPair, AnySide
<1>13. CASE Tick
  BY <1>13, LocksAssumption DEF Tick
<1>14. CASE Restart
  BY <1>14 DEF Restart
<1>15. CASE UNCHANGED vars
  BY <1>15 DEF vars
<1>16. CASE Users
  BY <1>8, <1>9, <1>10, <1>11, <1>12, <1>16 DEF Users, AnyPair, AnySide
<1> QED
  BY <1>1, <1>2, <1>3, <1>4, <1>5, <1>6, <1>7, <1>13, <1>14, <1>15, <1>16 DEF Next

LEMMA AlwaysEnforced == Spec => []IInv
<1>1. Init => IInv
  BY InitInv
<1>2. IInv /\ [Next]_vars => IInv'
  BY NextInv
<1> QED
  BY <1>1, <1>2, PTL DEF Spec

-----------------------------------------------------------------------------
(* The theorems *)

\* The variables always have their types: whatever protections, callbacks and commands lock
\* and release, each row of the table has an end and one of the reasons in use, and no close
\* is left with a pair that does not exist.
THEOREM LocksTyped == Spec => []TypeOK
<1>1. Init => TypeOK
  BY InitTyped
<1>2. IInv /\ TypeOK /\ [Next]_vars => TypeOK'
  BY NextTyped
<1> QED
  BY <1>1, <1>2, AlwaysEnforced, PTL DEF Spec

\* What a protection, the automatic lock or a user demanded is enforced to its last minute,
\* for any protections in any order, although a lock is left out when another one reaches
\* further.
THEOREM DemandsAlwaysHold == Spec => []ProtectionHolds
<1>1. IInv => ProtectionHolds
  <2> SUFFICES ASSUME IInv, NEW d \in due, NEW p \in Pairs, NEW s \in Sides,
                      now <= d.until, d.pair \in {p, Both}, d.side \in {s, Both}
               PROVE  IsPairLocked(p, now, s)
    BY DEF ProtectionHolds
  <2>1. PICK l \in locks : Enforces(l, d)
    BY DEF IInv, Enforced
  <2>2. l.end \in Int /\ d.until \in Int /\ now \in Int
    BY DEF IInv, Shaped
  <2>3. l.active /\ l.end > now /\ l.pair \in {p, Both} /\ l.side \in {s, Both}
    BY <2>1, <2>2 DEF Enforces, Covers
  <2> QED
    BY <2>3 DEF IsPairLocked, IsGlobalLock, GetPairLocks
<1> QED
  BY <1>1, AlwaysEnforced, PTL

\* No pair is entered on a candle that ended before a demand on the pair was over, however far
\* the candles lag behind the clock: the lock of the demand is still in the table.
THEOREM EntriesAlwaysFresh == Spec => FreshEntries
<1>1. ASSUME IInv, [Next]_vars, NEW p \in Pairs, NEW s \in Sides, NEW d \in due,
             open[p] = "none", open'[p] = s, d.pair \in {p, Both}, d.side \in {s, Both}
      PROVE  d.until < seen[p] + Timeframe
  <2>1. \E q \in Pairs, t \in Sides : CreateTrade(q, t) /\ open' = [open EXCEPT ![q] = t]
    <3>1. open' # open
      BY <1>1 DEF Sides
    <3>2. ASSUME NEW q \in Pairs, CloseTrade(q)
          PROVE  FALSE
      <4>1. open' = [open EXCEPT ![q] = "none"]
        BY <3>2 DEF CloseTrade
      <4> QED
        BY <1>1, <4>1 DEF IInv, Shaped, Sides
    <3> QED
      BY <1>1, <3>1, <3>2
         DEF Next, vars, Users, SkipPair, Refresh, CreateTrade, AutoLock, Protect, ProtectionsDone,
             EnterPositions, UserLock, UnlockPair, DeleteLocksOf, UnlockReason, DeleteLock, Tick,
             Restart
  <2>2. CreateTrade(p, s)
    BY <1>1, <2>1 DEF IInv, Shaped, Sides
  <2>3. ~IsPairLocked(p, NextDate(seen[p]), s)
    BY <2>2 DEF CreateTrade
  <2>4. PICK l \in locks : Enforces(l, d)
    BY <1>1 DEF IInv, Enforced
  <2>5. seen[p] \in Int /\ l.end \in Int /\ d.until \in Int
    BY <1>1 DEF IInv, Shaped
  <2>6. NextDate(seen[p]) \in Int /\ NextDate(seen[p]) <= seen[p] + Timeframe
    BY <2>5, NextDateLater
  <2>7. ~(l.end > NextDate(seen[p]))
    BY <1>1, <2>3, <2>4 DEF IsPairLocked, IsGlobalLock, GetPairLocks, Enforces, Covers
  <2>8. l.end > d.until
    BY <2>4 DEF Enforces
  <2> QED
    BY <2>5, <2>6, <2>7, <2>8, LocksAssumption
<1>2. IInv /\ [Next]_vars =>
         [\A p \in Pairs, s \in Sides :
             open[p] = "none" /\ open'[p] = s =>
                 \A d \in due : d.pair \in {p, Both} /\ d.side \in {s, Both}
                                   => d.until < seen[p] + Timeframe]_vars
  BY <1>1
<1> QED
  BY <1>2, AlwaysEnforced, PTL DEF Spec, FreshEntries

=============================================================================
