------------------------- MODULE SignalStream_proof -------------------------
(***************************************************************************)
(* Proof about SignalStream: for any threshold, number of candles, faults  *)
(* and messages under way, the consumer's copy never has a hole.           *)
(***************************************************************************)
EXTENDS SignalStream, TLAPS

-----------------------------------------------------------------------------
(* The inductive invariant *)

\* The queues hold what their readers expect.
Typed ==
    /\ clock \in Nat /\ last \in 0..clock
    /\ up \in BOOLEAN /\ subscribed \in BOOLEAN
    /\ stream \in Seq(Nat) /\ messages \in Seq(Message)
    /\ requests \in Seq(Request) /\ wanted \in Seq(Request)
    /\ sender \in 1..Listening /\ faults \in 0..MaxFaults

\* The copy is an interval: unlike NoHoles this says what its newest candle is.
Interval == \E lo, hi \in Int : copy = lo..hi

Gapless == Typed /\ Interval

-----------------------------------------------------------------------------
(* Lemmas *)

\* The smaller of two numbers.
LEMMA MinOfTwo ==
    ASSUME NEW a \in Int, NEW b \in Int
    PROVE  Min({a, b}) \in Int
<1>1. \E x \in {a, b} : \A y \in {a, b} : x <= y
  <2>1. CASE a <= b
    BY <2>1
  <2>2. CASE ~(a <= b)
    BY <2>2
  <2> QED
    BY <2>1, <2>2
<1>2. Min({a, b}) \in {a, b}
  BY <1>1 DEF Min
<1> QED
  BY <1>2

\* The newest candle of an interval.
LEMMA MaxOfInterval ==
    ASSUME NEW lo \in Int, NEW hi \in Int, lo <= hi
    PROVE  Max(lo..hi) = hi
<1> DEFINE m == Max(lo..hi)
<1>1. hi \in lo..hi /\ \A y \in lo..hi : hi >= y
  OBVIOUS
<1>2. m \in lo..hi /\ \A y \in lo..hi : m >= y
  BY <1>1 DEF Max
<1> HIDE DEF m
<1>3. m = hi
  BY <1>1, <1>2
<1> QED
  BY <1>3 DEF m

\* The last candles of the producer make a message.
LEMMA LastCandlesType ==
    ASSUME Typed, NEW limit \in Nat
    PROVE  LastCandles(limit) \in Message
<1> DEFINE n == IF limit = Whole THEN Keep ELSE Min({limit, Keep})
<1>1. n \in Int
  BY MinOfTwo, StreamAssumption
<1>2. last - n + 1 \in Int /\ last \in Int
  BY <1>1 DEF Typed
<1>3. LastCandles(limit) = [first |-> last - n + 1, last |-> last]
  BY DEF LastCandles
<1> HIDE DEF n
<1> QED
  BY <1>2, <1>3 DEF Message

\* What is missing is asked for with a positive limit.
LEMMA MissingFacts ==
    ASSUME Interval, NEW m \in Message
    PROVE  /\ Missing(m) \in Nat
           /\ Missing(m) = 0 /\ ~Full(m)
                => \E lo, hi \in Int : copy = lo..hi /\ lo <= hi /\ m.first <= hi + 1
<1>1. PICK lo \in Int, hi \in Int : copy = lo..hi
  BY DEF Interval
<1>2. m.first \in Int /\ m.last \in Int
  BY DEF Message
<1>3. CASE lo <= hi
  <2>1. Max(copy) = hi /\ copy # {}
    BY <1>1, <1>3, MaxOfInterval
  <2>2. Missing(m) = IF Full(m) THEN 0 ELSE IF m.first - hi > 1 THEN m.first - hi ELSE 0
    BY <2>1 DEF Missing
  <2> QED
    BY <1>1, <1>2, <1>3, <2>2
<1>4. CASE ~(lo <= hi)
  <2>1. copy = {}
    BY <1>1, <1>4
  <2>2. Missing(m) = IF Full(m) THEN 0 ELSE 1000
    BY <2>1 DEF Missing
  <2> QED
    BY <2>2
<1> QED
  BY <1>3, <1>4

\* A message that fits leaves an interval.
LEMMA ExtendedFacts ==
    ASSUME Interval, NEW m \in Message, Missing(m) = 0
    PROVE  \E lo, hi \in Int : Extended(m) = lo..hi
<1>1. m.first \in Int /\ m.last \in Int
  BY DEF Message
<1>2. CASE Full(m)
  BY <1>1, <1>2 DEF Extended
<1>3. CASE ~Full(m)
  <2>1. PICK lo \in Int, hi \in Int : copy = lo..hi /\ lo <= hi /\ m.first <= hi + 1
    BY <1>3, MissingFacts
  <2>2. Extended(m) = {c \in lo..hi : c < m.first} \cup m.first..m.last
    BY <1>3, <2>1 DEF Extended
  <2>3. CASE m.first <= lo
    <3>1. {c \in lo..hi : c < m.first} = {}
      BY <1>1, <2>3
    <3> QED
      BY <1>1, <2>2, <3>1
  <2>4. CASE m.first > lo
    <3>1. {c \in lo..hi : c < m.first} = lo..(m.first - 1)
      BY <1>1, <2>1, <2>4
    <3>2. CASE m.last >= m.first
      <4>1. lo..(m.first - 1) \cup m.first..m.last = lo..m.last
        BY <1>1, <2>4, <3>2
      <4> QED
        BY <1>1, <2>2, <3>1, <4>1
    <3>3. CASE m.last < m.first
      <4>1. m.first..m.last = {}
        BY <1>1, <3>3
      <4>2. Extended(m) = lo..(m.first - 1) /\ m.first - 1 \in Int
        BY <1>1, <2>2, <3>1, <4>1
      <4> QED
        BY <4>2
    <3> QED
      BY <1>1, <3>2, <3>3
  <2> QED
    BY <1>1, <2>3, <2>4
<1> QED
  BY <1>2, <1>3

\* How far the sender gets.
LEMMA Senders ==
    /\ Throttled = 4 /\ Listening = 5 /\ DOMAIN InitialRequests = 1..3
    /\ 1 \in 1..Listening
BY DEF Throttled, Listening, InitialRequests

\* A lost link leaves queues of the right types.
LEMMA EmptyQueues ==
    <<>> \in Seq(Nat) /\ <<>> \in Seq(Message) /\ <<>> \in Seq(Request)
OBVIOUS

\* What the consumer asks for is a request.
LEMMA RequestTypes ==
    /\ \A n \in Nat : MissingRequest(n) \in Request
    /\ \A k \in DOMAIN InitialRequests : InitialRequests[k] \in Request
<1>1. \A n \in Nat : MissingRequest(n) \in Request
  <2> TAKE n \in Nat
  <2>1. n + 1 \in Nat /\ Whole \in Nat
    BY DEF Whole
  <2> QED
    BY <2>1 DEF MissingRequest, Request
<1>2. \A k \in DOMAIN InitialRequests : InitialRequests[k] \in Request
  <2>1. InitialRequests \in Seq(Request)
    BY DEF InitialRequests, Request, Whole
  <2> QED
    BY <2>1
<1> QED
  BY <1>1, <1>2

-----------------------------------------------------------------------------
(* The steps *)

\* Steps of the producer and of the link leave the copy alone.
LEMMA ProducerStep ==
    ASSUME Gapless, NewCandle \/ Analyze \/ Broadcast \/ Answer
    PROVE  Gapless'
<1> USE DEF Gapless, Typed, Interval, linkVars, producerVars
<1>1. CASE NewCandle
  BY <1>1 DEF NewCandle
<1>2. CASE Analyze
  BY <1>2 DEF Analyze
<1>3. CASE Broadcast
  <2>1. Head(stream) \in Nat /\ Tail(stream) \in Seq(Nat)
    BY <1>3 DEF Broadcast
  <2>2. [first |-> Head(stream), last |-> Head(stream)] \in Message
    BY <2>1 DEF Message
  <2>3. messages' \in Seq(Message)
    BY <1>3, <2>2 DEF Broadcast
  <2> QED
    BY <1>3, <2>1, <2>3 DEF Broadcast
<1>4. CASE Answer
  <2>1. Head(requests) \in Request /\ Tail(requests) \in Seq(Request)
    BY <1>4 DEF Answer
  <2>2. LastCandles(Head(requests).limit) \in Message
    BY <2>1, LastCandlesType DEF Request
  <2>3. messages' \in Seq(Message)
    BY <1>4, <2>2 DEF Answer
  <2> QED
    BY <1>4, <2>1, <2>3 DEF Answer
<1> QED
  BY <1>1, <1>2, <1>3, <1>4

\* Steps of the consumer's tasks.
LEMMA ConsumerStep ==
    ASSUME Gapless, Connect \/ SendInitial \/ Listen \/ SendWanted \/ Receive
    PROVE  Gapless'
<1> USE DEF Gapless, Typed, Interval, linkVars, producerVars
<1>1. CASE Connect
  BY <1>1, Senders DEF Connect
<1>2. CASE SendInitial
  <2>1. sender' \in 1..Listening
    BY <1>2, Senders DEF SendInitial
  <2> QED
    BY <1>2, <2>1, RequestTypes DEF SendInitial
<1>3. CASE Listen
  BY <1>3, Senders DEF Listen
<1>4. CASE SendWanted
  BY <1>4 DEF SendWanted
<1>5. CASE Receive
  <2> DEFINE m == Head(messages)
  <2>1. m \in Message /\ Tail(messages) \in Seq(Message)
    BY <1>5 DEF Receive
  <2>2. Missing(m) \in Nat
    BY <2>1, MissingFacts
  <2>3. Typed'
    <3>1. MissingRequest(Missing(m)) \in Request
      BY <2>2, RequestTypes
    <3>2. wanted' = wanted \/ wanted' = Append(wanted, MissingRequest(Missing(m)))
      BY <1>5 DEF Receive
    <3>3. wanted' \in Seq(Request)
      <4>1. wanted \in Seq(Request)
        OBVIOUS
      <4>2. \A r \in Request : Append(wanted, r) \in Seq(Request)
        BY <4>1
      <4> QED
        BY <3>1, <3>2, <4>1, <4>2, Zenon
    <3> QED
      BY <1>5, <2>1, <3>3 DEF Receive
  <2>4. Interval'
    <3>1. CASE Missing(m) = 0
      <4>1. copy' = Extended(m)
        BY <1>5, <3>1 DEF Receive
      <4>2. \E lo, hi \in Int : Extended(m) = lo..hi
        BY <2>1, <3>1, ExtendedFacts
      <4> QED
        BY <4>1, <4>2
    <3>2. CASE Missing(m) # 0
      BY <1>5, <3>2 DEF Receive
    <3> QED
      BY <3>1, <3>2
  <2> QED
    BY <2>3, <2>4
<1> QED
  BY <1>1, <1>2, <1>3, <1>4, <1>5

\* Faults empty the queues, and one of them the copy.
LEMMA FaultStep ==
    ASSUME Gapless, Disconnect \/ ProducerRestart \/ ConsumerRestart
    PROVE  Gapless'
<1> USE DEF Gapless, Typed, Interval, LinkLost, producerVars
<1>0. ASSUME faults < MaxFaults, faults' = faults + 1, sender' = 1
      PROVE  faults' \in 0..MaxFaults /\ sender' \in 1..Listening
  BY <1>0, StreamAssumption, Senders
<1>1. CASE Disconnect
  <2>1. faults' \in 0..MaxFaults /\ sender' \in 1..Listening
    BY <1>0, <1>1 DEF Disconnect
  <2> QED
    BY <1>1, <2>1, EmptyQueues DEF Disconnect
<1>2. CASE ProducerRestart
  <2>1. faults' \in 0..MaxFaults /\ sender' \in 1..Listening
    BY <1>0, <1>2 DEF ProducerRestart
  <2>2. last' \in 0..clock'
    BY <1>2 DEF ProducerRestart
  <2> QED
    BY <1>2, <2>1, <2>2, EmptyQueues DEF ProducerRestart
<1>3. CASE ConsumerRestart
  <2>1. copy' = 1..0
    BY <1>3 DEF ConsumerRestart
  <2>2. Interval'
    <3>1. \E lo, hi \in Int : copy' = lo..hi
      BY <2>1, 1 \in Int, 0 \in Int, Zenon
    <3> QED
      BY <3>1
  <2>3. Typed'
    <3>1. faults' \in 0..MaxFaults /\ sender' \in 1..Listening
      BY <1>0, <1>3 DEF ConsumerRestart
    <3> QED
      BY <1>3, <3>1, EmptyQueues DEF ConsumerRestart
  <2> QED
    BY <2>2, <2>3
<1> QED
  BY <1>1, <1>2, <1>3

-----------------------------------------------------------------------------
(* The theorems *)

LEMMA AlwaysGapless == Spec => []Gapless
<1>1. Init => Gapless
  <2> SUFFICES ASSUME Init
               PROVE  Gapless
    OBVIOUS
  <2>1. copy = 1..0
    BY DEF Init
  <2>2. Typed
    <3>1. clock \in Nat /\ last \in 0..clock /\ faults \in 0..MaxFaults
      BY StreamAssumption DEF Init
    <3>2. sender \in 1..Listening
      BY Senders DEF Init
    <3> QED
      BY <3>1, <3>2, EmptyQueues DEF Init, Typed
  <2> QED
    BY <2>1, <2>2 DEF Gapless, Interval
<1>2. Gapless /\ [Next]_vars => Gapless'
  <2> SUFFICES ASSUME Gapless, [Next]_vars
               PROVE  Gapless'
    OBVIOUS
  <2>1. CASE Next
    BY <2>1, ProducerStep, ConsumerStep, FaultStep DEF Next
  <2>2. CASE UNCHANGED vars
    BY <2>2 DEF Gapless, Typed, Interval, vars
  <2> QED
    BY <2>1, <2>2
<1> QED
  BY <1>1, <1>2, PTL DEF Spec

\* The variables always have their types: the tasks of both bots find in their queues what
\* they expect, the producer analyzes no candle that the market has not finished, and
\* _send_requests never gets past its loop.
THEOREM StreamTyped == Spec => []TypeOK
<1>1. Gapless => TypeOK
  BY DEF Gapless, Typed, Interval, TypeOK
<1> QED
  BY <1>1, AlwaysGapless, PTL

\* NoHoles of SignalStream: whatever is lost, late or answered out of order,
\* _add_external_df never leaves a hole in the consumer's copy.
THEOREM CopyNeverHasHoles == Spec => []NoHoles
<1>1. Gapless => NoHoles
  BY DEF Gapless, Interval, NoHoles
<1> QED
  BY <1>1, AlwaysGapless, PTL

=============================================================================
