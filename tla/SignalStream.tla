---------------------------- MODULE SignalStream ----------------------------
(***************************************************************************)
(* A consumer bot keeps a copy of the analyzed candles of a producer bot.  *)
(* The producer broadcasts the last candle of every analysis through a     *)
(* message stream (src/xplitrade/rpc/api_server/ws/) and answers requests   *)
(* (api_ws.py); the consumer (src/xplitrade/rpc/external_message_consumer.py)*)
(* adds what it receives to its copy and asks for what is missing          *)
(* (src/xplitrade/data/dataprovider.py).                                    *)
(*                                                                         *)
(* One pair is modelled.  Candles are numbered, so the copy is a set of    *)
(* numbers and a hole in it is visible.  The websocket is two queues that  *)
(* a disconnect empties; on both sides two tasks share the connection.     *)
(***************************************************************************)
EXTENDS Integers, Sequences, FiniteSets, FiniteSetsExt

CONSTANTS
    FullThreshold,    \* FULL_DATAFRAME_THRESHOLD: this many candles replace the copy
    Keep,             \* candles in the producer's dataframe
    OnlyNewCandles,   \* process_only_new_candles of the producer
    MaxClock,         \* bound: the last candle of the market
    MaxInFlight,      \* bound: messages under way when the producer publishes another one
    MaxFaults         \* bound: lost connections and restarts of the producer

ASSUME StreamAssumption ==
    /\ FullThreshold \in Nat \ {0, 1} /\ Keep \in Nat /\ Keep >= FullThreshold
    /\ OnlyNewCandles \in BOOLEAN
    /\ MaxClock \in Nat /\ MaxInFlight \in Nat /\ MaxFaults \in Nat

VARIABLES
    clock,       \* the newest complete candle of the market
    last,        \* the newest candle that the producer has analyzed, 0 for no analysis
    up,          \* the websocket is connected
    subscribed,  \* topics of the channel, on the producer's side
    stream,      \* published messages that channel_broadcaster has not taken yet
    requests,    \* under way to the producer
    messages,    \* under way to the consumer
    sender,      \* how far _send_requests has come
    wanted,      \* requests published in the consumer that it has not sent yet
    copy,        \* the consumer's dataframe
    faults       \* counts the faults

producerVars == <<clock, last>>
linkVars == <<up, subscribed, stream, requests, messages>>
vars == <<clock, last, up, subscribed, stream, requests, messages, sender, wanted, copy, faults>>

\* The initial requests; the limit of the third one is more than any dataframe has.
Whole == 0
InitialRequests == <<[type |-> "subscribe", limit |-> Whole],
                     [type |-> "whitelist", limit |-> Whole],
                     [type |-> "analyzed_df", limit |-> Whole]>>

\* After the initial requests the task sleeps (send_throttle) before it listens to its stream.
Throttled == Len(InitialRequests) + 1
Listening == Len(InitialRequests) + 2

InFlight == Len(stream) + Len(requests) + Len(messages) + Len(wanted)

\* The last candles of the producer's dataframe, as many as limit says.
LastCandles(limit) ==
    LET n == IF limit = Whole THEN Keep ELSE Min({limit, Keep})
    IN  [first |-> last - n + 1, last |-> last]

-----------------------------------------------------------------------------
(* The producer *)

NewCandle ==
    /\ clock < MaxClock
    /\ clock' = clock + 1
    /\ UNCHANGED <<last, linkVars, sender, wanted, copy, faults>>

\* _analyze_ticker_internal: the dataframe is cached and its last candle is published; only
\* the channels that listen at this moment will ever see it.
Analyze ==
    /\ last < clock \/ ~OnlyNewCandles
    /\ InFlight < MaxInFlight
    /\ last' = clock
    /\ stream' = IF up THEN Append(stream, clock) ELSE stream
    /\ UNCHANGED <<clock, up, subscribed, requests, messages, sender, wanted, copy, faults>>

\* channel_broadcaster
Broadcast ==
    /\ stream # <<>>
    /\ messages' = IF subscribed
                   THEN Append(messages, [first |-> Head(stream), last |-> Head(stream)])
                   ELSE messages
    /\ stream' = Tail(stream)
    /\ UNCHANGED <<producerVars, up, subscribed, requests, sender, wanted, copy, faults>>

\* channel_reader and _process_consumer_request.  The answer to a whitelist request, and one
\* with an empty dataframe, change nothing in the copy and are left out.
Answer ==
    /\ requests # <<>>
    /\ LET r == Head(requests) IN
       /\ subscribed' = (subscribed \/ r.type = "subscribe")
       /\ messages' = IF r.type = "analyzed_df" /\ last > 0
                      THEN Append(messages, LastCandles(r.limit)) ELSE messages
    /\ requests' = Tail(requests)
    /\ UNCHANGED <<producerVars, up, stream, sender, wanted, copy, faults>>

-----------------------------------------------------------------------------
(* The consumer *)

\* _create_connection: a new channel with a stream of its own; the tasks start.
Connect ==
    /\ ~up
    /\ up' = TRUE /\ sender' = 1 /\ wanted' = <<>>
    /\ UNCHANGED <<producerVars, subscribed, stream, requests, messages, copy, faults>>

\* _send_requests, up to its loop
SendInitial ==
    /\ up /\ sender \in DOMAIN InitialRequests
    /\ requests' = Append(requests, InitialRequests[sender])
    /\ sender' = sender + 1
    /\ UNCHANGED <<producerVars, up, subscribed, stream, messages, wanted, copy, faults>>

Listen ==
    /\ up /\ sender = Throttled
    /\ sender' = Listening
    /\ UNCHANGED <<producerVars, linkVars, wanted, copy, faults>>

\* _send_requests, its loop
SendWanted ==
    /\ up /\ wanted # <<>>
    /\ requests' = Append(requests, Head(wanted))
    /\ wanted' = Tail(wanted)
    /\ UNCHANGED <<producerVars, up, subscribed, stream, messages, sender, copy, faults>>

\* Enough candles to replace the copy.
Full(m) == m.last - m.first + 1 >= FullThreshold

\* Mutant: one missing candle is overlooked.
MutOneMissing(m) ==
    IF Full(m) THEN 0
    ELSE IF copy = {} THEN 1000
    ELSE IF m.first - Max(copy) > 2 THEN m.first - Max(copy) ELSE 0

\* _add_external_df: can the candles of m be added, and if not, how many are missing?
Missing(m) ==
    IF Full(m) THEN 0
    ELSE IF copy = {} THEN 1000
    ELSE IF m.first - Max(copy) > 1 THEN m.first - Max(copy) ELSE 0

\* The copy with the candles of m.
Extended(m) ==
    (IF Full(m) THEN {} ELSE {c \in copy : c < m.first}) \cup m.first..m.last

\* Mutant: no overlap, and nothing that makes up for it.
MutTooFew(n) ==
    [type |-> "analyzed_df", limit |-> IF n < FullThreshold THEN n - 1 ELSE Whole]

\* How many candles _consume_analyzed_df_message asks for: an overlap of one.
MissingRequest(n) ==
    [type |-> "analyzed_df", limit |-> IF n + 1 < FullThreshold THEN n + 1 ELSE Whole]

\* _receive_messages and _consume_analyzed_df_message.  A request that is published before
\* _send_requests listens is seen by nobody.
Receive ==
    /\ up /\ messages # <<>>
    /\ LET m == Head(messages)
           n == Missing(m)
       IN  IF n = 0
           THEN copy' = Extended(m) /\ UNCHANGED wanted
           ELSE /\ wanted' = IF sender = Listening THEN Append(wanted, MissingRequest(n))
                             ELSE wanted
                /\ UNCHANGED copy
    /\ messages' = Tail(messages)
    /\ UNCHANGED <<producerVars, up, subscribed, stream, requests, sender, faults>>

-----------------------------------------------------------------------------
(* Faults *)

\* A send or a ping that times out, or a lost connection, ends both channels with all that
\* was under way; _create_connection tries again.
LinkLost ==
    /\ up' = FALSE /\ subscribed' = FALSE
    /\ stream' = <<>> /\ requests' = <<>> /\ messages' = <<>> /\ wanted' = <<>>
    /\ sender' = 1

Disconnect ==
    /\ up /\ faults < MaxFaults
    /\ faults' = faults + 1
    /\ LinkLost
    /\ UNCHANGED <<producerVars, copy>>

\* The producer starts again without analyzed dataframes.
ProducerRestart ==
    /\ faults < MaxFaults
    /\ faults' = faults + 1
    /\ LinkLost /\ last' = 0
    /\ UNCHANGED <<clock, copy>>

\* The consumer starts again without a copy.
ConsumerRestart ==
    /\ faults < MaxFaults
    /\ faults' = faults + 1
    /\ LinkLost /\ copy' = {}
    /\ UNCHANGED producerVars

Init ==
    /\ clock = Keep /\ last = 0
    /\ up = FALSE /\ subscribed = FALSE
    /\ stream = <<>> /\ requests = <<>> /\ messages = <<>>
    /\ sender = 1 /\ wanted = <<>> /\ copy = {} /\ faults = 0

Next ==
    \/ NewCandle \/ Analyze \/ Broadcast \/ Answer
    \/ Connect \/ SendInitial \/ Listen \/ SendWanted \/ Receive
    \/ Disconnect \/ ProducerRestart \/ ConsumerRestart

\* The producer analyzes in every iteration of its loop, the tasks of a connection run, and a
\* lost connection is tried again for ever; nothing makes the market move or faults happen.
Fairness ==
    /\ WF_vars(Analyze) /\ WF_vars(Broadcast) /\ WF_vars(Answer)
    /\ WF_vars(Connect) /\ WF_vars(SendInitial) /\ WF_vars(Listen)
    /\ WF_vars(SendWanted) /\ WF_vars(Receive)

Spec == Init /\ [][Next]_vars /\ Fairness

-----------------------------------------------------------------------------
(* Properties *)

Message == [first : Int, last : Int]
Request == [type : {"subscribe", "whitelist", "analyzed_df"}, limit : Nat]

\* Types of the variables.
TypeOK ==
    /\ clock \in Nat /\ last \in 0..clock
    /\ up \in BOOLEAN /\ subscribed \in BOOLEAN
    /\ stream \in Seq(Nat) /\ requests \in Seq(Request) /\ messages \in Seq(Message)
    /\ sender \in 1..Listening /\ wanted \in Seq(Request)
    /\ copy \subseteq Int /\ faults \in 0..MaxFaults

\* The indicators and signals of the copy are computed on consecutive candles: whatever is
\* lost, late or answered out of order, the copy has no holes (_add_external_df).
NoHoles ==
    \A a, b \in copy : \A c \in a..b : c \in copy

\* When the faults end, the copy catches up with the market and stays there, although
\* requests that were published too early are lost and late broadcasts cut the copy off.
CatchesUp ==
    <>[](copy # {} /\ Max(copy) = clock /\ Cardinality(copy) >= FullThreshold)

=============================================================================
