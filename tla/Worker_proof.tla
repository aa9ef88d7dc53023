---------------------------- MODULE Worker_proof ----------------------------
(* Proofs about Worker, for any number of RPC threads and any initial states. *)
EXTENDS Worker, TLAPS

CommandsAt ==
    [cmd : Commands \cup {"none"}, at : {"constructing", "ready", "reloading", "none"}]

\* No RPC thread is at work where none is attached.
Detached == ~Attached => \A h \in Handlers : handler[h] = "idle"

\* What the worker has read last decides on startup(): where it was a trading state,
\* startup() is under way or was called.
Started == worker.pc \notin {"startup", "dead"} /\ worker.read \in Trading => started

\* Why at most one process() begins after /stop: the state is STOPPED, so the worker can
\* only finish the round it is in, and that round begins process() once at most.
StopHolds ==
    Stopping =>
      /\ state = "STOPPED" /\ ~since.entered
      /\ worker.pc \notin {"construct", "attached", "cleanup", "dead"}
      /\ since.begun = 0 \/ (since.begun = 1 /\ worker.pc \notin {"startup", "trade"})

Control == TypeOK /\ Detached /\ Started /\ StopHolds

-----------------------------------------------------------------------------
\* Before anything has begun, the count is zero.
LEMMA NothingTyped == Nothing \in [begun : 0 .. 2, entered : BOOLEAN]
<1>1. 0 \in 0 .. 2 /\ FALSE \in BOOLEAN
  OBVIOUS
<1> QED BY <1>1, Zenon DEF Nothing

\* Each step of the worker preserves the invariant.
LEMMA WorkerKeeps ==
    ASSUME Control, WorkerStep
    PROVE  Control'
<1>1. CASE AttachRPC
  BY <1>1 DEF AttachRPC, Control, TypeOK, Detached, Started, Trading, StopHolds,
    Stopping, Attached, WorkerPcs
<1>2. CASE SetInitialState
  BY <1>2, ConfigAssumption DEF SetInitialState, Control, TypeOK, Detached, Started,
    Trading, StopHolds, Stopping, Attached, WorkerPcs, States
<1>3. CASE ReadState
  BY <1>3 DEF ReadState, StartupDue, Branch, Control, TypeOK, Detached, Started,
    Trading, StopHolds, Stopping, Attached, WorkerPcs, States
<1>4. CASE StartupDone
  BY <1>4 DEF StartupDone, Control, TypeOK, Detached, Started, Trading, StopHolds,
    Stopping, Attached, WorkerPcs
<1>5. CASE ProcessStopped
  BY <1>5 DEF ProcessStopped, Control, TypeOK, Detached, Started, Trading,
    StopHolds, Stopping, Attached, WorkerPcs
<1>6. CASE BeginProcess
  BY <1>6 DEF BeginProcess, Control, TypeOK, Detached, Started, Trading, StopHolds,
    Stopping, Attached, WorkerPcs
<1>7. CASE BeginEntries
  BY <1>7 DEF BeginEntries, MayEnter, Control, TypeOK, Detached, Started, Trading,
    StopHolds, Stopping, Attached, WorkerPcs
<1>8. CASE EndProcess
  BY <1>8 DEF EndProcess, Control, TypeOK, Detached, Started, Trading, StopHolds,
    Stopping, Attached, WorkerPcs
<1>9. CASE ProcessFails
  BY <1>9 DEF ProcessFails, Control, TypeOK, Detached, Started, Trading, StopHolds,
    Stopping, Attached, WorkerPcs
<1>10. CASE StopAfterFailure
  BY <1>10 DEF StopAfterFailure, Control, TypeOK, Detached, Started, Trading,
    StopHolds, Stopping, Attached, WorkerPcs, States
<1>11. CASE Reconfigure
  BY <1>11 DEF Reconfigure, NoCommand, Control, TypeOK, Detached, Started,
    Trading, StopHolds, Stopping, Attached, WorkerPcs, States
<1> QED BY <1>1, <1>2, <1>3, <1>4, <1>5, <1>6, <1>7, <1>8, <1>9, <1>10, <1>11 DEF WorkerStep

-----------------------------------------------------------------------------
\* Where a command finds the worker: never in two places at once.
LEMMA WhereTyped ==
    /\ Where \in {"constructing", "ready", "reloading"}
    /\ (Where = "ready") <=> worker.pc \notin {"construct", "attached", "cleanup"}
BY DEF Where, Constructing

\* An answered command leaves nothing begun, and only /stop sets Stopping.
LEMMA Accepted ==
    ASSUME NEW cmd \in Commands, Accept(cmd)
    PROVE  /\ trusted' \in CommandsAt /\ since' = Nothing
           /\ Stopping' <=> (cmd = "stop" /\ Where = "ready")
BY WhereTyped DEF Accept, Stopping, CommandsAt

\* Each step of an RPC thread preserves the invariant.
LEMMA HandlerKeeps ==
    ASSUME Control, NEW h \in Handlers, Receive(h) \/ HandlerStep(h)
    PROVE  Control'
<1> USE DEF Control
<1>1. Attached
  <2>1. handler[h] # "idle" => Attached
    BY DEF Detached
  <2> QED BY <2>1 DEF Receive, HandlerStep, Start, Stop, PauseRunning, PauseTest, PauseStopped,
    WriteState, Answer, Go
<1>2. worker' = worker /\ started' = started
  BY DEF Receive, HandlerStep, Start, Stop, PauseRunning, PauseTest, PauseStopped,
    WriteState, Answer, Go
<1>3. state' \in States /\ handler' \in [Handlers -> HandlerPcs]
  BY DEF Receive, HandlerStep, Start, Stop, PauseRunning, PauseTest, PauseStopped,
    WriteState, Answer, Go, TypeOK, States, HandlerPcs
<1>4. \/ UNCHANGED <<state, trusted, since>>
      \/ \E cmd \in Commands : Accept(cmd) /\ (cmd = "stop" => state' = "STOPPED")
  BY DEF Receive, HandlerStep, Start, Stop, PauseRunning, PauseTest, PauseStopped,
    WriteState, Answer, Go, NeedsStop, Commands
<1>5. CASE UNCHANGED <<state, trusted, since>>
  BY <1>1, <1>2, <1>3, <1>5 DEF TypeOK, Detached, Started, Trading, StopHolds,
    Stopping, Attached
<1>6. CASE \E cmd \in Commands : Accept(cmd) /\ (cmd = "stop" => state' = "STOPPED")
  <2> PICK cmd \in Commands : Accept(cmd) /\ (cmd = "stop" => state' = "STOPPED")
    BY <1>6
  <2>1. TypeOK'
    <3>1. since' \in [begun : 0 .. 2, entered : BOOLEAN]
      BY Accepted, NothingTyped
    <3>2. trusted' \in CommandsAt
      BY Accepted
    <3> QED BY <1>2, <1>3, <3>1, <3>2 DEF TypeOK, CommandsAt
  <2>2. Detached' /\ Started'
    BY <1>1, <1>2 DEF Detached, Attached, Started
  <2>3. StopHolds'
    BY <1>1, <1>2, Accepted, WhereTyped DEF StopHolds, Attached, Nothing
  <2> QED BY <2>1, <2>2, <2>3
<1> QED BY <1>4, <1>5, <1>6

-----------------------------------------------------------------------------
LEMMA ControlInductive == Init /\ [][Next]_vars => []Control
<1>1. Init => Control
  <2> SUFFICES ASSUME Init PROVE Control
    OBVIOUS
  <2>1. TypeOK
    BY NothingTyped DEF Init, TypeOK, NoCommand, WorkerPcs, States, HandlerPcs
  <2>2. Detached /\ Started /\ StopHolds
    BY DEF Init, Detached, Started, Trading, StopHolds, Stopping, NoCommand
  <2> QED BY <2>1, <2>2 DEF Control
<1>2. Control /\ [Next]_vars => Control'
  <2> SUFFICES ASSUME Control, [Next]_vars PROVE Control'
    OBVIOUS
  <2>1. CASE WorkerStep
    BY <2>1, WorkerKeeps
  <2>2. CASE \E h \in Handlers : Receive(h) \/ HandlerStep(h)
    BY <2>2, HandlerKeeps
  <2>3. CASE Die
    BY <2>3 DEF Die, NoCommand, Nothing, Control, TypeOK, Detached, Started,
      Trading, StopHolds, Stopping, Attached, WorkerPcs, HandlerPcs
  <2>4. CASE Restart
    BY <2>4 DEF Restart, Control, TypeOK, Detached, Started, Trading, StopHolds,
      Stopping, Attached, WorkerPcs, States
  <2>5. CASE UNCHANGED vars
    BY <2>5 DEF vars, Control, TypeOK, Detached, Started, Trading, StopHolds,
      Stopping, Attached
  <2> QED BY <2>1, <2>2, <2>3, <2>4, <2>5 DEF Next
<1> QED BY <1>1, <1>2, PTL

\* Every variable keeps its type, and each branch of the worker's loop is taken in the
\* state that calls for it, with any number of RPC threads.
THEOREM WorkerTyped == Spec => []TypeOK
<1>1. Control => TypeOK
  BY DEF Control
<1> QED BY <1>1, ControlInductive, PTL DEF Spec

\* process() never runs on an instance that startup() has not prepared since it was
\* constructed or stopped, however commands and reloads interleave.
THEOREM NeverTradesUnstarted == Spec => []StartedBeforeTrading
<1>1. Control => StartedBeforeTrading
  BY DEF Control, Started, TypeOK, StartedBeforeTrading
<1> QED BY <1>1, ControlInductive, PTL DEF Spec

\* Once /stop is answered by a bot that is ready, at most one process() begins and no
\* entries are looked for, with any number of RPC threads.
THEOREM StopAlwaysBoundsTrading == Spec => []StopBoundsTrading
<1>1. Control => StopBoundsTrading
  BY DEF Control, StopHolds, Stopping, StopBoundsTrading
<1> QED BY <1>1, ControlInductive, PTL DEF Spec
=============================================================================
