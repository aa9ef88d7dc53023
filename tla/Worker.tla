------------------------------- MODULE Worker -------------------------------
(***************************************************************************)
(* The worker's loop (src/xplitrade/worker.py), the life of the bot's      *)
(* instance that it drives (construction, startup, process, cleanup and    *)
(* replacement; src/xplitrade/xplitradebot.py) and the commands that the    *)
(* RPC threads accept meanwhile (_rpc_start, _rpc_stop, _rpc_pause and     *)
(* _rpc_reload_config of src/xplitrade/rpc/rpc.py).                        *)
(*                                                                         *)
(* All of them meet in one variable, XplitradeBot.state, which nothing      *)
(* protects: each read and each write of it is a step of its own here.     *)
(***************************************************************************)
EXTENDS Naturals, FiniteSets

CONSTANTS
    Handlers,      \* RPC threads: Telegram's, and those of the API server
    InitialStates  \* what initial_state may say in the configuration

ASSUME ConfigAssumption == InitialStates \subseteq {"RUNNING", "PAUSED", "STOPPED"}

VARIABLES
    state,    \* XplitradeBot.state of the present instance
    worker,   \* the worker's thread: where it is, and the state it has read last
    handler,  \* the RPC threads
    trusted,  \* ghost: the last accepted command, and where the worker was then
    since,    \* ghost: what the worker has begun since then
    started   \* ghost: startup() was called since construction or the last stop

vars == <<state, worker, handler, trusted, since, started>>

States == {"RUNNING", "PAUSED", "STOPPED", "RELOAD_CONFIG"}
Trading == {"RUNNING", "PAUSED"}
Commands == {"start", "stop", "pause", "reload"}

\* Construction, up to the last line of __init__; the RPC threads run from "attached" on.
Constructing == {"construct", "attached"}

NoCommand == [cmd |-> "none", at |-> "none"]
Nothing == [begun |-> 0, entered |-> FALSE]

Init ==
    /\ state = "STOPPED"
    /\ worker = [pc |-> "construct", read |-> "none"]
    /\ handler = [h \in Handlers |-> "idle"]
    /\ trusted = NoCommand /\ since = Nothing /\ started = FALSE

-----------------------------------------------------------------------------
(* The worker *)

\* RPCManager is created and starts its threads; the state is the STOPPED that
\* __init__ began with.
AttachRPC ==
    /\ worker.pc = "construct"
    /\ worker' = [worker EXCEPT !.pc = "attached"]
    /\ UNCHANGED <<state, handler, trusted, since, started>>

\* The initial state, set after the pairlists were loaded.
SetInitialState ==
    /\ worker.pc = "attached"
    /\ state' \in InitialStates
    /\ worker' = [worker EXCEPT !.pc = "loop"]
    /\ UNCHANGED <<handler, trusted, since, started>>

\* Mutant: only a bot that was stopped is started.
MutStartupAfterStop(old, new) == new \in Trading /\ old = "STOPPED"

\* startup() is due when the bot begins to trade, after another state or none.
StartupDue(old, new) == new \in Trading /\ old \notin Trading

\* Mutant: a paused bot does what a stopped one does.
MutPausedIdles(new) ==
    IF new = "RELOAD_CONFIG" THEN "cleanup" ELSE IF new = "RUNNING" THEN "trade" ELSE "stopped"

\* What _worker and run do in a state.
Branch(new) ==
    CASE new = "STOPPED" -> "stopped"
      [] new \in Trading -> "trade"
      [] OTHER -> "cleanup"

\* One call of _worker begins: it reads the state once.
ReadState ==
    /\ worker.pc = "loop"
    /\ worker' = [pc |-> IF StartupDue(worker.read, state) THEN "startup" ELSE Branch(state),
                  read |-> state]
    /\ UNCHANGED <<state, handler, trusted, since, started>>

StartupDone ==
    /\ worker.pc = "startup"
    /\ worker' = [worker EXCEPT !.pc = "trade"]
    /\ started' = TRUE
    /\ UNCHANGED <<state, handler, trusted, since>>

ProcessStopped ==
    /\ worker.pc = "stopped"
    /\ worker' = [worker EXCEPT !.pc = "loop"]
    /\ started' = FALSE
    /\ UNCHANGED <<state, handler, trusted, since>>

\* process() begins: orders, exits and adjustments come first.
BeginProcess ==
    /\ worker.pc = "trade"
    /\ worker' = [worker EXCEPT !.pc = "process"]
    /\ since' = [since EXCEPT !.begun = IF @ = 2 THEN 2 ELSE @ + 1]
    /\ UNCHANGED <<state, handler, trusted, started>>

\* Mutant: entries depend on the state that the worker read before process().
MutStateAtBegin == worker.read = "RUNNING"

\* process() reads the state again before it looks for entries.
MayEnter == state = "RUNNING"

\* The last part of process(): there are free slots, or there are none.
BeginEntries ==
    /\ worker.pc = "process"
    /\ worker' = [worker EXCEPT !.pc = "entries"]
    /\ \/ MayEnter /\ since' = [since EXCEPT !.entered = TRUE]
       \/ UNCHANGED since
    /\ UNCHANGED <<state, handler, trusted, started>>

\* process() returns, or _process_running waits after a TemporaryError.
EndProcess ==
    /\ worker.pc \in {"process", "entries"}
    /\ worker' = [worker EXCEPT !.pc = "loop"]
    /\ UNCHANGED <<state, handler, trusted, since, started>>

\* process() raises an OperationalException; the user is told first.
ProcessFails ==
    /\ worker.pc \in {"process", "entries"}
    /\ worker' = [worker EXCEPT !.pc = "failed"]
    /\ UNCHANGED <<state, handler, trusted, since, started>>

StopAfterFailure ==
    /\ worker.pc = "failed"
    /\ state' = "STOPPED"
    /\ worker' = [worker EXCEPT !.pc = "loop"]
    /\ UNCHANGED <<handler, trusted, since, started>>

\* cleanup() of _reconfigure: the RPC modules are the last to go, and each waits for the
\* requests it is serving.  The next instance reads the new configuration.
Reconfigure ==
    /\ worker.pc = "cleanup"
    /\ \A h \in Handlers : handler[h] = "idle"
    /\ state' = "STOPPED"
    /\ worker' = [worker EXCEPT !.pc = "construct"]
    /\ started' = FALSE
    /\ trusted' = IF trusted.cmd = "reload" THEN NoCommand ELSE trusted
    /\ UNCHANGED <<handler, since>>

\* A signal, a crash, or an error that _process_running does not handle.
Die ==
    /\ worker.pc # "dead"
    /\ worker' = [worker EXCEPT !.pc = "dead"]
    /\ handler' = [h \in Handlers |-> "idle"]
    /\ trusted' = NoCommand /\ since' = Nothing
    /\ UNCHANGED <<state, started>>

Restart ==
    /\ worker.pc = "dead"
    /\ state' = "STOPPED"
    /\ worker' = [pc |-> "construct", read |-> "none"]
    /\ started' = FALSE
    /\ UNCHANGED <<handler, trusted, since>>

-----------------------------------------------------------------------------
(* The RPC threads *)

Attached == worker.pc \notin {"construct", "dead"}

\* Where the worker is when a command is accepted.
Where ==
    CASE worker.pc \in Constructing -> "constructing"
      [] worker.pc = "cleanup" -> "reloading"
      [] OTHER -> "ready"

\* The command takes effect, by the write or the last read of the state it takes.
Accept(cmd) ==
    /\ trusted' = [cmd |-> cmd, at |-> Where]
    /\ since' = Nothing

\* Mutant: stopping is for a running bot only.
MutStopsRunningOnly == state = "RUNNING"

NeedsStop == state # "STOPPED"

\* A thread reads the state and, on what it has read, will go on with pc.
Go(h, from, pc) ==
    /\ handler[h] = from
    /\ handler' = [handler EXCEPT ![h] = pc]
    /\ UNCHANGED <<state, worker, trusted, since, started>>

\* A thread answers without having to write: the read was its last step.
Answer(h, from, cmd) ==
    /\ handler[h] = from
    /\ handler' = [handler EXCEPT ![h] = "idle"]
    /\ Accept(cmd)
    /\ UNCHANGED <<state, worker, started>>

\* A thread writes the state that it has decided on, and answers.
WriteState(h, from, cmd, new) ==
    /\ handler[h] = from
    /\ state' = new
    /\ handler' = [handler EXCEPT ![h] = "idle"]
    /\ Accept(cmd)
    /\ UNCHANGED <<worker, started>>

\* A command arrives: the first test of each handler.
Receive(h) ==
    /\ Attached
    /\ \/ state = "RUNNING" /\ Answer(h, "idle", "start")
       \/ state # "RUNNING" /\ Go(h, "idle", "starting")
       \/ ~NeedsStop /\ Answer(h, "idle", "stop")
       \/ NeedsStop /\ Go(h, "idle", "stopping")
       \/ WriteState(h, "idle", "reload", "RELOAD_CONFIG")
       \/ Go(h, "idle", IF state = "RUNNING" THEN "pausing" ELSE "testing")

Start(h) == WriteState(h, "starting", "start", "RUNNING")

Stop(h) == WriteState(h, "stopping", "stop", "STOPPED")

\* _rpc_pause writes PAUSED for a running bot and then tests the state once more.
PauseRunning(h) ==
    /\ handler[h] = "pausing"
    /\ state' = "PAUSED"
    /\ handler' = [handler EXCEPT ![h] = "testing"]
    /\ Accept("pause")
    /\ UNCHANGED <<worker, started>>

PauseTest(h) ==
    \/ state = "STOPPED" /\ Go(h, "testing", "waking")
    \/ state # "STOPPED" /\ Answer(h, "testing", "pause")

PauseStopped(h) == WriteState(h, "waking", "pause", "PAUSED")

-----------------------------------------------------------------------------
WorkerStep ==
    \/ AttachRPC \/ SetInitialState \/ ReadState \/ StartupDone \/ ProcessStopped
    \/ BeginProcess \/ BeginEntries \/ EndProcess \/ ProcessFails \/ StopAfterFailure
    \/ Reconfigure

HandlerStep(h) ==
    Start(h) \/ Stop(h) \/ PauseRunning(h) \/ PauseTest(h) \/ PauseStopped(h)

Next ==
    \/ WorkerStep \/ Die \/ Restart
    \/ \E h \in Handlers : Receive(h) \/ HandlerStep(h)

Spec == Init /\ [][Next]_vars

\* The worker's thread goes on: every call it makes to the exchange has a timeout.  So do
\* the RPC threads with a command they have begun.  That the process ends, and that it is
\* started again, is never assumed.
FairSpec == Spec /\ WF_vars(WorkerStep) /\ \A h \in Handlers : WF_vars(HandlerStep(h))

-----------------------------------------------------------------------------
(* Properties *)

WorkerPcs ==
    {"construct", "attached", "loop", "startup", "stopped", "trade", "process", "entries",
     "failed", "cleanup", "dead"}

HandlerPcs == {"idle", "starting", "stopping", "pausing", "testing", "waking"}

\* The variables have their types, and each branch of the loop is taken in its state.
TypeOK ==
    /\ state \in States
    /\ worker \in [pc : WorkerPcs, read : States \cup {"none"}]
    /\ handler \in [Handlers -> HandlerPcs]
    /\ trusted \in [cmd : Commands \cup {"none"},
                    at : {"constructing", "ready", "reloading", "none"}]
    /\ since \in [begun : 0 .. 2, entered : BOOLEAN]
    /\ started \in BOOLEAN
    /\ worker.pc \in {"startup", "trade", "process", "entries", "failed"} => worker.read \in Trading
    /\ worker.pc = "stopped" => worker.read = "STOPPED"
    /\ worker.pc = "cleanup" => worker.read = "RELOAD_CONFIG"

\* The bot never trades without startup(): not after construction, not after a reload and
\* not after it was stopped, whatever states the commands made it skip in between.
StartedBeforeTrading == worker.pc \in {"trade", "process", "entries", "failed"} => started

\* After /stop was answered, and no other command, at most one more process() begins, and
\* it looks for no entries.
StopBoundsTrading ==
    trusted = [cmd |-> "stop", at |-> "ready"] => since.begun <= 1 /\ ~since.entered

Stopping == trusted = [cmd |-> "stop", at |-> "ready"]

\* A bot that was told to stop gets to process_stopped, which cancels the open orders,
\* unless another command comes or the process ends.
StopObeyed == Stopping ~> (worker.pc \in {"stopped", "dead"} \/ ~Stopping)

\* What the code does not keep: "Anything in the Xplitradebot instance should be ready (initialized), including the
\* initial state of the bot" when the RPC threads start, says the comment in __init__: a
\* stop that is answered while the bot is constructed is obeyed as any other.
StopAtStartObeyed == trusted = [cmd |-> "stop", at |-> "constructing"] => since.begun <= 1

=============================================================================
