\* Three RPC threads; fairness of the worker and of commands under way.
CONSTANTS
    Handlers = {h1, h2, h3}
    InitialStates = {"RUNNING", "PAUSED", "STOPPED"}
SPECIFICATION FairSpec
INVARIANTS TypeOK StartedBeforeTrading StopBoundsTrading
PROPERTY StopObeyed
