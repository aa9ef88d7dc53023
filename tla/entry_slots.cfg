\* Two RPC threads that force entries, beside the bot's own.
CONSTANTS
    Pairs = {p1, p2}
    MaxOpenTrades = 2
    Callers = {c1, c2}
    MaxTrades = 4
    PositionAdjustment = TRUE
SPECIFICATION Spec
SYMMETRY Symmetry
INVARIANTS BotKeepsPairsApart OvershootBounded
