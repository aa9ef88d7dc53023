CONSTANTS
    Pairs = {p1, p2, p3}
    MaxOpenTrades = 2
    Callers = {c1}
    MaxTrades = 4
    PositionAdjustment = FALSE
SPECIFICATION Spec
SYMMETRY Symmetry
INVARIANT OneTradePerPair
