SPECIFICATION Spec
CONSTANTS
    Pairs = {"A", "B"}
    Candles = 2
    Details = 2
    Limit = 1
    Stacking = FALSE
    CanShort = TRUE
    EntryAmount = 2
    AdjustAmount = 1
    MinStake = 1
    MaxTrades = 3
INVARIANTS CountIsExact OneOrder AmountsAgree NoEmptyTrade
PROPERTIES ReentryWaits KeepsSlots
