SPECIFICATION FSpec
CONSTANTS
 Rates = {7, 10, 11, 13}
 Ratios = {1,2}
 Whole = 10
 Leverage = 1
 Settings <- MCSettings
 MaxFills = 2
 Prices = {1, 2, 3}
 Unit = 50
 Capital = 300
 Asks = {40, 300}
 MinCost = 50
 Reserve = 0
 MaxLots = 3
 MaxOpen = 2
 MaxTrades = 2
 MaxOrders = 3
 Config <- MCConfig
INVARIANTS  GainsProtected   OrdersBuy
PROPERTIES StopOnlyTightens 
CHECK_DEADLOCK FALSE
