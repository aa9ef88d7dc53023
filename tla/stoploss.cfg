SPECIFICATION FairSpec
CONSTANTS
    Amount = 2
    AddAmount = 1
    PartAmount = 1
    ExtraCoins = 0
    MaxStops = 3
    MaxOrders = 2
    MaxFaults = 1
INVARIANTS StopsAgree    
PROPERTY Covered
