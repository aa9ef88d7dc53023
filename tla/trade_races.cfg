\* All handlers, no crash: races between the bot and the exchange.
SPECIFICATION Spec
CONSTANTS
  MaxOrders = 3
  EntryAmount = 3
  AdjustAmount = 1
  MinAmount = 2
  ExtraCoins = 0
  MaxTimeouts = 1
  MaxCrashes = 0
  Replacing = TRUE
  OrdersLost = FALSE
  Commands = {"forceexit", "cancel_open_order"}
INVARIANTS TypeOK FinalOrdersAgree  LedgerSound 
