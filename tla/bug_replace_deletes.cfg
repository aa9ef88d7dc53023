\* replace_order_failed deletes a trade whose order is still live.
SPECIFICATION Spec
CONSTANTS
  MaxOrders = 2
  EntryAmount = 2
  AdjustAmount = 0
  MinAmount = 1
  ExtraCoins = 0
  MaxTimeouts = 0
  MaxCrashes = 0
  Replacing = TRUE
  OrdersLost = FALSE
  Commands = {}
PROPERTY DeletionIsSafe
