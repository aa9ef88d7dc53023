\* The exchange may not find an order that it holds; all commands.
SPECIFICATION Spec
CONSTANTS
  MaxOrders = 3
  EntryAmount = 2
  AdjustAmount = 1
  MinAmount = 1
  ExtraCoins = 0
  MaxTimeouts = 1
  MaxCrashes = 0
  Replacing = TRUE
  OrdersLost = TRUE
  Commands = {"forceexit", "cancel_open_order", "delete", "reload_trade", "stop"}
PROPERTY FillsNeverForgotten
