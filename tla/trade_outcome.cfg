\* Histories of four orders with crashes, replacement and commands: outcomes, records, deletions.
SPECIFICATION FairSpec
CONSTANTS
  MaxOrders = 4
  EntryAmount = 2
  AdjustAmount = 0
  MinAmount = 1
  ExtraCoins = 0
  MaxTimeouts = 1
  MaxCrashes = 1
  Replacing = TRUE
  OrdersLost = FALSE
  Commands = {"cancel_open_order", "delete"}
INVARIANTS RecordsSound NoTradeLeftEmpty
PROPERTIES OutcomeRecorded DeletionsSafe KeepsRecords
