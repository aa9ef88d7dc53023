\* All protections, users that lock and unlock at any moment.
SPECIFICATION Spec
CONSTANTS
  p1 = p1
  Pairs = {p1}
  Timeframe = 2
  Day = 4
  Protections <- AllProtections
  Outcomes <- TwoOutcomes
  Untils = {3}
  Reasons = {"user"}
  MaxNow = 4
  MaxTrades = 2
  MaxCalls = 1
INVARIANTS ProtectionHolds
 
CHECK_DEADLOCK FALSE
