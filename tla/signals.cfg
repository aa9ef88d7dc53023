\* A producer that publishes every analysis, two faults.
SPECIFICATION Spec
CONSTANTS
  FullThreshold = 4
  Keep = 4
  OnlyNewCandles = FALSE
  MaxClock = 8
  MaxInFlight = 3
  MaxFaults = 2
INVARIANTS NoHoles
PROPERTY CatchesUp
