SPECIFICATION FairSpec
CONSTANTS
  MaxTemp = 2
  Interval = 1
  Wrap = 4
  MaxLoop = 2
  MaxPresses = 3
  MaxFaults = 1
INVARIANTS TypeOK SwitchesAsAsked TemperatureAsAsked
PROPERTIES ReportsOnTime ListensAgain
CHECK_DEADLOCK FALSE
