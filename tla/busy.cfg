SPECIFICATION FairSpec
CONSTANTS
  first = first
  second = second
  Activities = {first, second}
  Faults = {"commit", "close", "death"}
  MaxTaps = 2
  MaxFaults = 1
PROPERTIES BusyEnds
