SPECIFICATION Spec
CONSTANTS
  first = first
  second = second
  Activities = {first, second}
  Faults = {"commit", "close", "death"}
  MaxTaps = 3
  MaxFaults = 2
SYMMETRY ActivitySymmetry
INVARIANTS TypeOK AlwaysAWayOn
PROPERTIES KeepsPromise
