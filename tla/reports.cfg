SPECIFICATION BoardSpec
CONSTANTS
  None = None
  Refused = Refused
  MaxMinor = 999
  MaxCount = 11
  MaxCoefficient = 999999
  MaxPages = 2
  MaxEdits = 2
  Summaries <- InstanceSummaries
  Pages <- InstancePages
  Starts <- InstanceStarts
  Boards <- InstanceBoards
  RuleSets <- InstanceRuleSets
  Owners <- InstanceOwners
INVARIANTS BoardTypes SpendExact CompleteOrUnknown BucketsAddUp InstantsAgree SpentIsLimited WindowsToldApart AllOrNothing AlertsAreSeen EditsConverge
PROPERTIES PagesOnlyAdd
