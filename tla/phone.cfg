SPECIFICATION Spec
CONSTANTS
  e1 = e1
  e2 = e2
  w1 = w1
  Edits = {e1, e2}
  Windows = {w1}
  NoSnapshot = NoSnapshot
  Budgets <- InstanceBudgets
  MaxAsked = 3
INVARIANTS TypeOK EditsKept ModeFollows WatchFollows WidgetFollows OwedIsRemembered
PROPERTIES ShownForward KeepsGoodData OwedIsTold
