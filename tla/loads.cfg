SPECIFICATION Spec
CONSTANTS
  fg = fg
  bg = bg
  f1 = f1
  f2 = f2
  b1 = b1
  a1 = a1
  a2 = a2
  Accounts = {a1, a2}
  NoAccount = NoAccount
  Loads <- InstanceLoads
  Repositories = {fg, bg}
  RepositoryOf <- InstanceRepositoryOf
  NoLoad = NoLoad
  MaxAt = 2
  MaxLoads <- InstanceMaxLoads
  MaxChanges = 2
  MaxFaults = 1
SYMMETRY InstanceSymmetry
INVARIANTS TypeOK ShownIsKept
PROPERTIES AnswersOwned NeverBack
