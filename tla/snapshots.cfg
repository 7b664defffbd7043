SPECIFICATION Spec
CONSTANTS
  ui = ui
  worker = worker
  phone = phone
  background = background
  anna = anna
  bert = bert
  Accounts = {anna, bert}
  NoAccount = NoAccount
  Nobody = Nobody
  Clients = {ui, worker}
  Owners = {phone}
  OwnerOf <- OneEngine
  Faults = {"commit", "death"}
  MaxFaults = 1
  Workload = {"read", "reconnect", "complete", "cancel", "report", "clear"}
  MaxOps = 5
SYMMETRY AccountSymmetry
INVARIANTS SnapshotOwned
PROPERTIES NoRevival
