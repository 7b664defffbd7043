SPECIFICATION Spec
CONSTANTS
  ui = ui
  worker = worker
  phone = phone
  background = background
  anna = anna
  bert = bert
  Accounts = {anna, bert}
  NoAccount = NoAccount
  Nobody = Nobody
  Clients = {ui, worker}
  Owners = {phone, background}
  OwnerOf <- TwoEngines
  Faults = {"death"}
  MaxFaults = 1
  Workload = {"read", "reconnect", "complete", "delete"}
  MaxOps = 5
SYMMETRY AccountSymmetry
INVARIANT DisconnectErases
