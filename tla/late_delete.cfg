SPECIFICATION Spec
CONSTANTS
  ui = ui
  worker = worker
  phone = phone
  background = background
  anna = anna
  bert = bert
  Accounts = {anna, bert}
  NoAccount = NoAccount
  Nobody = Nobody
  Clients = {ui, worker}
  Owners = {phone, background}
  OwnerOf <- TwoEngines
  Faults = {"detach", "late delete"}
  MaxFaults = 1
  Workload = {"read", "reconnect", "complete"}
  MaxOps = 4
SYMMETRY AccountSymmetry
INVARIANT ActiveCredentialUsable
