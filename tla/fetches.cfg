SPECIFICATION Spec
CONSTANTS
  ui = ui
  worker = worker
  phone = phone
  background = background
  anna = anna
  bert = bert
  Accounts = {anna, bert}
  NoAccount = NoAccount
  Nobody = Nobody
  Clients = {ui, worker}
  Owners = {phone, background}
  OwnerOf <- TwoEngines
  Faults = {"commit", "detach", "late write"}
  MaxFaults = 1
  Workload = {"read", "refresh", "expire", "reconnect", "complete"}
  MaxOps = 5
SYMMETRY AccountSymmetry
INVARIANTS ActiveCredentialUsable
PROPERTIES StaleTokenRefused
