SPECIFICATION FairSpec
CONSTANTS
  ui = ui
  worker = worker
  phone = phone
  background = background
  anna = anna
  bert = bert
  Accounts = {anna, bert}
  NoAccount = NoAccount
  Nobody = Nobody
  Clients = {ui, worker}
  Owners = {phone, background}
  OwnerOf <- TwoEngines
  Faults = {"commit", "death", "store", "detach"}
  MaxFaults = 1
  Workload = {"read", "reconnect", "complete", "refresh", "delete"}
  MaxOps = 3
PROPERTIES RequestsServed
