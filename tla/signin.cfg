SPECIFICATION Spec
CONSTANTS
  ui = ui
  worker = worker
  phone = phone
  background = background
  anna = anna
  bert = bert
  Accounts = {anna, bert}
  NoAccount = NoAccount
  Nobody = Nobody
  Clients = {ui, worker}
  Owners = {phone, background}
  OwnerOf <- TwoEngines
  Faults = {"commit", "death", "store"}
  MaxFaults = 2
  Workload = {"read", "reconnect", "complete", "cancel", "delete"}
  MaxOps = 5
SYMMETRY AccountSymmetry
INVARIANTS TypeOK ActiveCredentialUsable CancelRestoresUsable CleanupSparesLive
PROPERTIES LegacySpared FencedAnswersNothing
