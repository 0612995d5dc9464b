SPECIFICATION Spec
CONSTANTS
  Programs <- MCPrograms
  Self <- MCSelf
  LocalDomain = "sol"
  Domains = {"sol", "evm", "evm2"}
  Version = 1
  Bodies <- MCBodies
  BodyLen <- MCBodyLen
  Finalities = {1000, 2000}
  NoAccount = NoAccount
  Keys = {11, 12}
  RoleKeys = {11, 12}
  Attesters = {1, 2, 3}
  BodySizes = {0, 1}
  SendParams = {}
  Nonces = {}
  RemoteMessages = {}
  EventAccounts = {}
  EventWindow = 1
  MaxTime = 0
INVARIANTS StateStaysValid ThresholdCanBeMet SlotsFitAttesters
