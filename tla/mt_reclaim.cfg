SPECIFICATION Spec
CONSTANTS
  Programs <- MCPrograms
  Self <- MCSelf
  LocalDomain = "sol"
  Domains = {"sol", "evm", "evm2"}
  Version = 1
  Bodies <- MCBodies
  BodyLen <- MCBodyLen
  Finalities = {2000}
  NoAccount = NoAccount
  Keys = {11}
  RoleKeys = {11}
  Attesters = {1}
  BodySizes = {1, 2}
  SendParams <- MCSendParams
  Nonces = {1, 2, 3}
  RemoteMessages = {}
  EventAccounts = {e1, e2}
  EventWindow = 2
  MaxTime = 3
INVARIANTS TypeOK
PROPERTIES ClosedOnlyOnceRead PausedIsQuiet
