SPECIFICATION Spec
CONSTANTS
  Programs <- MCPrograms
  Self <- MCSelf
  LocalDomain = "sol"
  Domains = {"sol", "evm", "evm2"}
  Version = 1
  Bodies <- MCBodies
  BodyLen <- MCBodyLen
  Finalities = {1000, 2000}
  NoAccount = NoAccount
  Keys = {11, 12}
  RoleKeys = {11}
  Attesters = {1, 2}
  BodySizes = {1}
  SendParams = {}
  Nonces = {1, 2, 3, 4}
  RemoteMessages <- MCRemoteMessages
  EventAccounts = {}
  EventWindow = 1
  MaxTime = 0
INVARIANTS NonceUsedIffDelivered
PROPERTIES QuorumBehindDelivery PausedIsQuiet ChannelSpec
