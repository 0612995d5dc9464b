SPECIFICATION BridgeSpec
CONSTANTS
  Accounts = {1}
  Proxy = 9
  RoleAddresses = {}
  ForwardAddresses = {}
  Tokens = {"usdc"}
  InitialBalances <- MCInitialBalances
  Messages <- MCMessages
  NotForwarded = NotForwarded
  Daemons = {"daemon"}
  Operators = {"operator"}
  OperatorAmounts = {1}
  EvmKey = 1
  EvmSenders = {1}
  Usdc = "usdc"
  Supply = 2
  Threshold = 0
  BurnLimit = 2
  VaultDestinations <- MCDestinations
  Accepting = {TRUE}
  Hashes = {h1, h2, h3}
  NoHash = NoHash
  MaxEarly = 1
  MaxFaults = 1
INVARIANTS BridgeTypeOK TokensConserved BurnsAreLogged BridgedInFull
PROPERTIES VaultSteps
SYMMETRY HashSymmetry
