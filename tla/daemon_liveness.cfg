SPECIFICATION FairBridgeSpec
CONSTANTS
  Accounts = {1}
  Proxy = 9
  RoleAddresses = {}
  ForwardAddresses = {}
  Tokens = {"usdc"}
  InitialBalances <- MCInitialBalances
  Messages <- MCMessages
  NotForwarded = NotForwarded
  Daemons = {"daemon"}
  Operators = {"operator"}
  OperatorAmounts = {}
  EvmKey = 1
  EvmSenders = {}
  Usdc = "usdc"
  Supply = 2
  Threshold = 1
  BurnLimit = 1
  VaultDestinations <- MCNamedDestinations
  Accepting = {TRUE, FALSE}
  Hashes = {h1, h2, h3}
  NoHash = NoHash
  MaxEarly = 1
  MaxFaults = 0
PROPERTIES TickEnds VaultEmptied BurnCanBeRedeemed
