SPECIFICATION Spec
CONSTANTS
  Accounts = {1, 2}
  Proxy = 9
  RoleAddresses = {1, 2}
  ForwardAddresses = {1, 2, 9}
  Tokens = {"usdc", "other"}
  InitialBalances <- MCInitialBalances
  Messages <- MCMessages
  NotForwarded = NotForwarded
INVARIANTS TypeOK NamedCallerForwards
PROPERTIES ReceivingNeverSpends
