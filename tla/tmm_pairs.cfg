SPECIFICATION Spec
CONSTANTS
  Minter = 20
  LocalDomain = "sol"
  Version = 1
  Hooks = {"hook"}
  NoHook = NoHook
  NoAccount = NoAccount
  Wallets = {11, 12}
  AccountOwner <- MCAccountOwner
  AccountMint <- MCAccountMint
  Custody <- MCCustody
  InitialBalances <- MCBalances
  Ata <- MCAta
  Mints = {41}
  TokenAccounts = {51, 52, 60}
  RoleKeys = {11}
  FeeRecipients = {11, 12}
  Domains = {"evm"}
  RemoteMessengers = {91}
  RemoteTokens = {81, 82}
  MinFees = {0}
  BurnLimits = {2}
  DepositParams = {}
  Nonces = {1, 2, 3, 4, 5}
  RemoteMessages = {}
  MaxU64 = 3
  MaxU128 = 3
  MaxSlot = 1
INVARIANTS OnePairPerDomain
