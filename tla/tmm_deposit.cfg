SPECIFICATION Spec
CONSTANTS
  Minter = 20
  LocalDomain = "sol"
  Version = 1
  Hooks = {"hook"}
  NoHook = NoHook
  NoAccount = NoAccount
  Wallets = {11, 12}
  AccountOwner <- MCAccountOwner
  AccountMint <- MCAccountMint
  Custody <- MCCustody
  InitialBalances <- MCBalances
  Ata <- MCAta
  Mints = {41}
  TokenAccounts = {51, 52, 60}
  RoleKeys = {11}
  FeeRecipients = {11}
  Domains = {"evm", "sol"}
  RemoteMessengers = {91}
  RemoteTokens = {}
  MinFees = {0, 5000000}
  BurnLimits = {2, 3}
  DepositParams <- MCDeposits
  Nonces = {}
  RemoteMessages = {}
  MaxU64 = 7
  MaxU128 = 7
  MaxSlot = 0
INVARIANTS SupplyConserved SentArePayable
