SPECIFICATION Spec
CONSTANTS
  Minter = 20
  LocalDomain = "sol"
  Version = 1
  Hooks = {"hook"}
  NoHook = NoHook
  NoAccount = NoAccount
  Wallets = {11}
  AccountOwner <- MCOneOwner
  AccountMint <- MCAccountMint
  Custody <- MCCustody
  InitialBalances <- MCBalances
  Ata <- MCAta
  Mints = {41}
  TokenAccounts = {51, 52, 60}
  RoleKeys = {11}
  FeeRecipients = {11}
  Domains = {"evm"}
  RemoteMessengers = {91}
  RemoteTokens = {81}
  MinFees = {0}
  BurnLimits = {2}
  DepositParams <- MCOneDeposit
  Nonces = {1, 2, 3, 4, 5}
  RemoteMessages <- MCMessages
  MaxU64 = 3
  MaxU128 = 3
  MaxSlot = 1
INVARIANTS TypeOK CountersNeverOverstate NoTokensStranded
PROPERTIES RecipientIsPaid PausedHoldsTokens LedgerSpec
