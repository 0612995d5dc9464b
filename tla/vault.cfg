SPECIFICATION ProxySpec
CONSTANTS
  Minter = 20
  LocalDomain = "sol"
  Version = 1
  Hooks = {}
  NoHook = NoHook
  NoAccount = NoAccount
  Wallets = {11, 31}
  AccountOwner <- MCAccountOwner
  AccountMint <- MCAccountMint
  Custody <- MCCustody
  InitialBalances <- MCBalances
  Ata <- MCAta
  Mints = {41, 42}
  TokenAccounts = {51, 53, 54, 55, 60, 61}
  RoleKeys = {11}
  FeeRecipients = {11}
  Domains = {"evm"}
  RemoteMessengers = {91}
  RemoteTokens = {}
  MinFees = {0}
  BurnLimits = {2}
  DepositParams <- MCDepositParams
  Nonces = {}
  RemoteMessages = {}
  MaxU64 = 3
  MaxU128 = 3
  MaxSlot = 0
  VaultIds = {"vault"}
  VaultAuthority <- MCAuthority
  UpgradeAuthority = 11
  VaultKeys = {11}
  TokenMessengerMinterProgram = 101
  MessageTransmitterProgram = 102
  ProgramIds = {102}
  Destinations <- MCDestinations
  BurnParams <- MCBurnParams
INVARIANTS ProxyTypeOK VaultSendsOwnMint
PROPERTIES AuthorityTokensStay VaultLedgerSpec
