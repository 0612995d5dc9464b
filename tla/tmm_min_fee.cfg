SPECIFICATION Spec
CONSTANTS
  Minter = 20
  LocalDomain = "sol"
  Version = 1
  Hooks = {"hook"}
  NoHook = NoHook
  NoAccount = NoAccount
  Wallets = {11, 12}
  Mints <- MCNone
  TokenAccounts <- MCNone
  AccountOwner <- MCNoFunction
  AccountMint <- MCNoFunction
  Custody <- MCNoFunction
  InitialBalances <- MCNoFunction
  Ata <- MCNoAta
  RoleKeys = {11, 12}
  FeeRecipients = {11, 12}
  Domains = {}
  RemoteMessengers = {}
  RemoteTokens = {}
  MinFees = {0, 10000000}
  BurnLimits = {}
  DepositParams = {}
  Nonces = {}
  RemoteMessages = {}
  MaxU64 = 7
  MaxU128 = 7
  MaxSlot = 0
INVARIANTS MinFeeBelowMultiplier
