------------------------- MODULE TokenMessengerMinter -------------------------
(***************************************************************************)
(* The TokenMessengerMinterV2 program: it burns tokens and sends a burn    *)
(* message to the token messenger of another domain, and on a burn message *)
(* from another domain it pays tokens out of the custody account of the    *)
(* local token linked to the one burned.                                   *)
(*                                                                         *)
(* Every action is one instruction; one that fails, in its own checks, in  *)
(* the SPL token program or in the message transmitter, changes nothing.   *)
(*                                                                         *)
(* The message transmitter appears here as what it promises: it sends what *)
(* it is given, and calls the handler at most once for each nonce.  SPL    *)
(* transfers, mints and the slot clock are external.                       *)
(***************************************************************************)
EXTENDS Integers, Sequences, FiniteSetsExt

CONSTANTS
  Wallets,          \* keys that sign: token owners and holders of a role
  RoleKeys,         \* the wallets that roles are given to
  FeeRecipients,    \* the wallets that may become the fee recipient
  Minter,           \* the PDA that owns the custody accounts
  Mints,            \* SPL mints
  TokenAccounts,    \* addresses of SPL token accounts
  AccountOwner,     \* the owner of each
  AccountMint,      \* the mint of each
  Custody,          \* the custody address of each mint
  Ata,              \* the associated token address of each wallet and mint
  InitialBalances,  \* what the accounts hold at first
  Domains,
  LocalDomain,
  RemoteMessengers, \* addresses of token messengers in other domains
  RemoteTokens,     \* tokens of other domains
  Version,          \* the version of burn messages
  MinFees,          \* values min_fee may be given, in 1/1000 basis points
  BurnLimits,       \* values burn_limit_per_message may be given
  DepositParams,    \* calls of deposit_for_burn
  Hooks,            \* hook data, other than none
  NoHook,
  Nonces,
  RemoteMessages,   \* burn messages of other domains, by nonce
  NoAccount,        \* the content of an address that holds no account
  MaxU64,           \* the largest u64
  MaxU128,          \* the largest u128
  MaxSlot           \* bound on the slot clock

VARIABLES
  initialized,
  token_messenger,         \* roles and the minimum fee
  token_minter,            \* token_controller, pauser and paused
  remote_token_messengers, \* the account of each domain
  denylist,                \* wallets that have a denylist account
  token_pairs,             \* the local token of each domain and remote token
  local_tokens,            \* the local token account of each mint
  balances,                \* SPL token accounts
  sent,                    \* history: the messages given to the transmitter
  minted,                  \* history: what was paid out for each nonce
  destroyed,               \* history: custody tokens burned, of each mint
  slot                     \* external: the slot clock

registry == <<remote_token_messengers, denylist, token_pairs>>
tokens == <<local_tokens, balances, sent, minted, destroyed>>
vars == <<initialized, token_messenger, token_minter, registry, tokens, slot>>

Default == 0

MIN_FEE_MULTIPLIER == 10000000

TOKEN_MESSENGER_MIN_FINALITY_THRESHOLD == 500
FINALITY_THRESHOLD_FINALIZED == 2000

TokenMessenger ==
  [owner: Wallets \union {Default}, pending_owner: Wallets \union {Default},
   denylister: Wallets \union {Default}, fee_recipient: Wallets \union {Default},
   min_fee_controller: Wallets \union {Default}, min_fee: Nat]

TokenMinter ==
  [token_controller: Wallets \union {Default}, pauser: Wallets \union {Default},
   paused: BOOLEAN]

LocalToken ==
  [burn_limit_per_message: 0..MaxU64, messages_sent: 0..MaxU64, messages_received: 0..MaxU64,
   amount_sent: 0..MaxU128, amount_received: 0..MaxU128]

\* Numbers are 32 bytes wide in a burn message, as they are in the EVM.
BurnMessage ==
  [version: Nat, burn_token: Nat, mint_recipient: Nat, amount: Nat,
   message_sender: Nat, max_fee: Nat, fee_executed: Nat, expiration_block: Nat,
   hook_data: Hooks \union {NoHook}]

DepositForBurnParams ==
  [amount: 0..MaxU64, destination_domain: Domains, mint_recipient: Nat,
   destination_caller: Nat, max_fee: 0..MaxU64, min_finality_threshold: Nat]

SentMessage ==
  [destination_domain: Domains, recipient: RemoteMessengers, message_body: BurnMessage,
   destination_caller: Nat, min_finality_threshold: Nat]

RemoteMessage ==
  [nonce: Nonces, remote_domain: Domains, sender: Nat, finality_threshold_executed: Nat,
   message_body: BurnMessage]

MintAndWithdraw ==
  [mint_recipient: TokenAccounts, mint: Mints, amount: Nat, fee_collected: Nat, max_fee: Nat]

ASSUME KeysAssumption ==
  /\ Wallets \subseteq Nat \ {Default}
  /\ RoleKeys \subseteq Wallets
  /\ FeeRecipients \subseteq Wallets
  /\ Minter \in Nat \ (Wallets \union {Default})

ASSUME AccountsAssumption ==
  /\ Mints \subseteq Nat \ {Default}
  /\ TokenAccounts \subseteq Nat \ {Default}
  /\ AccountOwner \in [TokenAccounts -> Wallets \union {Minter}]
  /\ AccountMint \in [TokenAccounts -> Mints]
  /\ Custody \in [Mints -> TokenAccounts]
  /\ \A m \in Mints : AccountOwner[Custody[m]] = Minter /\ AccountMint[Custody[m]] = m
  /\ Ata \in [Wallets -> [Mints -> Nat]]
  /\ \A w \in Wallets, m1, m2 \in Mints : Ata[w][m1] # Custody[m2]
  /\ \A w \in Wallets, m \in Mints :
       Ata[w][m] \in TokenAccounts => AccountMint[Ata[w][m]] = m
  /\ InitialBalances \in [TokenAccounts -> 0..MaxU64]
  /\ \A m \in Mints : InitialBalances[Custody[m]] = 0

ASSUME RemoteAssumption ==
  /\ Version \in Nat
  /\ RemoteMessengers \subseteq Nat
  /\ RemoteTokens \subseteq Nat \ {Default}
  /\ RemoteMessages \subseteq RemoteMessage

ASSUME ParamsAssumption ==
  /\ DepositParams \subseteq DepositForBurnParams
  /\ MinFees \subseteq Nat
  /\ BurnLimits \subseteq 0..MaxU64
  /\ NoHook \notin Hooks

ASSUME BoundsAssumption ==
  /\ MaxU64 \in Nat
  /\ MaxU128 \in Nat
  /\ MaxSlot \in Nat
  /\ NoAccount \notin LocalToken \union Nat \union MintAndWithdraw

\* Addresses and nonces are numbers of 32 bytes.
ASSUME FiniteAssumption == IsFiniteSet(TokenAccounts) /\ IsFiniteSet(Nonces)

-----------------------------------------------------------------------------
(***************************************************************************)
(* State.                                                                  *)
(***************************************************************************)
Init ==
  /\ initialized = FALSE
  /\ token_messenger =
       [owner |-> Default, pending_owner |-> Default, denylister |-> Default,
        fee_recipient |-> Default, min_fee_controller |-> Default, min_fee |-> 0]
  /\ token_minter = [token_controller |-> Default, pauser |-> Default, paused |-> FALSE]
  /\ remote_token_messengers = [d \in Domains |-> NoAccount]
  /\ denylist = {}
  /\ token_pairs = [d \in Domains |-> [t \in RemoteTokens |-> NoAccount]]
  /\ local_tokens = [m \in Mints |-> NoAccount]
  /\ balances = InitialBalances
  /\ sent = << >>
  /\ minted = [n \in Nonces |-> NoAccount]
  /\ destroyed = [m \in Mints |-> 0]
  /\ slot = 0

\* TokenMessenger::validate and TokenMinter::validate
MessengerValid ==
  Default \notin {token_messenger.owner, token_messenger.denylister,
                  token_messenger.fee_recipient, token_messenger.min_fee_controller}

MinterValid == Default \notin {token_minter.token_controller, token_minter.pauser}

\* has_one: the state accounts exist and the signer holds the role.
HasOne(role, signer) == initialized /\ role = signer

\* The minimum fee is stored as it is given.
Initialize(authority, controller, denylister, fee_recipient, fee_controller, min_fee) ==
  /\ ~initialized
  /\ initialized' = TRUE
  /\ token_messenger' =
       [owner |-> authority, pending_owner |-> Default, denylister |-> denylister,
        fee_recipient |-> fee_recipient, min_fee_controller |-> fee_controller,
        min_fee |-> min_fee]
  /\ token_minter' = [token_controller |-> controller, pauser |-> authority, paused |-> FALSE]
  /\ MessengerValid'
  /\ MinterValid'
  /\ UNCHANGED <<registry, tokens, slot>>

TransferOwnership(signer, new_owner) ==
  /\ HasOne(token_messenger.owner, signer)
  /\ new_owner \notin {Default, token_messenger.owner, token_messenger.pending_owner}
  /\ token_messenger' = [token_messenger EXCEPT !.pending_owner = new_owner]
  /\ UNCHANGED <<initialized, token_minter, registry, tokens, slot>>

AcceptOwnershipKeepingNominee(signer) ==
  /\ HasOne(token_messenger.pending_owner, signer)
  /\ token_messenger' = [token_messenger EXCEPT !.owner = token_messenger.pending_owner]
  /\ UNCHANGED <<initialized, token_minter, registry, tokens, slot>>

AcceptOwnership(signer) ==
  /\ HasOne(token_messenger.pending_owner, signer)
  /\ token_messenger' = [token_messenger EXCEPT !.owner = token_messenger.pending_owner,
                                                !.pending_owner = Default]
  /\ UNCHANGED <<initialized, token_minter, registry, tokens, slot>>

UpdateDenylister(signer, new_denylister) ==
  /\ HasOne(token_messenger.owner, signer)
  /\ new_denylister \notin {Default, token_messenger.denylister}
  /\ token_messenger' = [token_messenger EXCEPT !.denylister = new_denylister]
  /\ UNCHANGED <<initialized, token_minter, registry, tokens, slot>>

SetFeeRecipient(signer, new_fee_recipient) ==
  /\ HasOne(token_messenger.owner, signer)
  /\ new_fee_recipient \notin {Default, token_messenger.fee_recipient}
  /\ token_messenger' = [token_messenger EXCEPT !.fee_recipient = new_fee_recipient]
  /\ UNCHANGED <<initialized, token_minter, registry, tokens, slot>>

SetMinFeeController(signer, new_min_fee_controller) ==
  /\ HasOne(token_messenger.owner, signer)
  /\ new_min_fee_controller \notin {Default, token_messenger.min_fee_controller}
  /\ token_messenger' = [token_messenger EXCEPT !.min_fee_controller = new_min_fee_controller]
  /\ UNCHANGED <<initialized, token_minter, registry, tokens, slot>>

SetMinFee(signer, new_min_fee) ==
  /\ HasOne(token_messenger.min_fee_controller, signer)
  /\ MIN_FEE_MULTIPLIER > new_min_fee
  /\ token_messenger' = [token_messenger EXCEPT !.min_fee = new_min_fee]
  /\ UNCHANGED <<initialized, token_minter, registry, tokens, slot>>

\* Both of these check the owner of the messenger, not a role of the minter.
SetTokenController(signer, new_controller) ==
  /\ HasOne(token_messenger.owner, signer)
  /\ new_controller \notin {Default, token_minter.token_controller}
  /\ token_minter' = [token_minter EXCEPT !.token_controller = new_controller]
  /\ UNCHANGED <<initialized, token_messenger, registry, tokens, slot>>

UpdatePauser(signer, new_pauser) ==
  /\ HasOne(token_messenger.owner, signer)
  /\ new_pauser \notin {Default, token_minter.pauser}
  /\ token_minter' = [token_minter EXCEPT !.pauser = new_pauser]
  /\ UNCHANGED <<initialized, token_messenger, registry, tokens, slot>>

Pause(signer) ==
  /\ HasOne(token_minter.pauser, signer)
  /\ ~token_minter.paused
  /\ token_minter' = [token_minter EXCEPT !.paused = TRUE]
  /\ UNCHANGED <<initialized, token_messenger, registry, tokens, slot>>

Unpause(signer) ==
  /\ HasOne(token_minter.pauser, signer)
  /\ token_minter.paused
  /\ token_minter' = [token_minter EXCEPT !.paused = FALSE]
  /\ UNCHANGED <<initialized, token_messenger, registry, tokens, slot>>

-----------------------------------------------------------------------------
(***************************************************************************)
(* The registry: remote token messengers, the denylist and token pairs.    *)
(***************************************************************************)
AddRemoteTokenMessenger(signer, domain, messenger) ==
  /\ HasOne(token_messenger.owner, signer)
  /\ remote_token_messengers[domain] = NoAccount
  /\ messenger # Default
  /\ remote_token_messengers' = [remote_token_messengers EXCEPT ![domain] = messenger]
  /\ UNCHANGED <<initialized, token_messenger, token_minter, denylist, token_pairs, tokens, slot>>

RemoveRemoteTokenMessenger(signer, domain) ==
  /\ HasOne(token_messenger.owner, signer)
  /\ remote_token_messengers[domain] # NoAccount
  /\ remote_token_messengers' = [remote_token_messengers EXCEPT ![domain] = NoAccount]
  /\ UNCHANGED <<initialized, token_messenger, token_minter, denylist, token_pairs, tokens, slot>>

DenylistAccount(signer, account) ==
  /\ HasOne(token_messenger.denylister, signer)
  /\ account \notin denylist
  /\ denylist' = denylist \union {account}
  /\ UNCHANGED <<initialized, token_messenger, token_minter, remote_token_messengers,
                 token_pairs, tokens, slot>>

UndenylistAccount(signer, account) ==
  /\ HasOne(token_messenger.denylister, signer)
  /\ account \in denylist
  /\ denylist' = denylist \ {account}
  /\ UNCHANGED <<initialized, token_messenger, token_minter, remote_token_messengers,
                 token_pairs, tokens, slot>>

\* A pair is keyed by domain and remote token.  The local token is given by
\* address: whether it exists is not checked.
LinkTokenPair(signer, domain, remote_token, mint) ==
  /\ HasOne(token_minter.token_controller, signer)
  /\ remote_token # Default
  /\ mint # Default
  /\ token_pairs[domain][remote_token] = NoAccount
  /\ token_pairs' = [token_pairs EXCEPT ![domain][remote_token] = mint]
  /\ UNCHANGED <<initialized, token_messenger, token_minter, remote_token_messengers,
                 denylist, tokens, slot>>

UnlinkTokenPair(signer, domain, remote_token) ==
  /\ HasOne(token_minter.token_controller, signer)
  /\ token_pairs[domain][remote_token] # NoAccount
  /\ token_pairs' = [token_pairs EXCEPT ![domain][remote_token] = NoAccount]
  /\ UNCHANGED <<initialized, token_messenger, token_minter, remote_token_messengers,
                 denylist, tokens, slot>>

-----------------------------------------------------------------------------
(***************************************************************************)
(* Local tokens and their custody accounts, which are created and closed   *)
(* together.  Token pairs stay linked when a local token is removed.       *)
(***************************************************************************)
Exists(mint) == local_tokens[mint] # NoAccount

AddLocalToken(signer, mint) ==
  /\ HasOne(token_minter.token_controller, signer)
  /\ ~Exists(mint)
  /\ local_tokens' = [local_tokens EXCEPT ![mint] =
       [burn_limit_per_message |-> 0, messages_sent |-> 0, messages_received |-> 0,
        amount_sent |-> 0, amount_received |-> 0]]
  /\ UNCHANGED <<initialized, token_messenger, token_minter, registry,
                 balances, sent, minted, destroyed, slot>>

\* TokenMinter::burn_token_custody: no check that the minter is not paused.
DestroyCustody(mint, amount) ==
  /\ balances' = [balances EXCEPT ![Custody[mint]] = @ - amount]
  /\ destroyed' = [destroyed EXCEPT ![mint] = @ + amount]

RemoveLocalTokenWhilePaused(signer, mint) ==
  /\ HasOne(token_minter.token_controller, signer)
  /\ Exists(mint)
  /\ DestroyCustody(mint, balances[Custody[mint]])
  /\ local_tokens' = [local_tokens EXCEPT ![mint] = NoAccount]
  /\ UNCHANGED <<initialized, token_messenger, token_minter, registry, sent, minted, slot>>

RemoveLocalTokenKeepingCustody(signer, mint) ==
  /\ HasOne(token_minter.token_controller, signer)
  /\ Exists(mint)
  /\ ~token_minter.paused
  /\ local_tokens' = [local_tokens EXCEPT ![mint] = NoAccount]
  /\ UNCHANGED <<initialized, token_messenger, token_minter, registry, balances, sent,
                 minted, destroyed, slot>>

\* What is left in custody is burned, then the empty account is closed, which
\* fails while the minter is paused.
RemoveLocalToken(signer, mint) ==
  /\ HasOne(token_minter.token_controller, signer)
  /\ Exists(mint)
  /\ DestroyCustody(mint, balances[Custody[mint]])
  /\ ~token_minter.paused
  /\ local_tokens' = [local_tokens EXCEPT ![mint] = NoAccount]
  /\ UNCHANGED <<initialized, token_messenger, token_minter, registry, sent, minted, slot>>

BurnTokenCustody(signer, mint, amount) ==
  LET held == balances[Custody[mint]]
      burn_amount == IF amount <= held THEN amount ELSE held
  IN  /\ HasOne(token_minter.token_controller, signer)
      /\ Exists(mint)
      /\ burn_amount # 0
      /\ DestroyCustody(mint, burn_amount)
      /\ UNCHANGED <<initialized, token_messenger, token_minter, registry,
                     local_tokens, sent, minted, slot>>

SetMaxBurnAmountPerMessage(signer, mint, burn_limit) ==
  /\ HasOne(token_minter.token_controller, signer)
  /\ Exists(mint)
  /\ local_tokens' = [local_tokens EXCEPT ![mint].burn_limit_per_message = burn_limit]
  /\ UNCHANGED <<initialized, token_messenger, token_minter, registry,
                 balances, sent, minted, destroyed, slot>>

-----------------------------------------------------------------------------
(***************************************************************************)
(* Tokens out of this domain.                                              *)
(***************************************************************************)
PlainAdd(a, b, max) == a + b

SaturatingAdd(a, b, max) == IF a + b > max THEN max ELSE a + b

\* get_min_fee_amount; the result is cast to u64.  It fails for amounts of 1
\* or less unless the minimum fee is zero.
HasMinFeeAmount(amount) == token_messenger.min_fee = 0 \/ amount > 1

FeeAmountRoundedUp(amount, min_fee) ==
  LET fee == (amount * min_fee + MIN_FEE_MULTIPLIER - 1) \div MIN_FEE_MULTIPLIER
  IN  IF min_fee = 0 THEN 0
      ELSE (IF fee > 1 THEN fee ELSE 1) % (MaxU64 + 1)

FeeAmount(amount, min_fee) ==
  LET fee == (amount * min_fee) \div MIN_FEE_MULTIPLIER
  IN  IF min_fee = 0 THEN 0
      ELSE (IF fee > 1 THEN fee ELSE 1) % (MaxU64 + 1)

CoversFeesOfAll(amount, max_fee) ==
  /\ amount >= max_fee
  /\ HasMinFeeAmount(amount)
  /\ max_fee >= FeeAmount(amount, token_messenger.min_fee)

CoversFees(amount, max_fee) ==
  /\ amount > max_fee
  /\ HasMinFeeAmount(amount)
  /\ max_fee >= FeeAmount(amount, token_messenger.min_fee)

FormatMessageLessMaxFee(wallet, mint, params, hook_data) ==
  [version |-> Version, burn_token |-> mint, mint_recipient |-> params.mint_recipient,
   amount |-> params.amount - params.max_fee, message_sender |-> wallet,
   max_fee |-> params.max_fee, fee_executed |-> 0, expiration_block |-> 0,
   hook_data |-> hook_data]

FormatMessage(wallet, mint, params, hook_data) ==
  [version |-> Version, burn_token |-> mint, mint_recipient |-> params.mint_recipient,
   amount |-> params.amount, message_sender |-> wallet,
   max_fee |-> params.max_fee, fee_executed |-> 0, expiration_block |-> 0,
   hook_data |-> hook_data]

\* TokenMinter::burn
Burn(account, mint, amount) ==
  /\ ~token_minter.paused
  /\ local_tokens[mint].burn_limit_per_message >= amount
  /\ balances[account] >= amount
  /\ local_tokens' = [local_tokens EXCEPT
       ![mint].messages_sent = SaturatingAdd(@, 1, MaxU64),
       ![mint].amount_sent = SaturatingAdd(@, amount, MaxU128)]
  /\ balances' = [balances EXCEPT ![account] = @ - amount]

\* The transmitter refuses a message to its own domain.
SendMessage(domain, message_body, params) ==
  /\ domain # LocalDomain
  /\ sent' = Append(sent,
       [destination_domain |-> domain, recipient |-> remote_token_messengers[domain],
        message_body |-> message_body, destination_caller |-> params.destination_caller,
        min_finality_threshold |-> params.min_finality_threshold])

DepositForBurnHelper(wallet, account, params, hook_data) ==
  LET mint == AccountMint[account]
  IN  /\ initialized
      /\ AccountOwner[account] = wallet
      /\ Exists(mint)
      /\ remote_token_messengers[params.destination_domain] # NoAccount
      /\ params.amount > 0
      /\ wallet \notin denylist
      /\ params.mint_recipient # Default
      /\ CoversFees(params.amount, params.max_fee)
      /\ Burn(account, mint, params.amount)
      /\ SendMessage(params.destination_domain,
                     FormatMessage(wallet, mint, params, hook_data), params)
      /\ UNCHANGED <<initialized, token_messenger, token_minter, registry, minted,
                     destroyed, slot>>

DepositForBurn(wallet, account, params) ==
  DepositForBurnHelper(wallet, account, params, NoHook)

DepositForBurnWithHook(wallet, account, params, hook_data) ==
  /\ hook_data # NoHook
  /\ DepositForBurnHelper(wallet, account, params, hook_data)

-----------------------------------------------------------------------------
(***************************************************************************)
(* Tokens into this domain.                                                *)
(***************************************************************************)
\* A number whose upper 24 bytes are not zero cannot be read.
ReadsAsU64(message_body) ==
  \A n \in {message_body.amount, message_body.max_fee, message_body.fee_executed,
            message_body.expiration_block} : n <= MaxU64

NotExpired(message_body) ==
  message_body.expiration_block = 0 \/ message_body.expiration_block > slot

FeeAcceptedAboveMaxFee(amount, fee_executed, max_fee) == fee_executed < amount

FeeAccepted(amount, fee_executed, max_fee) ==
  /\ fee_executed < amount
  /\ fee_executed <= max_fee

\* An SPL transfer.
Transferred(from, to, amount, held) ==
  LET taken == [held EXCEPT ![from] = @ - amount]
  IN  [taken EXCEPT ![to] = @ + amount]

\* What custody pays: the fee to the fee recipient, then the rest.
PaidOutWithFeeOnTop(mint, recipient, amount, fee_executed) ==
  LET fee_account == Ata[token_messenger.fee_recipient][mint]
      fee_paid == IF fee_executed > 0
                  THEN Transferred(Custody[mint], fee_account, fee_executed, balances)
                  ELSE balances
  IN  Transferred(Custody[mint], recipient, amount, fee_paid)

PaidOut(mint, recipient, amount, fee_executed) ==
  LET fee_account == Ata[token_messenger.fee_recipient][mint]
      fee_paid == IF fee_executed > 0
                  THEN Transferred(Custody[mint], fee_account, fee_executed, balances)
                  ELSE balances
  IN  Transferred(Custody[mint], recipient, amount - fee_executed, fee_paid)

CountReceivedTwice(mint, amount, fee_executed) ==
  [local_tokens EXCEPT
     ![mint].messages_received = SaturatingAdd(@, 1, MaxU64),
     ![mint].amount_received = SaturatingAdd(@, amount + fee_executed, MaxU128)]

CountReceived(mint, amount, fee_executed) ==
  [local_tokens EXCEPT
     ![mint].messages_received = SaturatingAdd(@, 1, MaxU64),
     ![mint].amount_received =
        SaturatingAdd(SaturatingAdd(@, fee_executed, MaxU128), amount - fee_executed, MaxU128)]

\* transfer_fee and transfer fail while the minter is paused.  The recipient
\* and the fee recipient may be one account, and either may be custody.
HandleReceiveMessage(m, mint) ==
  LET body == m.message_body
      fee_account == Ata[token_messenger.fee_recipient][mint]
  IN  /\ initialized
      /\ remote_token_messengers[m.remote_domain] = m.sender
      /\ body.version = Version
      /\ body.burn_token \in RemoteTokens
      /\ token_pairs[m.remote_domain][body.burn_token] = mint
      /\ Exists(mint)
      /\ fee_account \in TokenAccounts
      /\ AccountOwner[fee_account] = token_messenger.fee_recipient
      /\ body.mint_recipient \in TokenAccounts
      /\ AccountMint[body.mint_recipient] = mint
      /\ ReadsAsU64(body)
      /\ NotExpired(body)
      /\ FeeAccepted(body.amount, body.fee_executed, body.max_fee)
      /\ ~token_minter.paused
      /\ balances[Custody[mint]] >= body.amount
      /\ balances' = PaidOut(mint, body.mint_recipient, body.amount, body.fee_executed)
      /\ local_tokens' = CountReceived(mint, body.amount, body.fee_executed)
      /\ minted' = [minted EXCEPT ![m.nonce] =
           [mint_recipient |-> body.mint_recipient, mint |-> mint,
            amount |-> body.amount - body.fee_executed,
            fee_collected |-> body.fee_executed, max_fee |-> body.max_fee]]
      /\ UNCHANGED <<initialized, token_messenger, token_minter, registry, sent,
                     destroyed, slot>>

HandleReceiveFinalizedMessage(m, mint) ==
  /\ m.finality_threshold_executed >= FINALITY_THRESHOLD_FINALIZED
  /\ HandleReceiveMessage(m, mint)

HandleReceiveUnfinalizedMessage(m, mint) ==
  /\ m.finality_threshold_executed < FINALITY_THRESHOLD_FINALIZED
  /\ m.finality_threshold_executed >= TOKEN_MESSENGER_MIN_FINALITY_THRESHOLD
  /\ HandleReceiveMessage(m, mint)

-----------------------------------------------------------------------------
(***************************************************************************)
(* The transmitter calls the handler at most once for each nonce.          *)
(***************************************************************************)
ReceiveMessage(m) ==
  /\ minted[m.nonce] = NoAccount
  /\ \E mint \in Mints :
       HandleReceiveFinalizedMessage(m, mint) \/ HandleReceiveUnfinalizedMessage(m, mint)

\* A wallet moves its own tokens; this is how custody is funded.
SplTransfer(from, to, amount) ==
  /\ AccountOwner[from] \in Wallets
  /\ AccountMint[from] = AccountMint[to]
  /\ from # to
  /\ AccountOwner[to] = Minter => Exists(AccountMint[to])
  /\ amount \in 1..balances[from]
  /\ balances' = Transferred(from, to, amount, balances)
  /\ UNCHANGED <<initialized, token_messenger, token_minter, registry, local_tokens,
                 sent, minted, destroyed, slot>>

NextSlot ==
  /\ slot < MaxSlot
  /\ slot' = slot + 1
  /\ UNCHANGED <<initialized, token_messenger, token_minter, registry, tokens>>

RoleNext ==
  \E signer, key \in RoleKeys :
    \/ \E controller, denylister, fee_controller \in RoleKeys \union {Default},
          fee_recipient \in FeeRecipients \union {Default}, min_fee \in MinFees :
         Initialize(signer, controller, denylister, fee_recipient, fee_controller, min_fee)
    \/ TransferOwnership(signer, key)
    \/ AcceptOwnership(signer)
    \/ UpdateDenylister(signer, key)
    \/ \E recipient \in FeeRecipients : SetFeeRecipient(signer, recipient)
    \/ SetMinFeeController(signer, key)
    \/ \E min_fee \in MinFees : SetMinFee(signer, min_fee)
    \/ SetTokenController(signer, key)
    \/ UpdatePauser(signer, key)
    \/ Pause(signer)
    \/ Unpause(signer)

RegistryNext ==
  \E signer \in RoleKeys :
    \/ \E domain \in Domains, messenger \in RemoteMessengers \union {Default} :
         AddRemoteTokenMessenger(signer, domain, messenger)
    \/ \E domain \in Domains : RemoveRemoteTokenMessenger(signer, domain)
    \/ \E account \in Wallets : DenylistAccount(signer, account)
    \/ \E account \in Wallets : UndenylistAccount(signer, account)
    \/ \E domain \in Domains, token \in RemoteTokens :
         \/ \E mint \in Mints : LinkTokenPair(signer, domain, token, mint)
         \/ UnlinkTokenPair(signer, domain, token)

LocalTokenNext ==
  \E signer \in RoleKeys, mint \in Mints :
    \/ AddLocalToken(signer, mint)
    \/ RemoveLocalToken(signer, mint)
    \/ \E amount \in BurnLimits : BurnTokenCustody(signer, mint, amount)
    \/ \E limit \in BurnLimits : SetMaxBurnAmountPerMessage(signer, mint, limit)

\* What these wallets do with tokens in these accounts, and messages that pay
\* into them.
TransferBy(wallets, accounts) ==
  \/ \E wallet \in wallets, account \in accounts, params \in DepositParams :
       \/ DepositForBurn(wallet, account, params)
       \/ \E hook \in Hooks \union {NoHook} :
            DepositForBurnWithHook(wallet, account, params, hook)
  \/ \E m \in RemoteMessages :
       /\ ReceiveMessage(m)
       /\ m.message_body.mint_recipient \in accounts
       /\ Ata[token_messenger.fee_recipient][AccountMint[m.message_body.mint_recipient]]
            \in accounts
  \/ \E from, to \in accounts : \E amount \in 1..balances[from] :
       AccountOwner[from] \in wallets /\ SplTransfer(from, to, amount)
  \/ NextSlot

TransferNext == TransferBy(Wallets, TokenAccounts)

Next == RoleNext \/ RegistryNext \/ LocalTokenNext \/ TransferNext

Spec == Init /\ [][Next]_vars

-----------------------------------------------------------------------------
(***************************************************************************)
(* Properties.                                                             *)
(***************************************************************************)
\* The type of every variable.
TypeOK ==
  /\ initialized \in BOOLEAN
  /\ token_messenger \in TokenMessenger
  /\ token_minter \in TokenMinter
  /\ remote_token_messengers \in [Domains -> (RemoteMessengers \ {Default}) \union {NoAccount}]
  /\ denylist \subseteq Wallets
  /\ token_pairs \in [Domains -> [RemoteTokens -> Mints \union {NoAccount}]]
  /\ local_tokens \in [Mints -> LocalToken \union {NoAccount}]
  /\ balances \in [TokenAccounts -> Nat]
  /\ sent \in Seq(SentMessage)
  /\ minted \in [Nonces -> MintAndWithdraw \union {NoAccount}]
  /\ destroyed \in [Mints -> Nat]
  /\ slot \in Nat

\* Whatever roles are handed over, and in whatever order, no role of either
\* state account is lost, and the owner is never its own nominee.
RolesStayValid ==
  initialized =>
    /\ MessengerValid
    /\ MinterValid
    /\ token_messenger.pending_owner # token_messenger.owner

SentOf(mint) == {i \in DOMAIN sent : sent[i].message_body.burn_token = mint}
PaidOf(mint) == {n \in Nonces : minted[n] # NoAccount /\ minted[n].mint = mint}
AccountsOf(mint) == {a \in TokenAccounts : AccountMint[a] = mint}

SentAmounts == [i \in DOMAIN sent |-> sent[i].message_body.amount]
PaidAmounts == [n \in {k \in Nonces : minted[k] # NoAccount} |->
                  minted[n].amount + minted[n].fee_collected]

AmountSent(mint) == SumFunctionOnSet(SentAmounts, SentOf(mint))
AmountPaid(mint) == SumFunctionOnSet(PaidAmounts, PaidOf(mint))

\* Tokens that left the accounts of this domain are all accounted for, by the
\* amounts of the burn messages sent or by the custody burned: none vanishes
\* and none is announced to another domain without having been burned here.
SupplyConserved ==
  \A m \in Mints :
    SumFunctionOnSet(balances, AccountsOf(m)) + AmountSent(m) + destroyed[m]
      = SumFunctionOnSet(InitialBalances, AccountsOf(m))

\* With any minimum fee that set_min_fee accepts, every amount of 2 or more can
\* be deposited: the rounded and truncated fee never reaches the amount.
FeeLeavesRoom ==
  MIN_FEE_MULTIPLIER > token_messenger.min_fee =>
    \A amount \in 2..MaxU64 : FeeAmount(amount, token_messenger.min_fee) < amount

\* Every message sent can be paid by the handler of the other domain, which
\* makes the same checks, whatever fee up to max_fee is executed.
SentArePayable ==
  \A i \in DOMAIN sent :
    LET body == sent[i].message_body
    IN  \A fee \in 0..body.max_fee : FeeAccepted(body.amount, fee, body.max_fee)

\* The statistics of a local token never overstate what was sent and received,
\* through saturation and through a removal that resets them.
CountersNeverOverstate ==
  \A m \in Mints : Exists(m) =>
    /\ local_tokens[m].messages_sent <= Cardinality(SentOf(m))
    /\ local_tokens[m].amount_sent <= AmountSent(m)
    /\ local_tokens[m].messages_received <= Cardinality(PaidOf(m))
    /\ local_tokens[m].amount_received <= AmountPaid(m)

\* Custody exists with its local token only: removing a local token strands
\* no tokens behind it, and nothing is paid into or out of a closed custody.
NoTokensStranded == \A m \in Mints : ~Exists(m) => balances[Custody[m]] = 0

\* The recipient of a message receives at least its amount less the maximum
\* fee, even when it is also the fee recipient.
RecipientIsPaid ==
  [][\A n \in Nonces :
       minted'[n] # minted[n] /\ minted'[n].mint_recipient # Custody[minted'[n].mint] =>
         LET p == minted'[n]
         IN  balances'[p.mint_recipient] - balances[p.mint_recipient]
               >= p.amount + p.fee_collected - p.max_fee]_vars

\* While the minter is paused nothing is sent or paid and no local token is
\* removed; the token controller can still burn what is in custody.
PausedHoldsTokens ==
  [][token_minter.paused =>
       /\ UNCHANGED <<sent, minted>>
       /\ \A m \in Mints : Exists(m) => Exists(m)']_vars

\* The minimum fee set_min_fee requires (set_min_fee.rs:48): below the whole
\* amount.  Does not hold: initialize stores the fee it is given.
MinFeeBelowMultiplier == MIN_FEE_MULTIPLIER > token_messenger.min_fee

\* What link_token_pair.rs:47 says: linking fails if a token pair is linked
\* for the domain.  Does not hold: it fails only for the same remote token.
OnePairPerDomain ==
  \A d \in Domains :
    Cardinality({t \in RemoteTokens : token_pairs[d][t] # NoAccount}) <= 1

\* The program keeps the token ledger.
Ledger == INSTANCE TokenLedger WITH
  custody <- [m \in Mints |-> balances[Custody[m]]],
  paid <- minted,
  Unpaid <- NoAccount
LedgerSpec == Ledger!Spec
=============================================================================
