----------------------------- MODULE DepositProxy -----------------------------
(***************************************************************************)
(* The DepositProxyV2 program beside TokenMessengerMinterV2: a vault holds *)
(* tokens that its transfer manager can only burn, to the destination its  *)
(* admin has set, by calling deposit_for_burn in the name of the vault's   *)
(* authority.  The authority is a derived address: nobody signs for it but *)
(* this program.                                                           *)
(*                                                                         *)
(* The actions of TokenMessengerMinter are those of everybody else; every  *)
(* action here is one instruction, with the instruction it calls.          *)
(***************************************************************************)
EXTENDS TokenMessengerMinter

CONSTANTS
  VaultIds,
  VaultAuthority,               \* the derived authority of each vault
  UpgradeAuthority,             \* external: who may upgrade this program
  VaultKeys,                    \* keys that become admin or transfer manager
  TokenMessengerMinterProgram,  \* the program ids this program was built with
  MessageTransmitterProgram,
  ProgramIds,                   \* program ids that vaults are told to allow
  Destinations,                 \* domain, recipient and caller given to a vault
  BurnParams                    \* amount, fee and finality given to a burn

VARIABLES
  vaults,   \* the vault account of each id
  opened    \* token accounts that exist

proxy_vars == <<vaults, opened>>

Authorities == {VaultAuthority[v] : v \in VaultIds}

VaultAtas == {Ata[w][m] : w \in Authorities, m \in Mints}

Destination == [destination_domain: Domains, mint_recipient: Nat, destination_caller: Nat]

Vault ==
  [admin: VaultKeys, transfer_manager: VaultKeys, burn_token_mint: Mints,
   destination: Destinations, allowed_token_messenger_minter_program: Nat,
   allowed_message_transmitter_program: Nat]

\* The parameters of deposit_for_burn that a vault and its manager make up.
DepositParamsOf(destination, params) ==
  [amount |-> params.amount, destination_domain |-> destination.destination_domain,
   mint_recipient |-> destination.mint_recipient,
   destination_caller |-> destination.destination_caller,
   max_fee |-> params.max_fee, min_finality_threshold |-> params.min_finality_threshold]

ASSUME VaultAssumption ==
  /\ VaultAuthority \in [VaultIds -> Wallets \ (RoleKeys \union FeeRecipients \union VaultKeys)]
  /\ \A v1, v2 \in VaultIds : VaultAuthority[v1] = VaultAuthority[v2] => v1 = v2
  /\ UpgradeAuthority \in VaultKeys
  /\ VaultKeys \subseteq Nat \ {Default}
  /\ \A w \in Authorities, m \in Mints :
       /\ Ata[w][m] \in TokenAccounts
       /\ AccountOwner[Ata[w][m]] = w
       /\ AccountMint[Ata[w][m]] = m
       /\ InitialBalances[Ata[w][m]] = 0

ASSUME ProxyParamsAssumption ==
  /\ {TokenMessengerMinterProgram, MessageTransmitterProgram} \subseteq Nat \ {Default}
  /\ ProgramIds \subseteq Nat
  /\ Destinations \subseteq Destination
  /\ \A destination \in Destinations, params \in BurnParams :
       DepositParamsOf(destination, params) \in DepositParams
  /\ NoAccount \notin Vault \union Destination

-----------------------------------------------------------------------------
ProxyInit ==
  /\ Init
  /\ vaults = [v \in VaultIds |-> NoAccount]
  /\ opened = TokenAccounts \ VaultAtas

VaultExists(v) == vaults[v] # NoAccount

\* What an init of the vault's token account would be with init_if_needed.
CanOpenIfNeeded(account) == account \in TokenAccounts

CanOpen(account) == account \in TokenAccounts \ opened

\* The payer is the upgrade authority and becomes admin and manager.  The
\* programs are those this one was built with.  init fails on an account that
\* exists.
InitializeVault(payer, v, mint, destination) ==
  /\ destination.mint_recipient # Default
  /\ payer = UpgradeAuthority
  /\ ~VaultExists(v)
  /\ CanOpen(Ata[VaultAuthority[v]][mint])
  /\ opened' = opened \union {Ata[VaultAuthority[v]][mint]}
  /\ vaults' = [vaults EXCEPT ![v] =
       [admin |-> payer, transfer_manager |-> payer, burn_token_mint |-> mint,
        destination |-> destination,
        allowed_token_messenger_minter_program |-> TokenMessengerMinterProgram,
        allowed_message_transmitter_program |-> MessageTransmitterProgram]]
  /\ UNCHANGED vars

IsAdmin(v, signer) == VaultExists(v) /\ signer = vaults[v].admin

SetAdmin(signer, v, new_admin) ==
  /\ IsAdmin(v, signer)
  /\ new_admin # Default
  /\ vaults' = [vaults EXCEPT ![v].admin = new_admin]
  /\ UNCHANGED <<vars, opened>>

SetTransferManager(signer, v, new_transfer_manager) ==
  /\ IsAdmin(v, signer)
  /\ new_transfer_manager # Default
  /\ vaults' = [vaults EXCEPT ![v].transfer_manager = new_transfer_manager]
  /\ UNCHANGED <<vars, opened>>

SetAllowedTokenMessengerMinterProgram(signer, v, program_id) ==
  /\ IsAdmin(v, signer)
  /\ program_id # Default
  /\ vaults' = [vaults EXCEPT ![v].allowed_token_messenger_minter_program = program_id]
  /\ UNCHANGED <<vars, opened>>

SetAllowedMessageTransmitterProgram(signer, v, program_id) ==
  /\ IsAdmin(v, signer)
  /\ program_id # Default
  /\ vaults' = [vaults EXCEPT ![v].allowed_message_transmitter_program = program_id]
  /\ UNCHANGED <<vars, opened>>

SetDestinationUnchecked(signer, v, destination) ==
  /\ IsAdmin(v, signer)
  /\ vaults' = [vaults EXCEPT ![v].destination = destination]
  /\ UNCHANGED <<vars, opened>>

SetDestination(signer, v, destination) ==
  /\ IsAdmin(v, signer)
  /\ destination.mint_recipient # Default
  /\ vaults' = [vaults EXCEPT ![v].destination = destination]
  /\ UNCHANGED <<vars, opened>>

\* The programs of a call are those this one was built with, so that a vault
\* that allows another cannot burn.
ProgramsAllowed(v) ==
  /\ vaults[v].allowed_token_messenger_minter_program = TokenMessengerMinterProgram
  /\ vaults[v].allowed_message_transmitter_program = MessageTransmitterProgram

\* Any account of the authority, as if neither mint nor address were checked.
IsOfAuthority(v, account) == AccountOwner[account] = VaultAuthority[v]

IsVaultTokenAccount(v, account) ==
  account = Ata[VaultAuthority[v]][vaults[v].burn_token_mint]

BurnForDeposit(signer, v, account, params) ==
  /\ VaultExists(v)
  /\ params.amount > 0
  /\ signer = vaults[v].transfer_manager
  /\ ProgramsAllowed(v)
  /\ IsVaultTokenAccount(v, account)
  /\ account \in opened
  /\ DepositForBurn(VaultAuthority[v], account, DepositParamsOf(vaults[v].destination, params))
  /\ UNCHANGED proxy_vars

\* An SPL transfer of tokens the authority owns; the account need not be the
\* vault's associated one, and may be the one they go to.
RescueTransferOfAnyMint(signer, v, from, to, amount) ==
  /\ amount > 0
  /\ IsAdmin(v, signer)
  /\ {from, to} \subseteq opened
  /\ AccountOwner[from] = VaultAuthority[v]
  /\ AccountMint[from] = AccountMint[to]
  /\ AccountOwner[to] = Minter => Exists(AccountMint[to])
  /\ amount <= balances[from]
  /\ balances' = Transferred(from, to, amount, balances)
  /\ UNCHANGED <<initialized, token_messenger, token_minter, registry, local_tokens,
                 sent, minted, destroyed, slot, proxy_vars>>

RescueTransfer(signer, v, from, to, amount) ==
  /\ amount > 0
  /\ IsAdmin(v, signer)
  /\ {from, to} \subseteq opened
  /\ AccountMint[to] = vaults[v].burn_token_mint
  /\ AccountOwner[from] = VaultAuthority[v]
  /\ AccountMint[from] = AccountMint[to]
  /\ AccountOwner[to] = Minter => Exists(AccountMint[to])
  /\ amount <= balances[from]
  /\ balances' = Transferred(from, to, amount, balances)
  /\ UNCHANGED <<initialized, token_messenger, token_minter, registry, local_tokens,
                 sent, minted, destroyed, slot, proxy_vars>>

-----------------------------------------------------------------------------
\* Anyone opens the associated account of any wallet.
OpenAccount(account) ==
  /\ CanOpen(account)
  /\ opened' = opened \union {account}
  /\ UNCHANGED <<vars, vaults>>

VaultNext ==
  \E signer \in VaultKeys, v \in VaultIds :
    \/ \E mint \in Mints, destination \in Destinations :
         InitializeVault(signer, v, mint, destination)
    \/ \E key \in VaultKeys \union {Default} :
         SetAdmin(signer, v, key) \/ SetTransferManager(signer, v, key)
    \/ \E program_id \in ProgramIds \union {Default} :
         \/ SetAllowedTokenMessengerMinterProgram(signer, v, program_id)
         \/ SetAllowedMessageTransmitterProgram(signer, v, program_id)
    \/ \E destination \in Destinations : SetDestination(signer, v, destination)
    \/ \E account \in TokenAccounts, params \in BurnParams :
         BurnForDeposit(signer, v, account, params)
    \/ \E from, to \in TokenAccounts : \E amount \in 1..balances[from] :
         RescueTransfer(signer, v, from, to, amount)

\* Everybody but the vaults' authorities uses the token messenger and minter
\* directly, with accounts that exist.
ProxyNext ==
  \/ VaultNext
  \/ \E account \in TokenAccounts : OpenAccount(account)
  \/ /\ RoleNext \/ RegistryNext \/ LocalTokenNext
        \/ TransferBy(Wallets \ Authorities, opened)
     /\ UNCHANGED proxy_vars

ProxySpec == ProxyInit /\ [][ProxyNext]_<<vars, proxy_vars>>

-----------------------------------------------------------------------------
(***************************************************************************)
(* Properties.                                                             *)
(***************************************************************************)
\* The type of the variables of the proxy; whatever a vault is told, it keeps a
\* recipient, and its own token account stays open.
ProxyTypeOK ==
  /\ vaults \in [VaultIds -> Vault \union {NoAccount}]
  /\ opened \subseteq TokenAccounts
  /\ \A v \in VaultIds : VaultExists(v) =>
       /\ vaults[v].destination.mint_recipient # Default
       /\ Ata[VaultAuthority[v]][vaults[v].burn_token_mint] \in opened

\* Nothing is ever sent in the name of a vault's authority but burns of the
\* vault's own mint, after the vault was made, and each can be paid on the
\* other side: it has a recipient and leaves something above the fee.
VaultSendsOwnMint ==
  \A i \in DOMAIN sent, v \in VaultIds :
    sent[i].message_body.message_sender = VaultAuthority[v] =>
      /\ VaultExists(v)
      /\ sent[i].message_body.burn_token = vaults[v].burn_token_mint
      /\ sent[i].message_body.mint_recipient # Default
      /\ sent[i].message_body.max_fee < sent[i].message_body.amount

\* Tokens of a vault's authority, in whatever account, leave it only if they
\* are of the mint of its vault; from an account other than the associated one
\* they leave without a burn.  Tokens of another mint sent there stay there.
AuthorityTokensStay ==
  [][\A v \in VaultIds, a \in TokenAccounts :
       AccountOwner[a] = VaultAuthority[v] /\ balances'[a] < balances[a] =>
         /\ VaultExists(v)
         /\ AccountMint[a] = vaults[v].burn_token_mint
         /\ ~IsVaultTokenAccount(v, a) => UNCHANGED sent]_<<vars, proxy_vars>>

\* The program beside the proxy is still the token messenger and minter, with
\* everything proved about it.
MinterSpec == Spec

\* The proxy keeps its vaults' ledger.
VaultHolds(v) ==
  IF VaultExists(v) THEN balances[Ata[VaultAuthority[v]][vaults[v].burn_token_mint]] ELSE 0

BurnOf(message) ==
  [owner |-> message.message_body.message_sender, amount |-> message.message_body.amount,
   destination |-> [destination_domain |-> message.destination_domain,
                    mint_recipient |-> message.message_body.mint_recipient,
                    destination_caller |-> message.destination_caller]]

VaultsLedger == INSTANCE VaultLedger WITH
  Vaults <- VaultIds,
  Authority <- VaultAuthority,
  NoDestination <- NoAccount,
  held <- [v \in VaultIds |-> VaultHolds(v)],
  destination <- [v \in VaultIds |->
                    IF VaultExists(v) THEN vaults[v].destination ELSE NoAccount],
  burns <- [i \in DOMAIN sent |-> BurnOf(sent[i])]
VaultLedgerSpec == VaultsLedger!Spec
=============================================================================
