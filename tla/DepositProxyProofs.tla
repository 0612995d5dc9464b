-------------------------- MODULE DepositProxyProofs --------------------------
(***************************************************************************)
(* Proofs about DepositProxy, for any vaults, destinations and accounts.   *)
(***************************************************************************)
EXTENDS DepositProxy, TokenMessengerMinterProofs

all_vars == <<vars, proxy_vars>>

(***************************************************************************)
(* Beside the proxy, the token messenger and minter is what it was.        *)
(***************************************************************************)
\* A transfer from an account to itself changes nothing.
LEMMA SelfTransfer ==
  ASSUME TypeOK, NEW a \in TokenAccounts, NEW amount \in Nat, amount <= balances[a]
  PROVE  Transferred(a, a, amount, balances) = balances
<1>1. balances \in [TokenAccounts -> Nat] /\ balances[a] \in Nat
  BY DEF TypeOK
<1>2. /\ Transferred(a, a, amount, balances) \in [TokenAccounts -> Nat]
      /\ \A b \in TokenAccounts :
           Transferred(a, a, amount, balances)[b] =
             (balances[b] + (IF b = a THEN amount ELSE 0)) - (IF b = a THEN amount ELSE 0)
  BY <1>1, TransferredType
<1>3. \A b \in TokenAccounts : Transferred(a, a, amount, balances)[b] = balances[b]
  BY <1>1, <1>2
<1>4. QED  BY <1>1, <1>2, <1>3

\* A burn of a vault is a deposit of its authority.
LEMMA BurnIsDeposit ==
  ASSUME ProxyTypeOK, NEW signer \in VaultKeys, NEW v \in VaultIds, NEW account \in TokenAccounts,
         NEW params \in BurnParams, BurnForDeposit(signer, v, account, params)
  PROVE  /\ VaultAuthority[v] \in Wallets
         /\ vaults[v] \in Vault /\ vaults[v].destination \in Destinations
         /\ DepositParamsOf(vaults[v].destination, params) \in DepositParams
         /\ DepositForBurn(VaultAuthority[v], account,
                           DepositParamsOf(vaults[v].destination, params))
<1>1. vaults[v] \in Vault /\ vaults[v].destination \in Destinations
  BY DEF BurnForDeposit, ProxyTypeOK, VaultExists, Vault
<1>2. QED  BY <1>1, VaultAssumption, ProxyParamsAssumption DEF BurnForDeposit

\* A step of others with accounts that exist is one of theirs with any account.
LEMMA OthersStep ==
  ASSUME opened \subseteq TokenAccounts, TransferBy(Wallets \ Authorities, opened)
  PROVE  TransferNext
BY DEF TransferBy, TransferNext

\* Every step is a step of the token messenger and minter, or none.
LEMMA MinterStep ==
  TypeOK /\ ProxyTypeOK /\ [ProxyNext]_all_vars => [Next]_vars
<1> SUFFICES ASSUME TypeOK, ProxyTypeOK, [ProxyNext]_all_vars
             PROVE  [Next]_vars
  OBVIOUS
<1>1. ASSUME NEW signer \in VaultKeys, NEW v \in VaultIds, NEW account \in TokenAccounts,
             NEW params \in BurnParams, BurnForDeposit(signer, v, account, params)
      PROVE  Next
  BY <1>1, BurnIsDeposit DEF Next, TransferNext, TransferBy
<1>2. ASSUME NEW signer \in VaultKeys, NEW v \in VaultIds, NEW from \in TokenAccounts,
             NEW to \in TokenAccounts, NEW amount \in 1..balances[from],
             RescueTransfer(signer, v, from, to, amount)
      PROVE  [Next]_vars
  <2>1. balances[from] \in Nat /\ amount \in Nat /\ amount <= balances[from]
    BY <1>2 DEF TypeOK
  <2>2. CASE from = to
    BY <1>2, <2>1, <2>2, SelfTransfer DEF RescueTransfer, vars, tokens, registry
  <2>3. CASE from # to
    <3>1. AccountOwner[from] \in Wallets
      BY <1>2, VaultAssumption DEF RescueTransfer
    <3>2. SplTransfer(from, to, amount)
      BY <1>2, <2>3, <3>1 DEF RescueTransfer, SplTransfer
    <3>3. QED  BY <3>1, <3>2 DEF Next, TransferNext, TransferBy
  <2>4. QED  BY <2>2, <2>3
<1>3. ASSUME VaultNext,
             ~ \E signer \in VaultKeys, v \in VaultIds, account \in TokenAccounts,
                  params \in BurnParams : BurnForDeposit(signer, v, account, params),
             ~ \E signer \in VaultKeys, v \in VaultIds, from, to \in TokenAccounts :
                  \E amount \in 1..balances[from] : RescueTransfer(signer, v, from, to, amount)
      PROVE  UNCHANGED vars
  BY <1>3 DEF VaultNext, InitializeVault, SetAdmin, SetTransferManager, SetDestination,
              SetAllowedTokenMessengerMinterProgram, SetAllowedMessageTransmitterProgram
<1>4. ASSUME RoleNext \/ RegistryNext \/ LocalTokenNext \/ TransferBy(Wallets \ Authorities, opened)
      PROVE  Next
  BY <1>4, OthersStep DEF Next, ProxyTypeOK
<1>5. ASSUME NEW account \in TokenAccounts, OpenAccount(account)
      PROVE  UNCHANGED vars
  BY <1>5 DEF OpenAccount
<1>6. CASE UNCHANGED all_vars
  BY <1>6 DEF all_vars
<1>7. QED  BY <1>1, <1>2, <1>3, <1>4, <1>5, <1>6 DEF ProxyNext

(***************************************************************************)
(* Typing.                                                                 *)
(***************************************************************************)
\* A setter of the admin changes the vault account and neither its mint nor
\* that it has a recipient.
LEMMA SetterStep ==
  ASSUME ProxyTypeOK, VaultNext, ~ UNCHANGED vaults
  PROVE  \/ \E signer \in VaultKeys, v \in VaultIds, mint \in Mints, destination \in Destinations :
              InitializeVault(signer, v, mint, destination)
         \/ /\ UNCHANGED <<vars, opened>>
            /\ \E v \in VaultIds :
                 /\ VaultExists(v)
                 /\ vaults'[v] \in Vault
                 /\ vaults'[v].burn_token_mint = vaults[v].burn_token_mint
                 /\ vaults'[v].destination.mint_recipient # Default
                 /\ vaults' = [vaults EXCEPT ![v] = vaults'[v]]
<1> SUFFICES ASSUME NEW signer \in VaultKeys, NEW v \in VaultIds, VaultExists(v),
                    UNCHANGED <<vars, opened>>,
                    \/ \E key \in VaultKeys :
                         \/ vaults' = [vaults EXCEPT ![v].admin = key]
                         \/ vaults' = [vaults EXCEPT ![v].transfer_manager = key]
                    \/ \E program_id \in ProgramIds :
                         \/ vaults' = [vaults EXCEPT ![v].allowed_token_messenger_minter_program = program_id]
                         \/ vaults' = [vaults EXCEPT ![v].allowed_message_transmitter_program = program_id]
                    \/ \E destination \in Destinations :
                         /\ destination.mint_recipient # Default
                         /\ vaults' = [vaults EXCEPT ![v].destination = destination]
             PROVE  /\ vaults'[v] \in Vault
                    /\ vaults'[v].burn_token_mint = vaults[v].burn_token_mint
                    /\ vaults'[v].destination.mint_recipient # Default
                    /\ vaults' = [vaults EXCEPT ![v] = vaults'[v]]
  BY DEF VaultNext, SetAdmin, SetTransferManager, SetDestination,
         SetAllowedTokenMessengerMinterProgram, SetAllowedMessageTransmitterProgram,
         BurnForDeposit, RescueTransfer, proxy_vars, IsAdmin
<1>1. /\ vaults \in [VaultIds -> Vault \union {NoAccount}]
      /\ vaults[v] \in Vault
      /\ vaults[v].destination.mint_recipient # Default
  BY DEF ProxyTypeOK, VaultExists
<1>2. ProgramIds \subseteq Nat
  BY ProxyParamsAssumption
<1>3. vaults' = [vaults EXCEPT ![v] = vaults'[v]]
  BY <1>1
<1>4. QED  BY <1>1, <1>2, <1>3 DEF Vault

\* Accounts are opened and never closed; a new vault's own account is opened
\* with it.
LEMMA OpenedStep ==
  ASSUME ProxyTypeOK, [ProxyNext]_all_vars
  PROVE  /\ opened \subseteq opened' /\ opened' \subseteq TokenAccounts
         /\ \/ UNCHANGED vaults
            \/ \E signer \in VaultKeys, v \in VaultIds, mint \in Mints,
                  destination \in Destinations : InitializeVault(signer, v, mint, destination)
            \/ \E v \in VaultIds :
                 /\ UNCHANGED <<vars, opened>>
                 /\ VaultExists(v)
                 /\ vaults'[v] \in Vault
                 /\ vaults'[v].burn_token_mint = vaults[v].burn_token_mint
                 /\ vaults'[v].destination.mint_recipient # Default
                 /\ vaults' = [vaults EXCEPT ![v] = vaults'[v]]
<1>1. opened \subseteq opened' /\ opened' \subseteq TokenAccounts
  <2>1. opened \subseteq TokenAccounts
    BY DEF ProxyTypeOK
  <2>2. CASE VaultNext
    BY <2>1, <2>2
       DEF VaultNext, InitializeVault, CanOpen, SetAdmin, SetTransferManager, SetDestination,
           SetAllowedTokenMessengerMinterProgram, SetAllowedMessageTransmitterProgram,
           BurnForDeposit, RescueTransfer, proxy_vars
  <2>3. ASSUME NEW account \in TokenAccounts, OpenAccount(account)
        PROVE  opened \subseteq opened' /\ opened' \subseteq TokenAccounts
    BY <2>1, <2>3 DEF OpenAccount, CanOpen
  <2>4. UNCHANGED proxy_vars => opened \subseteq opened' /\ opened' \subseteq TokenAccounts
    BY <2>1 DEF proxy_vars
  <2>5. QED  BY <2>2, <2>3, <2>4 DEF ProxyNext, all_vars
<1>2. ~ UNCHANGED vaults => VaultNext
  BY DEF ProxyNext, OpenAccount, proxy_vars, all_vars
<1>3. QED  BY <1>1, <1>2, SetterStep

LEMMA ProxyTypeStep == ProxyTypeOK /\ [ProxyNext]_all_vars => ProxyTypeOK'
<1> SUFFICES ASSUME ProxyTypeOK, [ProxyNext]_all_vars
             PROVE  ProxyTypeOK'
  OBVIOUS
<1>1. CASE UNCHANGED vaults
  BY <1>1, OpenedStep DEF ProxyTypeOK, VaultExists
<1>2. ASSUME NEW signer \in VaultKeys, NEW v \in VaultIds, NEW mint \in Mints,
             NEW destination \in Destinations, InitializeVault(signer, v, mint, destination)
      PROVE  ProxyTypeOK'
  <2>1. /\ vaults'[v] \in Vault /\ vaults'[v] # NoAccount
        /\ vaults'[v].burn_token_mint = mint
        /\ vaults'[v].destination.mint_recipient # Default
        /\ \A w \in VaultIds \ {v} : vaults'[w] = vaults[w]
        /\ vaults' \in [VaultIds -> Vault \union {NoAccount}]
    BY <1>2, ProxyParamsAssumption DEF InitializeVault, ProxyTypeOK, Vault
  <2>2. Ata[VaultAuthority[v]][mint] \in opened'
    BY <1>2 DEF InitializeVault
  <2>3. QED  BY <2>1, <2>2, OpenedStep DEF ProxyTypeOK, VaultExists
<1>3. ASSUME NEW v \in VaultIds,
             /\ VaultExists(v)
             /\ vaults'[v] \in Vault
             /\ vaults'[v].burn_token_mint = vaults[v].burn_token_mint
             /\ vaults'[v].destination.mint_recipient # Default
             /\ vaults' = [vaults EXCEPT ![v] = vaults'[v]]
      PROVE  ProxyTypeOK'
  <2>1. /\ \A w \in VaultIds \ {v} : vaults'[w] = vaults[w]
        /\ vaults' \in [VaultIds -> Vault \union {NoAccount}]
    BY <1>3 DEF ProxyTypeOK
  <2>2. QED  BY <1>3, <2>1, OpenedStep DEF ProxyTypeOK, VaultExists
<1>4. QED  BY <1>1, <1>2, <1>3, OpenedStep

\* The invariant: types of both programs and the roles that typing needs.
ProxyInv == RoleInv /\ ProxyTypeOK

LEMMA ProxyInvariant == ProxySpec => []ProxyInv
<1>1. ProxyInit => ProxyInv
  BY RoleInvInit DEF ProxyInit, ProxyInv, ProxyTypeOK, VaultExists
<1>2. ProxyInv /\ [ProxyNext]_all_vars => ProxyInv'
  BY MinterStep, RoleInvStep, ProxyTypeStep DEF ProxyInv, RoleInv
<1>3. QED  BY <1>1, <1>2, PTL DEF ProxySpec, all_vars

\* Vaults and their accounts keep their types, whatever a vault is told.
THEOREM ProxyTypeCorrect == ProxySpec => []ProxyTypeOK
BY ProxyInvariant, PTL DEF ProxyInv

\* The token messenger and minter beside the proxy behaves as it does without,
\* so that every theorem about it holds here too.
THEOREM ImplementsMinter == ProxySpec => MinterSpec
<1>1. ProxyInit => Init
  BY DEF ProxyInit
<1>2. ProxyInv /\ [ProxyNext]_all_vars => [Next]_vars
  BY MinterStep DEF ProxyInv, RoleInv
<1>3. QED  BY <1>1, <1>2, ProxyInvariant, PTL DEF ProxySpec, all_vars, MinterSpec, Spec

(***************************************************************************)
(* What each step does to the tokens of the authorities.                   *)
(***************************************************************************)
AuthorityAccounts == {a \in TokenAccounts : AccountOwner[a] \in Authorities}

\* Tokens of the authorities are at most added to, in accounts that exist, and
\* nothing is sent.
LeavesVaultsAlone ==
  /\ UNCHANGED sent
  /\ \A a \in AuthorityAccounts :
       /\ balances'[a] >= balances[a]
       /\ a \notin opened => balances'[a] = balances[a]

LEMMA AuthorityFacts ==
  /\ \A v \in VaultIds : VaultAuthority[v] \in Authorities /\ VaultAuthority[v] \in Wallets
  /\ \A v \in VaultIds, m \in Mints :
       Ata[VaultAuthority[v]][m] \in AuthorityAccounts /\ Ata[VaultAuthority[v]][m] \in VaultAtas
  /\ VaultAtas \subseteq AuthorityAccounts
  /\ \A m \in Mints : Custody[m] \notin AuthorityAccounts
BY VaultAssumption, CustodyFacts DEF Authorities, VaultAtas, AuthorityAccounts

\* The token controller moves tokens of custody only.
LEMMA ControllerStep ==
  ASSUME ProxyInv, LocalTokenNext
  PROVE  LeavesVaultsAlone
<1>1. balances \in [TokenAccounts -> Nat]
  BY DEF ProxyInv, RoleInv, TypeOK
<1>2. ASSUME NEW mint \in Mints, UNCHANGED sent,
             \/ UNCHANGED balances
             \/ \E amount : balances' = [balances EXCEPT ![Custody[mint]] = @ - amount]
      PROVE  LeavesVaultsAlone
  <2>1. ASSUME NEW a \in AuthorityAccounts
        PROVE  balances'[a] = balances[a] /\ balances[a] \in Nat
    BY <1>1, <1>2, AuthorityFacts DEF AuthorityAccounts
  <2>2. QED  BY <1>2, <2>1 DEF LeavesVaultsAlone
<1>3. QED
  BY <1>2 DEF LocalTokenNext, AddLocalToken, RemoveLocalToken, BurnTokenCustody, DestroyCustody,
              SetMaxBurnAmountPerMessage

\* A handled message pays into its recipient and the fee account.
LEMMA PaymentStep ==
  ASSUME ProxyInv, NEW m \in RemoteMessages, ReceiveMessage(m),
         m.message_body.mint_recipient \in opened,
         Ata[token_messenger.fee_recipient][AccountMint[m.message_body.mint_recipient]] \in opened
  PROVE  LeavesVaultsAlone
<1>1. PICK mint \in Mints : HandleReceiveMessage(m, mint)
  BY DEF ReceiveMessage, HandleReceiveFinalizedMessage, HandleReceiveUnfinalizedMessage
<1> DEFINE body == m.message_body
<1>2. /\ TypeOK /\ balances \in [TokenAccounts -> Nat]
      /\ body.amount \in Nat /\ body.fee_executed \in Nat /\ body.fee_executed < body.amount
      /\ body.mint_recipient \in TokenAccounts /\ AccountMint[body.mint_recipient] = mint
      /\ token_messenger.fee_recipient \in Wallets
      /\ Ata[token_messenger.fee_recipient][mint] \in TokenAccounts
      /\ balances[Custody[mint]] >= body.amount
  BY <1>1, HandledFacts DEF ProxyInv, RoleInv, RolesStayValid, TypeOK
<1>3. balances' = PaidOut(mint, body.mint_recipient, body.amount, body.fee_executed) /\ UNCHANGED sent
  BY <1>1 DEF HandleReceiveMessage
<1> HIDE DEF body
<1>4. ASSUME NEW a \in AuthorityAccounts
      PROVE  /\ balances'[a] >= balances[a]
             /\ a \notin opened => balances'[a] = balances[a]
  <2>1. a \in TokenAccounts /\ a # Custody[mint] /\ balances[a] \in Nat
    BY <1>2, AuthorityFacts DEF AuthorityAccounts
  <2>2. /\ balances'[a] >= balances[a]
        /\ a \notin {Custody[mint], body.mint_recipient, Ata[token_messenger.fee_recipient][mint]} =>
             balances'[a] = balances[a]
    BY <1>2, <1>3, <2>1, PaidOutType
  <2>3. QED  BY <1>2, <2>1, <2>2 DEF body
<1>5. QED  BY <1>3, <1>4 DEF LeavesVaultsAlone

\* Others move their own tokens.
LEMMA OthersTransferStep ==
  ASSUME ProxyInv, NEW from \in opened, NEW to \in opened, NEW amount \in 1..balances[from],
         AccountOwner[from] \in Wallets \ Authorities, SplTransfer(from, to, amount)
  PROVE  LeavesVaultsAlone
<1>1. /\ balances \in [TokenAccounts -> Nat]
      /\ from \in TokenAccounts /\ to \in TokenAccounts
      /\ amount \in Nat /\ amount <= balances[from]
  BY DEF ProxyInv, RoleInv, TypeOK, ProxyTypeOK
<1>2. \A a \in TokenAccounts :
        balances'[a] = (balances[a] + (IF a = to THEN amount ELSE 0))
                         - (IF a = from THEN amount ELSE 0)
  BY <1>1, TransferredType DEF SplTransfer
<1>3. ASSUME NEW a \in AuthorityAccounts
      PROVE  /\ balances'[a] >= balances[a]
             /\ a \notin opened => balances'[a] = balances[a]
  <2>1. a \in TokenAccounts /\ a # from /\ balances[a] \in Nat
    BY <1>1 DEF AuthorityAccounts
  <2>2. QED  BY <1>1, <1>2, <2>1
<1>4. QED  BY <1>3 DEF LeavesVaultsAlone, SplTransfer

LEMMA UntouchedTokens ==
  ASSUME ProxyInv, UNCHANGED <<balances, sent>>
  PROVE  LeavesVaultsAlone
BY DEF ProxyInv, RoleInv, TypeOK, LeavesVaultsAlone, AuthorityAccounts

\* Every step is a burn of a vault, a rescue, a deposit of somebody else, a
\* change of a vault account, or leaves the vaults and their tokens alone.
LEMMA VaultStepCases ==
  ASSUME ProxyInv, [ProxyNext]_all_vars
  PROVE  \/ \E signer \in VaultKeys, v \in VaultIds, account \in TokenAccounts,
               params \in BurnParams : BurnForDeposit(signer, v, account, params)
         \/ \E signer \in VaultKeys, v \in VaultIds, from, to \in TokenAccounts :
              \E amount \in 1..balances[from] : RescueTransfer(signer, v, from, to, amount)
         \/ /\ UNCHANGED proxy_vars
            /\ \E wallet \in Wallets \ Authorities, account \in opened, params \in DepositParams,
                  hook \in Hooks \union {NoHook} :
                 DepositForBurnHelper(wallet, account, params, hook)
         \/ UNCHANGED vars
         \/ UNCHANGED proxy_vars /\ LeavesVaultsAlone
<1>1. VaultNext => \/ \E signer \in VaultKeys, v \in VaultIds, account \in TokenAccounts,
                         params \in BurnParams : BurnForDeposit(signer, v, account, params)
                   \/ \E signer \in VaultKeys, v \in VaultIds, from, to \in TokenAccounts :
                        \E amount \in 1..balances[from] : RescueTransfer(signer, v, from, to, amount)
                   \/ UNCHANGED vars
  BY DEF VaultNext, InitializeVault, SetAdmin, SetTransferManager, SetDestination,
         SetAllowedTokenMessengerMinterProgram, SetAllowedMessageTransmitterProgram
<1>2. ASSUME NEW account \in TokenAccounts, OpenAccount(account)
      PROVE  UNCHANGED vars
  BY <1>2 DEF OpenAccount
<1>3. RoleNext \/ RegistryNext => LeavesVaultsAlone
  <2>1. RoleNext => UNCHANGED tokens
    BY DEF RoleNext, Initialize, TransferOwnership, AcceptOwnership, UpdateDenylister,
           SetFeeRecipient, SetMinFeeController, SetMinFee, SetTokenController, UpdatePauser,
           Pause, Unpause
  <2>2. RegistryNext => UNCHANGED tokens
    BY DEF RegistryNext, AddRemoteTokenMessenger, RemoveRemoteTokenMessenger,
           DenylistAccount, UndenylistAccount, LinkTokenPair, UnlinkTokenPair
  <2>3. QED  BY <2>1, <2>2, UntouchedTokens DEF tokens
<1>4. NextSlot => LeavesVaultsAlone
  BY UntouchedTokens DEF NextSlot, tokens
<1>5. TransferBy(Wallets \ Authorities, opened) =>
        \/ LeavesVaultsAlone
        \/ \E wallet \in Wallets \ Authorities, account \in opened, params \in DepositParams,
              hook \in Hooks \union {NoHook} :
             DepositForBurnHelper(wallet, account, params, hook)
  BY <1>4, PaymentStep, OthersTransferStep DEF TransferBy, DepositForBurn, DepositForBurnWithHook
<1>6. QED  BY <1>1, <1>2, <1>3, <1>5, ControllerStep DEF ProxyNext, all_vars

\* The message and the balance of a deposit.
LEMMA DepositEffect ==
  ASSUME TypeOK, NEW wallet \in Wallets, NEW account \in TokenAccounts,
         NEW params \in DepositParams, NEW hook \in Hooks \union {NoHook},
         DepositForBurnHelper(wallet, account, params, hook)
  PROVE  /\ AccountOwner[account] = wallet
         /\ params.amount \in Nat /\ params.amount > 0 /\ params.amount <= balances[account]
         /\ \A a \in TokenAccounts :
              balances'[a] = balances[a] - (IF a = account THEN params.amount ELSE 0)
         /\ Len(sent) \in Nat /\ DOMAIN sent = 1..Len(sent)
         /\ Len(sent') = Len(sent) + 1 /\ DOMAIN sent' = 1..(Len(sent) + 1)
         /\ \A i \in 1..Len(sent) : sent'[i] = sent[i]
         /\ LET message == sent'[Len(sent) + 1]
            IN  /\ message.message_body.message_sender = wallet
                /\ message.message_body.burn_token = AccountMint[account]
                /\ message.message_body.amount = params.amount
                /\ message.message_body.max_fee = params.max_fee
                /\ message.message_body.max_fee < params.amount
                /\ message.message_body.mint_recipient = params.mint_recipient
                /\ message.message_body.mint_recipient # Default
                /\ message.destination_domain = params.destination_domain
                /\ message.destination_caller = params.destination_caller
<1> DEFINE body == FormatMessage(wallet, AccountMint[account], params, hook)
           message == [destination_domain |-> params.destination_domain,
             recipient |-> remote_token_messengers[params.destination_domain],
             message_body |-> body,
             destination_caller |-> params.destination_caller,
             min_finality_threshold |-> params.min_finality_threshold]
<1>1. message \in SentMessage
  BY DepositMessageType DEF DepositForBurnHelper
<1>2. sent' = Append(sent, message)
  BY DEF DepositForBurnHelper, SendMessage
<1>3. params.amount \in Nat /\ params.max_fee \in Nat /\ params.amount > 0
  BY ParamsAssumption, BoundsAssumption DEF DepositForBurnHelper, DepositForBurnParams
<1>4. /\ message.message_body.message_sender = wallet
      /\ message.message_body.burn_token = AccountMint[account]
      /\ message.message_body.amount = params.amount
      /\ message.message_body.max_fee = params.max_fee
      /\ message.message_body.max_fee < params.amount
      /\ message.message_body.mint_recipient = params.mint_recipient
      /\ message.message_body.mint_recipient # Default
      /\ message.destination_domain = params.destination_domain
      /\ message.destination_caller = params.destination_caller
  BY <1>3 DEF FormatMessage, DepositForBurnHelper, CoversFees
<1> HIDE DEF message
<1>5. /\ Len(sent) \in Nat /\ DOMAIN sent = 1..Len(sent)
      /\ Len(sent') = Len(sent) + 1 /\ DOMAIN sent' = 1..(Len(sent) + 1)
      /\ sent'[Len(sent) + 1] = message
      /\ \A i \in 1..Len(sent) : sent'[i] = sent[i]
  BY <1>1, <1>2, AppendProperties, LenProperties DEF TypeOK
<1>6. /\ params.amount <= balances[account]
      /\ \A a \in TokenAccounts :
           balances'[a] = balances[a] - (IF a = account THEN params.amount ELSE 0)
  BY <1>3 DEF DepositForBurnHelper, Burn, TypeOK
<1>7. AccountOwner[account] = wallet
  BY DEF DepositForBurnHelper
<1>8. QED  BY <1>3, <1>4, <1>5, <1>6, <1>7

\* What a burn of a vault sends and takes.
LEMMA BurnEffect ==
  ASSUME ProxyInv, NEW signer \in VaultKeys, NEW v \in VaultIds, NEW account \in TokenAccounts,
         NEW params \in BurnParams, BurnForDeposit(signer, v, account, params)
  PROVE  /\ VaultExists(v) /\ vaults[v] \in Vault /\ UNCHANGED proxy_vars
         /\ account = Ata[VaultAuthority[v]][vaults[v].burn_token_mint]
         /\ AccountMint[account] = vaults[v].burn_token_mint
         /\ LET deposit == DepositParamsOf(vaults[v].destination, params)
            IN  /\ deposit \in DepositParams
                /\ DepositForBurnHelper(VaultAuthority[v], account, deposit, NoHook)
<1>1. vaults[v] \in Vault /\ vaults[v].burn_token_mint \in Mints
  BY BurnIsDeposit DEF ProxyInv, Vault
<1>2. account = Ata[VaultAuthority[v]][vaults[v].burn_token_mint]
  BY DEF BurnForDeposit, IsVaultTokenAccount
<1>3. AccountMint[account] = vaults[v].burn_token_mint
  BY <1>1, <1>2, VaultAssumption DEF Authorities
<1>4. QED
  BY <1>1, <1>2, <1>3, BurnIsDeposit DEF ProxyInv, BurnForDeposit, DepositForBurn

(***************************************************************************)
(* What is sent in the name of a vault.                                    *)
(***************************************************************************)
LEMMA OneAuthority ==
  ASSUME NEW v \in VaultIds, NEW w \in VaultIds, VaultAuthority[v] = VaultAuthority[w]
  PROVE  v = w
BY VaultAssumption

\* A vault is never closed and keeps its mint.
LEMMA VaultsStay ==
  ASSUME ProxyTypeOK, [ProxyNext]_all_vars, NEW v \in VaultIds, VaultExists(v)
  PROVE  VaultExists(v)' /\ vaults'[v].burn_token_mint = vaults[v].burn_token_mint
<1>1. NoAccount \notin Vault /\ vaults \in [VaultIds -> Vault \union {NoAccount}]
  BY ProxyParamsAssumption DEF ProxyTypeOK
<1>2. CASE UNCHANGED vaults
  BY <1>2 DEF VaultExists
<1>3. ASSUME NEW signer \in VaultKeys, NEW w \in VaultIds, NEW mint \in Mints,
             NEW destination \in Destinations, InitializeVault(signer, w, mint, destination)
      PROVE  vaults'[v] = vaults[v]
  BY <1>1, <1>3 DEF InitializeVault, VaultExists
<1>4. ASSUME NEW w \in VaultIds,
             /\ vaults'[w] \in Vault
             /\ vaults'[w].burn_token_mint = vaults[w].burn_token_mint
             /\ vaults' = [vaults EXCEPT ![w] = vaults'[w]]
      PROVE  vaults'[v] # NoAccount /\ vaults'[v].burn_token_mint = vaults[v].burn_token_mint
  <2>1. CASE v = w
    BY <1>1, <1>4, <2>1
  <2>2. CASE v # w
    <3>1. vaults'[v] = vaults[v]
      BY <1>1, <1>4, <2>2
    <3>2. QED  BY <3>1 DEF VaultExists
  <2>3. QED  BY <2>1, <2>2
<1>5. QED  BY <1>2, <1>3, <1>4, OpenedStep DEF VaultExists

LEMMA SentStep ==
  ProxyInv /\ VaultSendsOwnMint /\ [ProxyNext]_all_vars => VaultSendsOwnMint'
<1> SUFFICES ASSUME ProxyInv, VaultSendsOwnMint, [ProxyNext]_all_vars
             PROVE  VaultSendsOwnMint'
  OBVIOUS
<1>1. \A v \in VaultIds : VaultExists(v) =>
        VaultExists(v)' /\ vaults'[v].burn_token_mint = vaults[v].burn_token_mint
  BY VaultsStay DEF ProxyInv
<1>2. CASE UNCHANGED sent
  BY <1>1, <1>2 DEF VaultSendsOwnMint
<1>3. ASSUME NEW wallet \in Wallets, NEW account \in TokenAccounts,
             NEW params \in DepositParams, NEW hook \in Hooks \union {NoHook},
             DepositForBurnHelper(wallet, account, params, hook),
             UNCHANGED proxy_vars,
             \A v \in VaultIds : wallet = VaultAuthority[v] =>
               VaultExists(v) /\ AccountMint[account] = vaults[v].burn_token_mint
      PROVE  VaultSendsOwnMint'
  <2> SUFFICES ASSUME NEW i \in DOMAIN sent', NEW v \in VaultIds,
                      sent'[i].message_body.message_sender = VaultAuthority[v]
               PROVE  /\ VaultExists(v)
                      /\ sent'[i].message_body.burn_token = vaults[v].burn_token_mint
                      /\ sent'[i].message_body.mint_recipient # Default
                      /\ sent'[i].message_body.max_fee < sent'[i].message_body.amount
    BY <1>3 DEF VaultSendsOwnMint, proxy_vars, VaultExists
  <2>1. TypeOK
    BY DEF ProxyInv, RoleInv
  <2>2. CASE i \in 1..Len(sent)
    BY <1>3, <2>1, <2>2, DepositEffect DEF VaultSendsOwnMint
  <2>3. CASE i = Len(sent) + 1
    BY <1>3, <2>1, <2>3, DepositEffect
  <2>4. QED  BY <1>3, <2>1, <2>2, <2>3, DepositEffect
<1>4. ASSUME NEW signer \in VaultKeys, NEW v \in VaultIds, NEW account \in TokenAccounts,
             NEW params \in BurnParams, BurnForDeposit(signer, v, account, params)
      PROVE  VaultSendsOwnMint'
  BY <1>3, <1>4, BurnEffect, AuthorityFacts, OneAuthority
<1>5. ASSUME UNCHANGED proxy_vars, NEW wallet \in Wallets \ Authorities, NEW account \in opened,
             NEW params \in DepositParams, NEW hook \in Hooks \union {NoHook},
             DepositForBurnHelper(wallet, account, params, hook)
      PROVE  VaultSendsOwnMint'
  BY <1>3, <1>5, AuthorityFacts DEF ProxyInv, ProxyTypeOK
<1>6. (\E signer \in VaultKeys, v \in VaultIds, from, to \in TokenAccounts :
         \E amount \in 1..balances[from] : RescueTransfer(signer, v, from, to, amount))
        => UNCHANGED sent
  BY DEF RescueTransfer
<1>7. UNCHANGED vars \/ LeavesVaultsAlone => UNCHANGED sent
  BY DEF vars, tokens, LeavesVaultsAlone
<1>8. QED  BY <1>2, <1>4, <1>5, <1>6, <1>7, VaultStepCases

\* Whatever is sent in the name of a vault is a burn of its mint that the other
\* side can pay.
THEOREM VaultsSendTheirOwn == ProxySpec => []VaultSendsOwnMint
<1>1. ProxyInit => VaultSendsOwnMint
  BY DEF ProxyInit, Init, VaultSendsOwnMint
<1>2. QED  BY <1>1, SentStep, ProxyInvariant, PTL DEF ProxySpec, all_vars

(***************************************************************************)
(* What leaves the accounts of a vault's authority.                        *)
(***************************************************************************)
\* Only a burn takes from the vault's own account, and only a rescue of the
\* vault's mint from the others, which sends nothing.
LEMMA TakenStep ==
  ASSUME ProxyInv, [ProxyNext]_all_vars, NEW v \in VaultIds, NEW a \in TokenAccounts,
         AccountOwner[a] = VaultAuthority[v], balances'[a] < balances[a]
  PROVE  /\ VaultExists(v)
         /\ AccountMint[a] = vaults[v].burn_token_mint
         /\ ~IsVaultTokenAccount(v, a) => UNCHANGED sent
<1>1. TypeOK /\ balances \in [TokenAccounts -> Nat] /\ opened \subseteq TokenAccounts
  BY DEF ProxyInv, RoleInv, TypeOK, ProxyTypeOK
<1>2. a \in AuthorityAccounts /\ balances[a] \in Nat
  BY <1>1, AuthorityFacts DEF AuthorityAccounts
<1>3. ASSUME NEW signer \in VaultKeys, NEW w \in VaultIds, NEW account \in TokenAccounts,
             NEW params \in BurnParams, BurnForDeposit(signer, w, account, params)
      PROVE  /\ VaultExists(v)
             /\ AccountMint[a] = vaults[v].burn_token_mint
             /\ IsVaultTokenAccount(v, a)
  <2>1. a = account /\ AccountOwner[account] = VaultAuthority[w]
    BY <1>1, <1>2, <1>3, BurnEffect, DepositEffect, AuthorityFacts
  <2>2. QED  BY <1>3, <2>1, BurnEffect, OneAuthority DEF IsVaultTokenAccount
<1>4. ASSUME NEW signer \in VaultKeys, NEW w \in VaultIds, NEW from \in TokenAccounts,
             NEW to \in TokenAccounts, NEW amount \in 1..balances[from],
             RescueTransfer(signer, w, from, to, amount)
      PROVE  /\ VaultExists(v)
             /\ AccountMint[a] = vaults[v].burn_token_mint
             /\ UNCHANGED sent
  <2>1. amount \in Nat /\ amount <= balances[from]
    BY <1>1
  <2>2. balances'[a] = (balances[a] + (IF a = to THEN amount ELSE 0))
                         - (IF a = from THEN amount ELSE 0)
    BY <1>1, <1>4, <2>1, TransferredType DEF RescueTransfer
  <2>3. a = from
    BY <1>2, <2>1, <2>2
  <2>4. QED  BY <1>4, <2>3, OneAuthority DEF RescueTransfer, IsAdmin
<1>5. ASSUME NEW wallet \in Wallets \ Authorities, NEW account \in opened,
             NEW params \in DepositParams, NEW hook \in Hooks \union {NoHook},
             DepositForBurnHelper(wallet, account, params, hook)
      PROVE  FALSE
  <2>1. AccountOwner[account] = wallet /\ account \in TokenAccounts
        /\ balances'[a] = balances[a] - (IF a = account THEN params.amount ELSE 0)
    BY <1>1, <1>5, DepositEffect
  <2>2. QED  BY <1>2, <2>1 DEF AuthorityAccounts
<1>6. ~ UNCHANGED vars
  BY <1>2 DEF vars, tokens
<1>7. ~ LeavesVaultsAlone
  <2>1. TypeOK'
    BY MinterStep, RoleInvStep DEF ProxyInv, RoleInv
  <2>2. balances'[a] \in Nat
    BY <2>1 DEF TypeOK
  <2>3. QED  BY <1>2, <2>2 DEF LeavesVaultsAlone
<1>8. QED  BY <1>3, <1>4, <1>5, <1>6, <1>7, VaultStepCases

\* The tokens of a vault's authority leave it by burns of its vault and, in the
\* vault's mint only, by rescues.
THEOREM AuthorityTokensKept == ProxySpec => AuthorityTokensStay
<1>1. ProxyInv /\ [ProxyNext]_all_vars =>
        [\A v \in VaultIds, a \in TokenAccounts :
           AccountOwner[a] = VaultAuthority[v] /\ balances'[a] < balances[a] =>
             /\ VaultExists(v)
             /\ AccountMint[a] = vaults[v].burn_token_mint
             /\ ~IsVaultTokenAccount(v, a) => UNCHANGED sent]_<<vars, proxy_vars>>
  BY TakenStep
<1>2. QED  BY <1>1, ProxyInvariant, PTL DEF ProxySpec, all_vars, AuthorityTokensStay
=============================================================================
