---------------------- MODULE TokenMessengerMinterProofs ----------------------
(***************************************************************************)
(* Proofs about TokenMessengerMinter, for every value of its constants.    *)
(***************************************************************************)
EXTENDS TokenMessengerMinter, TLAPS, SequenceTheorems

(***************************************************************************)
(* The minimum fee.                                                        *)
(***************************************************************************)
\* Rounding down keeps the fee below the amount, so that it also fits a u64.
LEMMA FeeBelowAmount ==
  ASSUME NEW min_fee \in Nat, MIN_FEE_MULTIPLIER > min_fee, NEW amount \in 2..MaxU64
  PROVE  FeeAmount(amount, min_fee) < amount
<1> DEFINE M == MIN_FEE_MULTIPLIER
           fee == (amount * min_fee) \div M
<1>1. M \in Nat \ {0} /\ MaxU64 \in Nat
  BY BoundsAssumption DEF MIN_FEE_MULTIPLIER
<1>2. amount \in Nat /\ amount >= 2 /\ amount <= MaxU64
  BY <1>1
<1>3. min_fee \in Nat /\ min_fee + 1 <= M
  BY <1>1
<1>4. amount * min_fee \in Nat /\ amount * min_fee < amount * M
  <2>1. amount * (min_fee + 1) <= amount * M
    BY <1>1, <1>2, <1>3
  <2>2. amount * (min_fee + 1) = amount * min_fee + amount
    BY <1>2
  <2>3. QED  BY <1>1, <1>2, <2>1, <2>2
<1>5. fee \in Nat /\ fee < amount
  BY <1>1, <1>2, <1>4 DEF MIN_FEE_MULTIPLIER
<1> HIDE DEF fee
<1>6. (IF fee > 1 THEN fee ELSE 1) \in 0..MaxU64 /\ (IF fee > 1 THEN fee ELSE 1) < amount
  BY <1>1, <1>2, <1>5
<1>7. (IF fee > 1 THEN fee ELSE 1) % (MaxU64 + 1) = IF fee > 1 THEN fee ELSE 1
  BY <1>1, <1>6
<1>8. FeeAmount(amount, min_fee) = IF min_fee = 0 THEN 0 ELSE (IF fee > 1 THEN fee ELSE 1) % (MaxU64 + 1)
  BY DEF FeeAmount, fee
<1>9. QED  BY <1>2, <1>6, <1>7, <1>8

-----------------------------------------------------------------------------
(***************************************************************************)
(* Typing.                                                                 *)
(***************************************************************************)
LEMMA TransferredType ==
  ASSUME NEW held \in [TokenAccounts -> Nat], NEW from \in TokenAccounts, NEW to \in TokenAccounts,
         NEW amount \in Nat, amount <= held[from]
  PROVE  /\ Transferred(from, to, amount, held) \in [TokenAccounts -> Nat]
         /\ \A a \in TokenAccounts :
              Transferred(from, to, amount, held)[a] =
                (held[a] + (IF a = to THEN amount ELSE 0)) - (IF a = from THEN amount ELSE 0)
<1> DEFINE taken == [held EXCEPT ![from] = held[from] - amount]
<1>1. /\ taken \in [TokenAccounts -> Nat]
      /\ \A a \in TokenAccounts : taken[a] = held[a] - (IF a = from THEN amount ELSE 0)
  OBVIOUS
<1>2. Transferred(from, to, amount, held) = [taken EXCEPT ![to] = taken[to] + amount]
  BY DEF Transferred
<1> HIDE DEF taken
<1>3. \A a \in TokenAccounts : held[a] \in Nat /\ taken[a] \in Nat
  BY <1>1
<1>4. QED  BY <1>1, <1>2, <1>3

\* What a payment does to every account, whichever of the accounts coincide.
LEMMA PaidOutType ==
  ASSUME TypeOK, NEW mint \in Mints, NEW recipient \in TokenAccounts,
         NEW amount \in Nat, NEW fee \in Nat, fee < amount,
         Ata[token_messenger.fee_recipient][mint] \in TokenAccounts,
         token_messenger.fee_recipient \in Wallets,
         balances[Custody[mint]] >= amount
  PROVE  /\ PaidOut(mint, recipient, amount, fee) \in [TokenAccounts -> Nat]
         /\ \A a \in TokenAccounts :
              /\ a # Custody[mint] => PaidOut(mint, recipient, amount, fee)[a] >= balances[a]
              /\ a # Custody[mint] /\ a = recipient =>
                   PaidOut(mint, recipient, amount, fee)[a] >= balances[a] + (amount - fee)
              /\ a = Custody[mint] =>
                   PaidOut(mint, recipient, amount, fee)[a] \in (balances[a] - amount)..balances[a]
              /\ a \notin {Custody[mint], recipient, Ata[token_messenger.fee_recipient][mint]} =>
                   PaidOut(mint, recipient, amount, fee)[a] = balances[a]
<1> DEFINE custody == Custody[mint]
           fee_account == Ata[token_messenger.fee_recipient][mint]
           fee_paid == IF fee > 0 THEN Transferred(custody, fee_account, fee, balances)
                       ELSE balances
           net == amount - fee
<1>1. /\ custody \in TokenAccounts
      /\ fee_account \in TokenAccounts
      /\ fee_account # custody
      /\ AccountOwner[custody] = Minter
  BY AccountsAssumption
<1>2. balances \in [TokenAccounts -> Nat]
  BY DEF TypeOK
<1>3. net \in Nat /\ fee <= balances[custody] /\ net + fee = amount /\ balances[custody] \in Nat
  BY <1>1, <1>2
<1>4. PaidOut(mint, recipient, amount, fee) = Transferred(custody, recipient, net, fee_paid)
  BY DEF PaidOut
<1> HIDE DEF custody, fee_account, net
<1>5. /\ fee_paid \in [TokenAccounts -> Nat]
      /\ \A a \in TokenAccounts :
           fee_paid[a] = (balances[a] + (IF a = fee_account THEN fee ELSE 0))
                           - (IF a = custody THEN fee ELSE 0)
  <2>1. CASE fee > 0
    BY <1>1, <1>2, <1>3, <2>1, TransferredType
  <2>2. CASE fee = 0
    BY <1>2, <2>2
  <2>3. QED  BY <2>1, <2>2
<1> HIDE DEF fee_paid
<1>6. net <= fee_paid[custody]
  BY <1>1, <1>2, <1>3, <1>5 DEF custody
<1>7. /\ PaidOut(mint, recipient, amount, fee) \in [TokenAccounts -> Nat]
      /\ \A a \in TokenAccounts :
           PaidOut(mint, recipient, amount, fee)[a] =
             (fee_paid[a] + (IF a = recipient THEN net ELSE 0))
               - (IF a = custody THEN net ELSE 0)
  BY <1>1, <1>3, <1>4, <1>5, <1>6, TransferredType
<1>8. \A a \in TokenAccounts : balances[a] \in Nat
  BY <1>2
<1>9. QED
  <2>1. Custody[mint] = custody /\ amount - fee = net
    BY DEF custody, net
  <2> HIDE DEF custody
  <2>2. ASSUME NEW a \in TokenAccounts
        PROVE  /\ a # custody =>
                    PaidOut(mint, recipient, amount, fee)[a]
                      = balances[a] + (IF a = fee_account THEN fee ELSE 0)
                                    + (IF a = recipient THEN net ELSE 0)
               /\ a = custody =>
                    PaidOut(mint, recipient, amount, fee)[a]
                      = balances[a] - amount + (IF a = recipient THEN net ELSE 0)
    BY <1>1, <1>3, <1>5, <1>7, <1>8
  <2>3. fee_account = Ata[token_messenger.fee_recipient][mint]
    BY DEF fee_account
  <2>4. QED  BY <1>1, <1>3, <1>7, <1>8, <2>1, <2>2, <2>3

\* The accounts of a payment are its mint's custody, the recipient and the fee's.
LEMMA PaidOutElsewhere ==
  ASSUME TypeOK, NEW mint \in Mints, NEW recipient \in TokenAccounts,
         NEW amount \in Nat, NEW fee \in Nat, fee < amount,
         Ata[token_messenger.fee_recipient][mint] \in TokenAccounts,
         token_messenger.fee_recipient \in Wallets,
         balances[Custody[mint]] >= amount,
         NEW a \in TokenAccounts,
         a \notin {Custody[mint], recipient, Ata[token_messenger.fee_recipient][mint]}
  PROVE  PaidOut(mint, recipient, amount, fee)[a] = balances[a]
BY PaidOutType

LEMMA TypeInit == Init => TypeOK
<1> SUFFICES ASSUME Init PROVE TypeOK
  OBVIOUS
<1>1. balances \in [TokenAccounts -> Nat]
  BY AccountsAssumption, BoundsAssumption DEF Init
<1>2. sent \in Seq(SentMessage)
  BY EmptySeq DEF Init
<1>3. token_messenger \in TokenMessenger /\ token_minter \in TokenMinter
  BY DEF Init, TokenMessenger, TokenMinter
<1>4. QED
  BY <1>1, <1>2, <1>3 DEF Init, TypeOK

\* The message of a deposit.
LEMMA DepositMessageType ==
  ASSUME TypeOK, NEW wallet \in Wallets, NEW account \in TokenAccounts,
         NEW params \in DepositParams, NEW hook_data \in Hooks \union {NoHook},
         remote_token_messengers[params.destination_domain] # NoAccount
  PROVE  /\ FormatMessage(wallet, AccountMint[account], params, hook_data) \in BurnMessage
         /\ [destination_domain |-> params.destination_domain,
             recipient |-> remote_token_messengers[params.destination_domain],
             message_body |-> FormatMessage(wallet, AccountMint[account], params, hook_data),
             destination_caller |-> params.destination_caller,
             min_finality_threshold |-> params.min_finality_threshold] \in SentMessage
<1>1. params \in DepositForBurnParams
  BY ParamsAssumption
<1>2. /\ params.amount \in Nat
      /\ params.max_fee \in Nat
      /\ params.mint_recipient \in Nat
      /\ params.destination_caller \in Nat
      /\ params.min_finality_threshold \in Nat
      /\ params.destination_domain \in Domains
  BY <1>1, BoundsAssumption DEF DepositForBurnParams
<1>3. wallet \in Nat /\ AccountMint[account] \in Nat
  BY KeysAssumption, AccountsAssumption
<1>4. FormatMessage(wallet, AccountMint[account], params, hook_data) \in BurnMessage
  BY <1>2, <1>3, RemoteAssumption DEF FormatMessage, BurnMessage
<1>5. remote_token_messengers[params.destination_domain] \in RemoteMessengers
  BY <1>2 DEF TypeOK
<1>6. QED  BY <1>2, <1>4, <1>5 DEF SentMessage

LEMMA DepositType ==
  ASSUME TypeOK, NEW wallet \in Wallets, NEW account \in TokenAccounts,
         NEW params \in DepositParams, NEW hook_data \in Hooks \union {NoHook},
         DepositForBurnHelper(wallet, account, params, hook_data)
  PROVE  TypeOK'
<1> DEFINE mint == AccountMint[account]
           message == [destination_domain |-> params.destination_domain,
             recipient |-> remote_token_messengers[params.destination_domain],
             message_body |-> FormatMessage(wallet, AccountMint[account], params, hook_data),
             destination_caller |-> params.destination_caller,
             min_finality_threshold |-> params.min_finality_threshold]
<1>1. mint \in Mints /\ params.amount \in Nat
  BY AccountsAssumption, ParamsAssumption, BoundsAssumption DEF DepositForBurnParams
<1>2. local_tokens[mint] \in LocalToken
  BY <1>1 DEF DepositForBurnHelper, Exists, TypeOK
<1>3. message \in SentMessage
  BY DepositMessageType DEF DepositForBurnHelper
<1>4. sent' = Append(sent, message)
  BY DEF DepositForBurnHelper, SendMessage
<1> HIDE DEF message
<1>5. sent' \in Seq(SentMessage)
  BY <1>3, <1>4, AppendProperties DEF TypeOK
<1>6. balances' \in [TokenAccounts -> Nat]
  BY <1>1 DEF DepositForBurnHelper, Burn, TypeOK
<1>7. /\ SaturatingAdd(local_tokens[mint].messages_sent, 1, MaxU64) \in 0..MaxU64
      /\ SaturatingAdd(local_tokens[mint].amount_sent, params.amount, MaxU128) \in 0..MaxU128
  BY <1>1, <1>2, BoundsAssumption DEF LocalToken, SaturatingAdd
<1>8. local_tokens' \in [Mints -> LocalToken \union {NoAccount}]
  BY <1>1, <1>2, <1>7 DEF DepositForBurnHelper, Burn, TypeOK, LocalToken
<1>9. QED
  BY <1>5, <1>6, <1>8 DEF DepositForBurnHelper, TypeOK, registry

\* What HandleReceiveMessage reads from a message, in one place.
LEMMA HandledFacts ==
  ASSUME TypeOK, initialized => MessengerValid, NEW m \in RemoteMessages, NEW mint \in Mints,
         HandleReceiveMessage(m, mint)
  PROVE  /\ m.nonce \in Nonces
         /\ m.message_body.amount \in Nat
         /\ m.message_body.fee_executed \in Nat
         /\ m.message_body.max_fee \in Nat
         /\ m.message_body.fee_executed < m.message_body.amount
         /\ m.message_body.fee_executed <= m.message_body.max_fee
         /\ m.message_body.mint_recipient \in TokenAccounts
         /\ AccountMint[m.message_body.mint_recipient] = mint
         /\ token_messenger.fee_recipient \in Wallets
         /\ Ata[token_messenger.fee_recipient][mint] \in TokenAccounts
         /\ balances[Custody[mint]] >= m.message_body.amount
         /\ local_tokens[mint] \in LocalToken
<1>1. m \in RemoteMessage
  BY RemoteAssumption
<1>2. m.nonce \in Nonces /\ m.message_body \in BurnMessage
  BY <1>1 DEF RemoteMessage
<1>3. token_messenger.fee_recipient \in Wallets
  BY DEF TypeOK, TokenMessenger, MessengerValid, HandleReceiveMessage
<1>4. local_tokens[mint] \in LocalToken
  BY DEF HandleReceiveMessage, Exists, TypeOK
<1>5. QED
  BY <1>2, <1>3, <1>4 DEF BurnMessage, HandleReceiveMessage, FeeAccepted

\* Counting a message changes the account of one mint, which keeps its type.
LEMMA CountReceivedType ==
  ASSUME TypeOK, NEW mint \in Mints, local_tokens[mint] \in LocalToken,
         NEW amount \in Nat, NEW fee \in Nat, fee < amount
  PROVE  /\ CountReceived(mint, amount, fee) \in [Mints -> LocalToken \union {NoAccount}]
         /\ CountReceived(mint, amount, fee)[mint] \in LocalToken
         /\ \A c \in Mints \ {mint} : CountReceived(mint, amount, fee)[c] = local_tokens[c]
<1> DEFINE received == SaturatingAdd(local_tokens[mint].messages_received, 1, MaxU64)
           with_fee == SaturatingAdd(local_tokens[mint].amount_received, fee, MaxU128)
           total == SaturatingAdd(with_fee, amount - fee, MaxU128)
<1>1. received \in 0..MaxU64 /\ with_fee \in 0..MaxU128
  BY BoundsAssumption DEF LocalToken, SaturatingAdd
<1>2. total \in 0..MaxU128
  <2> HIDE DEF with_fee
  <2>1. with_fee \in Nat /\ amount - fee \in Nat /\ MaxU128 \in Nat
    BY <1>1, BoundsAssumption
  <2>2. QED  BY <2>1 DEF SaturatingAdd
<1> HIDE DEF received, total
<1>3. CountReceived(mint, amount, fee) =
        [local_tokens EXCEPT ![mint].messages_received = received,
                             ![mint].amount_received = total]
  BY DEF CountReceived, received, total
<1> DEFINE counted == [local_tokens[mint] EXCEPT !.messages_received = received,
                                               !.amount_received = total]
<1>4. counted \in LocalToken
  BY <1>1, <1>2 DEF LocalToken
<1> HIDE DEF counted
<1>5. local_tokens \in [Mints -> LocalToken \union {NoAccount}]
  BY DEF TypeOK
<1>6. CountReceived(mint, amount, fee) = [local_tokens EXCEPT ![mint] = counted]
  BY <1>3, <1>5 DEF counted
<1>7. QED  BY <1>4, <1>5, <1>6

LEMMA ReceiveType ==
  ASSUME TypeOK, initialized => MessengerValid, NEW m \in RemoteMessages, NEW mint \in Mints,
         HandleReceiveMessage(m, mint)
  PROVE  TypeOK'
<1> DEFINE body == m.message_body
<1>1. /\ m.nonce \in Nonces
      /\ body.amount \in Nat
      /\ body.fee_executed \in Nat
      /\ body.max_fee \in Nat
      /\ body.fee_executed < body.amount
      /\ body.mint_recipient \in TokenAccounts
      /\ token_messenger.fee_recipient \in Wallets
      /\ Ata[token_messenger.fee_recipient][mint] \in TokenAccounts
      /\ balances[Custody[mint]] >= body.amount
      /\ local_tokens[mint] \in LocalToken
  BY HandledFacts
<1>2. balances' \in [TokenAccounts -> Nat]
  BY <1>1, PaidOutType DEF HandleReceiveMessage
<1>3. body.amount - body.fee_executed \in Nat
  BY <1>1
<1>4. minted' \in [Nonces -> MintAndWithdraw \union {NoAccount}]
  BY <1>1, <1>3 DEF HandleReceiveMessage, TypeOK, MintAndWithdraw
<1>5. local_tokens' \in [Mints -> LocalToken \union {NoAccount}]
  BY <1>1, CountReceivedType DEF HandleReceiveMessage
<1>6. QED
  BY <1>2, <1>4, <1>5 DEF HandleReceiveMessage, TypeOK, registry

RoleInv == TypeOK /\ RolesStayValid

LEMMA RoleInvInit == Init => RoleInv
BY TypeInit DEF RoleInv, RolesStayValid, Init

LEMMA RoleInvStep == RoleInv /\ [Next]_vars => RoleInv'
<1> SUFFICES ASSUME TypeOK, RolesStayValid, [Next]_vars PROVE TypeOK' /\ RolesStayValid'
  BY DEF RoleInv
<1>0. RoleKeys \subseteq Wallets /\ FeeRecipients \subseteq Wallets /\ Default \notin Wallets
  BY KeysAssumption
<1> USE DEF RolesStayValid, MessengerValid, MinterValid
<1>1. CASE RoleNext
  <2>1. PICK signer \in RoleKeys, key \in RoleKeys :
          \/ \E controller, denylister, fee_controller \in RoleKeys \union {Default},
                fee_recipient \in FeeRecipients \union {Default}, min_fee \in MinFees :
               Initialize(signer, controller, denylister, fee_recipient, fee_controller, min_fee)
          \/ TransferOwnership(signer, key)
          \/ AcceptOwnership(signer)
          \/ UpdateDenylister(signer, key)
          \/ \E recipient \in FeeRecipients : SetFeeRecipient(signer, recipient)
          \/ SetMinFeeController(signer, key)
          \/ \E min_fee \in MinFees : SetMinFee(signer, min_fee)
          \/ SetTokenController(signer, key)
          \/ UpdatePauser(signer, key)
          \/ Pause(signer)
          \/ Unpause(signer)
    BY <1>1 DEF RoleNext
  <2> USE DEF TypeOK, HasOne, registry, tokens
  <2>2. ASSUME NEW controller \in RoleKeys \union {Default},
               NEW denylister \in RoleKeys \union {Default},
               NEW fee_controller \in RoleKeys \union {Default},
               NEW fee_recipient \in FeeRecipients \union {Default}, NEW min_fee \in MinFees,
               Initialize(signer, controller, denylister, fee_recipient, fee_controller, min_fee)
        PROVE  TypeOK' /\ RolesStayValid'
    BY <1>0, <2>2, ParamsAssumption DEF Initialize, TokenMessenger, TokenMinter
  <2>3. CASE TransferOwnership(signer, key)
    BY <1>0, <2>3 DEF TransferOwnership, TokenMessenger
  <2>4. CASE AcceptOwnership(signer)
    BY <1>0, <2>4 DEF AcceptOwnership, TokenMessenger
  <2>5. CASE UpdateDenylister(signer, key)
    BY <1>0, <2>5 DEF UpdateDenylister, TokenMessenger
  <2>6. ASSUME NEW recipient \in FeeRecipients, SetFeeRecipient(signer, recipient)
        PROVE  TypeOK' /\ RolesStayValid'
    BY <1>0, <2>6 DEF SetFeeRecipient, TokenMessenger
  <2>7. CASE SetMinFeeController(signer, key)
    BY <1>0, <2>7 DEF SetMinFeeController, TokenMessenger
  <2>8. ASSUME NEW min_fee \in MinFees, SetMinFee(signer, min_fee)
        PROVE  TypeOK' /\ RolesStayValid'
    BY <1>0, <2>8, ParamsAssumption DEF SetMinFee, TokenMessenger
  <2>9. CASE SetTokenController(signer, key)
    BY <1>0, <2>9 DEF SetTokenController, TokenMinter
  <2>10. CASE UpdatePauser(signer, key)
    BY <1>0, <2>10 DEF UpdatePauser, TokenMinter
  <2>11. CASE Pause(signer) \/ Unpause(signer)
    BY <2>11 DEF Pause, Unpause, TokenMinter
  <2>12. QED
    BY <2>1, <2>2, <2>3, <2>4, <2>5, <2>6, <2>7, <2>8, <2>9, <2>10, <2>11
<1>2. CASE RegistryNext
  <2>1. UNCHANGED <<initialized, token_messenger, token_minter, tokens, slot>>
    BY <1>2 DEF RegistryNext, AddRemoteTokenMessenger, RemoveRemoteTokenMessenger,
                DenylistAccount, UndenylistAccount, LinkTokenPair, UnlinkTokenPair
  <2>2. /\ remote_token_messengers'
             \in [Domains -> (RemoteMessengers \ {Default}) \union {NoAccount}]
        /\ denylist' \subseteq Wallets
    BY <1>2 DEF RegistryNext, AddRemoteTokenMessenger, RemoveRemoteTokenMessenger,
                DenylistAccount, UndenylistAccount, LinkTokenPair, UnlinkTokenPair, TypeOK
  <2>3. token_pairs' \in [Domains -> [RemoteTokens -> Mints \union {NoAccount}]]
    <3>1. ASSUME NEW d \in Domains, NEW t \in RemoteTokens, NEW mint \in Mints \union {NoAccount},
                 token_pairs' = [token_pairs EXCEPT ![d][t] = mint]
          PROVE  token_pairs' \in [Domains -> [RemoteTokens -> Mints \union {NoAccount}]]
      BY <3>1 DEF TypeOK
    <3>2. \/ UNCHANGED token_pairs
          \/ \E d \in Domains, t \in RemoteTokens, mint \in Mints \union {NoAccount} :
               token_pairs' = [token_pairs EXCEPT ![d][t] = mint]
      BY <1>2 DEF RegistryNext, AddRemoteTokenMessenger, RemoveRemoteTokenMessenger,
                  DenylistAccount, UndenylistAccount, LinkTokenPair, UnlinkTokenPair
    <3>3. QED  BY <3>1, <3>2 DEF TypeOK
  <2>4. QED  BY <2>1, <2>2, <2>3 DEF TypeOK, tokens
<1>3. CASE LocalTokenNext
  <2>1. UNCHANGED <<initialized, token_messenger, token_minter, registry, sent, minted, slot>>
    BY <1>3 DEF LocalTokenNext, AddLocalToken, RemoveLocalToken, BurnTokenCustody,
                SetMaxBurnAmountPerMessage
  <2>2. PICK signer \in RoleKeys, mint \in Mints :
          \/ AddLocalToken(signer, mint)
          \/ RemoveLocalToken(signer, mint)
          \/ \E amount \in BurnLimits : BurnTokenCustody(signer, mint, amount)
          \/ \E limit \in BurnLimits : SetMaxBurnAmountPerMessage(signer, mint, limit)
    BY <1>3 DEF LocalTokenNext
  <2>3. Custody[mint] \in TokenAccounts /\ BurnLimits \subseteq 0..MaxU64 /\ MaxU64 \in Nat
        /\ MaxU128 \in Nat
    BY AccountsAssumption, ParamsAssumption, BoundsAssumption
  <2>4. local_tokens' \in [Mints -> LocalToken \union {NoAccount}]
    <3>1. CASE AddLocalToken(signer, mint)
      BY <2>3, <3>1 DEF AddLocalToken, LocalToken, TypeOK
    <3>2. CASE RemoveLocalToken(signer, mint)
      BY <3>2 DEF RemoveLocalToken, TypeOK
    <3>3. ASSUME NEW amount, BurnTokenCustody(signer, mint, amount)
          PROVE  local_tokens' = local_tokens
      BY <3>3 DEF BurnTokenCustody
    <3>4. ASSUME NEW limit \in BurnLimits, SetMaxBurnAmountPerMessage(signer, mint, limit)
          PROVE  local_tokens' \in [Mints -> LocalToken \union {NoAccount}]
      <4>1. local_tokens[mint] \in LocalToken
        BY <3>4 DEF SetMaxBurnAmountPerMessage, Exists, TypeOK
      <4>2. [local_tokens[mint] EXCEPT !.burn_limit_per_message = limit] \in LocalToken
        BY <2>3, <4>1 DEF LocalToken
      <4>3. QED  BY <3>4, <4>2 DEF SetMaxBurnAmountPerMessage, TypeOK
    <3>5. QED  BY <2>2, <3>1, <3>2, <3>3, <3>4 DEF TypeOK
  <2>5. balances' \in [TokenAccounts -> Nat] /\ destroyed' \in [Mints -> Nat]
    <3>1. ASSUME NEW amount \in 0..balances[Custody[mint]], DestroyCustody(mint, amount)
          PROVE  balances' \in [TokenAccounts -> Nat] /\ destroyed' \in [Mints -> Nat]
      <4>1. /\ balances[Custody[mint]] \in Nat
            /\ amount \in Nat
            /\ balances[Custody[mint]] - amount \in Nat
            /\ destroyed[mint] + amount \in Nat
        BY <2>3, <3>1 DEF TypeOK
      <4>2. QED  BY <2>3, <3>1, <4>1 DEF DestroyCustody, TypeOK
    <3>2. balances[Custody[mint]] \in Nat
      BY <2>3 DEF TypeOK
    <3>3. CASE RemoveLocalToken(signer, mint)
      BY <3>1, <3>2, <3>3 DEF RemoveLocalToken
    <3>4. ASSUME NEW amount \in BurnLimits, BurnTokenCustody(signer, mint, amount)
          PROVE  balances' \in [TokenAccounts -> Nat] /\ destroyed' \in [Mints -> Nat]
      <4>1. amount \in Nat
        BY <2>3
      <4>2. QED  BY <3>1, <3>2, <3>4, <4>1 DEF BurnTokenCustody
    <3>5. CASE UNCHANGED <<balances, destroyed>>
      BY <3>5 DEF TypeOK
    <3>6. QED
      BY <2>2, <3>3, <3>4, <3>5 DEF AddLocalToken, SetMaxBurnAmountPerMessage
  <2>6. QED  BY <2>1, <2>4, <2>5 DEF TypeOK, registry
<1>4. CASE TransferNext
  <2>1. UNCHANGED <<initialized, token_messenger, token_minter>> => RolesStayValid'
    OBVIOUS
  <2>2. ASSUME NEW wallet \in Wallets, NEW account \in TokenAccounts,
               NEW params \in DepositParams, NEW hook \in Hooks \union {NoHook},
               DepositForBurnHelper(wallet, account, params, hook)
        PROVE  TypeOK' /\ RolesStayValid'
    BY <2>1, <2>2, DepositType DEF DepositForBurnHelper
  <2>3. ASSUME NEW m \in RemoteMessages, NEW mint \in Mints, HandleReceiveMessage(m, mint)
        PROVE  TypeOK' /\ RolesStayValid'
    BY <2>1, <2>3, ReceiveType DEF HandleReceiveMessage
  <2>4. ASSUME NEW from \in TokenAccounts, NEW to \in TokenAccounts,
               NEW amount \in 1..balances[from], SplTransfer(from, to, amount)
        PROVE  TypeOK' /\ RolesStayValid'
    <3>1. balances' \in [TokenAccounts -> Nat]
      <4>1. /\ balances \in [TokenAccounts -> Nat]
            /\ amount \in Nat
            /\ amount <= balances[from]
        BY <2>4 DEF TypeOK
      <4>2. QED  BY <2>4, <4>1, TransferredType DEF SplTransfer
    <3>2. QED  BY <2>1, <2>4, <3>1 DEF SplTransfer, TypeOK, registry
  <2>5. CASE NextSlot
    BY <2>1, <2>5 DEF NextSlot, TypeOK, registry, tokens
  <2>6. QED
    BY <1>4, <2>2, <2>3, <2>4, <2>5
       DEF TransferNext, TransferBy, DepositForBurn, DepositForBurnWithHook, ReceiveMessage,
           HandleReceiveFinalizedMessage, HandleReceiveUnfinalizedMessage
<1>5. CASE UNCHANGED vars
  BY <1>5 DEF vars, registry, tokens, TypeOK
<1>6. QED  BY <1>1, <1>2, <1>3, <1>4, <1>5 DEF Next

LEMMA RoleInvariant == Spec => []RoleInv
BY RoleInvInit, RoleInvStep, PTL DEF Spec

(***************************************************************************)
(* Every variable keeps its type: in particular no balance is overdrawn by *)
(* a deposit, a payment of a fee and the rest, or a custody burn.          *)
(***************************************************************************)
THEOREM TypeCorrect == Spec => []TypeOK
<1>1. RoleInv => TypeOK
  BY DEF RoleInv
<1>2. QED  BY <1>1, RoleInvariant, PTL

(***************************************************************************)
(* No role of the messenger or the minter is ever lost.                    *)
(***************************************************************************)
THEOREM RolesKept == Spec => []RolesStayValid
<1>1. RoleInv => RolesStayValid
  BY DEF RoleInv
<1>2. QED  BY <1>1, RoleInvariant, PTL

(***************************************************************************)
(* With any minimum fee set_min_fee accepts, any amount of 2 or more can   *)
(* be deposited, for the full width of a u64.                              *)
(***************************************************************************)
THEOREM AnyAmountCoversFee == Spec => []FeeLeavesRoom
<1>1. RoleInv => FeeLeavesRoom
  <2> SUFFICES ASSUME TypeOK, MIN_FEE_MULTIPLIER > token_messenger.min_fee,
                      NEW amount \in 2..MaxU64
               PROVE  FeeAmount(amount, token_messenger.min_fee) < amount
    BY DEF RoleInv, FeeLeavesRoom
  <2>1. token_messenger.min_fee \in Nat
    BY DEF TypeOK, TokenMessenger
  <2>2. QED  BY <2>1, FeeBelowAmount
<1>2. QED  BY <1>1, RoleInvariant, PTL

-----------------------------------------------------------------------------
(***************************************************************************)
(* Tokens.  Which steps change which part of the token state is stated     *)
(* once: every other step leaves all of it alone.                          *)
(***************************************************************************)
LEMMA TokenSteps ==
  ASSUME [Next]_vars
  PROVE  \/ UNCHANGED tokens
         \/ \E signer \in RoleKeys, mint \in Mints :
              \/ AddLocalToken(signer, mint)
              \/ RemoveLocalToken(signer, mint)
              \/ \E amount \in BurnLimits : BurnTokenCustody(signer, mint, amount)
              \/ \E limit \in BurnLimits : SetMaxBurnAmountPerMessage(signer, mint, limit)
         \/ \E wallet \in Wallets, account \in TokenAccounts, params \in DepositParams,
               hook \in Hooks \union {NoHook} :
              DepositForBurnHelper(wallet, account, params, hook)
         \/ \E m \in RemoteMessages, mint \in Mints :
              minted[m.nonce] = NoAccount /\ HandleReceiveMessage(m, mint)
         \/ \E from, to \in TokenAccounts : \E amount \in 1..balances[from] :
              SplTransfer(from, to, amount)
<1>1. RoleNext => UNCHANGED tokens
  BY DEF RoleNext, Initialize, TransferOwnership, AcceptOwnership, UpdateDenylister,
         SetFeeRecipient, SetMinFeeController, SetMinFee, SetTokenController, UpdatePauser,
         Pause, Unpause
<1>2. RegistryNext => UNCHANGED tokens
  BY DEF RegistryNext, AddRemoteTokenMessenger, RemoveRemoteTokenMessenger,
         DenylistAccount, UndenylistAccount, LinkTokenPair, UnlinkTokenPair
<1>3. NextSlot \/ UNCHANGED vars => UNCHANGED tokens
  BY DEF NextSlot, vars
<1>4. QED
  BY <1>1, <1>2, <1>3
     DEF Next, LocalTokenNext, TransferNext, TransferBy, DepositForBurn, DepositForBurnWithHook,
         ReceiveMessage, HandleReceiveFinalizedMessage, HandleReceiveUnfinalizedMessage

\* The amount of a deposit leaves room for any fee up to its maximum.
LEMMA DepositIsPayable ==
  ASSUME TypeOK, SentArePayable, NEW wallet \in Wallets, NEW account \in TokenAccounts,
         NEW params \in DepositParams, NEW hook \in Hooks \union {NoHook},
         DepositForBurnHelper(wallet, account, params, hook)
  PROVE  /\ SentArePayable'
         /\ Len(sent') = Len(sent) + 1
         /\ sent' = Append(sent, sent'[Len(sent')])
         /\ sent'[Len(sent')].message_body.max_fee < sent'[Len(sent')].message_body.amount
         /\ sent'[Len(sent')].message_body.fee_executed = 0
<1> DEFINE body == FormatMessage(wallet, AccountMint[account], params, hook)
           message == [destination_domain |-> params.destination_domain,
             recipient |-> remote_token_messengers[params.destination_domain],
             message_body |-> body,
             destination_caller |-> params.destination_caller,
             min_finality_threshold |-> params.min_finality_threshold]
<1>1. message \in SentMessage
  BY DepositMessageType DEF DepositForBurnHelper
<1>2. sent' = Append(sent, message)
  BY DEF DepositForBurnHelper, SendMessage
<1>3. /\ message.message_body.amount = params.amount
      /\ message.message_body.max_fee = params.max_fee
      /\ message.message_body.fee_executed = 0
  BY DEF FormatMessage
<1>4. params.amount > params.max_fee /\ params.amount \in Nat /\ params.max_fee \in Nat
  BY ParamsAssumption, BoundsAssumption DEF DepositForBurnHelper, CoversFees, DepositForBurnParams
<1> HIDE DEF message
<1>5. /\ Len(sent') = Len(sent) + 1
      /\ sent'[Len(sent) + 1] = message
      /\ \A i \in 1..Len(sent) : sent'[i] = sent[i]
      /\ DOMAIN sent' = 1..(Len(sent) + 1)
      /\ DOMAIN sent = 1..Len(sent)
      /\ Len(sent) \in Nat
  BY <1>1, <1>2, AppendProperties, LenProperties DEF TypeOK
<1>6. ASSUME NEW fee \in 0..params.max_fee
      PROVE  FeeAccepted(params.amount, fee, params.max_fee)
  BY <1>4 DEF FeeAccepted
<1>7. SentArePayable'
  <2> SUFFICES ASSUME NEW i \in 1..(Len(sent) + 1),
                      NEW fee \in 0..sent'[i].message_body.max_fee
               PROVE  FeeAccepted(sent'[i].message_body.amount, fee,
                                  sent'[i].message_body.max_fee)
    BY <1>5 DEF SentArePayable
  <2>1. CASE i \in 1..Len(sent)
    BY <1>5, <2>1 DEF SentArePayable
  <2>2. CASE i = Len(sent) + 1
    BY <1>3, <1>5, <1>6, <2>2
  <2>3. QED  BY <1>5, <2>1, <2>2
<1>8. QED  BY <1>2, <1>3, <1>4, <1>5, <1>7

\* Where the accounts of the program are: custody accounts differ by mint, and
\* none of them is a wallet's.
LEMMA CustodyFacts ==
  /\ \A m \in Mints : Custody[m] \in TokenAccounts /\ AccountMint[Custody[m]] = m
  /\ \A m \in Mints : AccountOwner[Custody[m]] = Minter
  /\ Minter \notin Wallets
  /\ NoAccount \notin LocalToken
BY AccountsAssumption, KeysAssumption, BoundsAssumption

\* Counting a deposit changes the account of one mint, which keeps its type.
LEMMA DepositCountType ==
  ASSUME TypeOK, NEW wallet \in Wallets, NEW account \in TokenAccounts,
         NEW params \in DepositParams, NEW hook_data \in Hooks \union {NoHook},
         DepositForBurnHelper(wallet, account, params, hook_data)
  PROVE  /\ local_tokens'[AccountMint[account]] \in LocalToken
         /\ \A c \in Mints \ {AccountMint[account]} : local_tokens'[c] = local_tokens[c]
<1> DEFINE mint == AccountMint[account]
<1>1. /\ mint \in Mints
      /\ local_tokens \in [Mints -> LocalToken \union {NoAccount}]
      /\ local_tokens[mint] \in LocalToken
  BY AccountsAssumption DEF DepositForBurnHelper, Exists, TypeOK
<1>2. local_tokens' = [local_tokens EXCEPT
        ![mint].messages_sent = SaturatingAdd(@, 1, MaxU64),
        ![mint].amount_sent = SaturatingAdd(@, params.amount, MaxU128)]
  BY DEF DepositForBurnHelper, Burn
<1>3. params.amount \in Nat
  BY ParamsAssumption, BoundsAssumption DEF DepositForBurnParams
<1>4. /\ SaturatingAdd(local_tokens[mint].messages_sent, 1, MaxU64) \in 0..MaxU64
      /\ SaturatingAdd(local_tokens[mint].amount_sent, params.amount, MaxU128) \in 0..MaxU128
  BY <1>1, <1>3, BoundsAssumption DEF LocalToken, SaturatingAdd
<1>5. QED  BY <1>1, <1>2, <1>4 DEF LocalToken

\* It is enough to look at the one mint a step is about.
LEMMA StrandedAtOne ==
  ASSUME NoTokensStranded, NEW mint \in Mints,
         \A c \in Mints \ {mint} : /\ balances'[Custody[c]] = balances[Custody[c]]
                                   /\ local_tokens'[c] = local_tokens[c],
         local_tokens'[mint] # NoAccount \/ balances'[Custody[mint]] = 0
  PROVE  NoTokensStranded'
BY DEF NoTokensStranded, Exists

\* A deposit or a transfer touches a custody account only where tokens may be.
LEMMA StrandedStep ==
  ASSUME RoleInv, NoTokensStranded, [Next]_vars
  PROVE  NoTokensStranded'
<1>0. /\ TypeOK
      /\ balances \in [TokenAccounts -> Nat]
      /\ local_tokens \in [Mints -> LocalToken \union {NoAccount}]
  BY DEF RoleInv, TypeOK
<1>1. CASE UNCHANGED tokens
  BY <1>1 DEF tokens, NoTokensStranded, Exists
<1>2. ASSUME NEW signer \in RoleKeys, NEW mint \in Mints, AddLocalToken(signer, mint)
      PROVE  NoTokensStranded'
  <2>1. [burn_limit_per_message |-> 0, messages_sent |-> 0, messages_received |-> 0,
         amount_sent |-> 0, amount_received |-> 0] \in LocalToken
    BY BoundsAssumption DEF LocalToken
  <2>2. local_tokens'[mint] # NoAccount /\ UNCHANGED balances
    BY <1>0, <1>2, <2>1, CustodyFacts DEF AddLocalToken
  <2>3. \A c \in Mints \ {mint} : local_tokens'[c] = local_tokens[c]
    BY <1>0, <1>2 DEF AddLocalToken
  <2>4. QED  BY <2>2, <2>3, StrandedAtOne
<1>3. ASSUME NEW signer \in RoleKeys, NEW mint \in Mints, RemoveLocalToken(signer, mint)
      PROVE  NoTokensStranded'
  <2>1. balances' = [balances EXCEPT ![Custody[mint]] = balances[Custody[mint]] - balances[Custody[mint]]]
    BY <1>3 DEF RemoveLocalToken, DestroyCustody
  <2>2. balances[Custody[mint]] \in Nat
    BY <1>0, CustodyFacts
  <2>3. balances'[Custody[mint]] = 0
    BY <1>0, <2>1, <2>2, CustodyFacts
  <2>4. \A c \in Mints \ {mint} : balances'[Custody[c]] = balances[Custody[c]]
    BY <1>0, <2>1, CustodyFacts
  <2>5. \A c \in Mints \ {mint} : local_tokens'[c] = local_tokens[c]
    BY <1>0, <1>3 DEF RemoveLocalToken
  <2>6. QED  BY <2>3, <2>4, <2>5, StrandedAtOne
<1>4. ASSUME NEW signer \in RoleKeys, NEW mint \in Mints, NEW amount \in BurnLimits,
             BurnTokenCustody(signer, mint, amount)
      PROVE  NoTokensStranded'
  <2>1. local_tokens[mint] # NoAccount /\ UNCHANGED local_tokens
    BY <1>4 DEF BurnTokenCustody, Exists
  <2>2. \E burned : balances' = [balances EXCEPT ![Custody[mint]] = balances[Custody[mint]] - burned]
    BY <1>4 DEF BurnTokenCustody, DestroyCustody
  <2>3. \A c \in Mints \ {mint} : balances'[Custody[c]] = balances[Custody[c]]
    BY <1>0, <2>2, CustodyFacts
  <2>4. QED  BY <2>1, <2>3, StrandedAtOne
<1>5. ASSUME NEW signer \in RoleKeys, NEW mint \in Mints, NEW limit \in BurnLimits,
             SetMaxBurnAmountPerMessage(signer, mint, limit)
      PROVE  NoTokensStranded'
  <2>1. /\ local_tokens' = [local_tokens EXCEPT ![mint] =
                              [local_tokens[mint] EXCEPT !.burn_limit_per_message = limit]]
        /\ UNCHANGED balances
        /\ local_tokens[mint] \in LocalToken
    BY <1>0, <1>5 DEF SetMaxBurnAmountPerMessage, Exists
  <2>2. [local_tokens[mint] EXCEPT !.burn_limit_per_message = limit] \in LocalToken
    BY <2>1, ParamsAssumption DEF LocalToken
  <2>3. local_tokens'[mint] # NoAccount
    BY <1>0, <2>1, <2>2, CustodyFacts
  <2>4. \A c \in Mints \ {mint} : local_tokens'[c] = local_tokens[c]
    BY <1>0, <2>1
  <2>5. QED  BY <2>1, <2>3, <2>4, StrandedAtOne
<1>6. ASSUME NEW wallet \in Wallets, NEW account \in TokenAccounts,
             NEW params \in DepositParams, NEW hook \in Hooks \union {NoHook},
             DepositForBurnHelper(wallet, account, params, hook)
      PROVE  NoTokensStranded'
  <2> DEFINE mint == AccountMint[account]
  <2>1. mint \in Mints /\ AccountOwner[account] \in Wallets
    BY <1>6, AccountsAssumption DEF DepositForBurnHelper
  <2>2. \A c \in Mints : Custody[c] # account
    BY <2>1, CustodyFacts
  <2>3. balances' = [balances EXCEPT ![account] = balances[account] - params.amount]
    BY <1>6 DEF DepositForBurnHelper, Burn
  <2>4. \A c \in Mints : balances'[Custody[c]] = balances[Custody[c]]
    BY <1>0, <2>2, <2>3, CustodyFacts
  <2>5. /\ \A c \in Mints \ {mint} : local_tokens'[c] = local_tokens[c]
        /\ local_tokens'[mint] # NoAccount
    BY <1>0, <1>6, DepositCountType, CustodyFacts
  <2>6. QED  BY <2>1, <2>4, <2>5, StrandedAtOne
<1>7. ASSUME NEW m \in RemoteMessages, NEW mint \in Mints, HandleReceiveMessage(m, mint)
      PROVE  NoTokensStranded'
  <2> DEFINE recipient == m.message_body.mint_recipient
             amount == m.message_body.amount
             fee == m.message_body.fee_executed
  <2>1. /\ recipient \in TokenAccounts
        /\ AccountMint[recipient] = mint
        /\ amount \in Nat /\ fee \in Nat /\ fee < amount
        /\ token_messenger.fee_recipient \in Wallets
        /\ Ata[token_messenger.fee_recipient][mint] \in TokenAccounts
        /\ balances[Custody[mint]] >= amount
        /\ local_tokens[mint] \in LocalToken
    BY <1>0, <1>7, HandledFacts DEF RoleInv, RolesStayValid
  <2>2. \A c \in Mints \ {mint} : balances'[Custody[c]] = balances[Custody[c]]
    <3> SUFFICES ASSUME NEW c \in Mints, c # mint
                 PROVE  balances'[Custody[c]] = balances[Custody[c]]
      OBVIOUS
    <3>1. Custody[c] \notin {Custody[mint], recipient, Ata[token_messenger.fee_recipient][mint]}
      BY <2>1, CustodyFacts, AccountsAssumption
    <3>2. balances' = PaidOut(mint, recipient, amount, fee)
      BY <1>7 DEF HandleReceiveMessage
    <3>3. Custody[c] \in TokenAccounts
      BY CustodyFacts
    <3> HIDE DEF recipient, amount, fee
    <3>4. TypeOK
      BY <1>0 DEF RoleInv
    <3>5. PaidOut(mint, recipient, amount, fee)[Custody[c]] = balances[Custody[c]]
      BY <2>1, <3>1, <3>3, <3>4, PaidOutElsewhere
    <3>6. QED  BY <3>2, <3>5
  <2>3. /\ \A c \in Mints \ {mint} : local_tokens'[c] = local_tokens[c]
        /\ local_tokens'[mint] \in LocalToken
    BY <1>0, <1>7, <2>1, CountReceivedType DEF HandleReceiveMessage
  <2>4. QED  BY <2>2, <2>3, CustodyFacts, StrandedAtOne
<1>8. ASSUME NEW from \in TokenAccounts, NEW to \in TokenAccounts,
             NEW amount \in 1..balances[from], SplTransfer(from, to, amount)
      PROVE  NoTokensStranded'
  <2>1. amount \in Nat /\ amount <= balances[from] /\ UNCHANGED local_tokens
    BY <1>0, <1>8 DEF SplTransfer
  <2>2. \A a \in TokenAccounts \ {from, to} : balances'[a] = balances[a]
    <3>1. balances' = Transferred(from, to, amount, balances)
      BY <1>8 DEF SplTransfer
    <3>2. \A a \in TokenAccounts : balances[a] \in Nat
      BY <1>0
    <3>3. QED  BY <1>0, <2>1, <3>1, <3>2, TransferredType
  <2>3. AccountMint[to] \in Mints
    BY AccountsAssumption
  <2>4. \A c \in Mints : Custody[c] # from
    BY <1>8, CustodyFacts DEF SplTransfer
  <2>5. \A c \in Mints \ {AccountMint[to]} : balances'[Custody[c]] = balances[Custody[c]]
    BY <2>2, <2>4, CustodyFacts
  <2>6. CASE to = Custody[AccountMint[to]]
    <3>1. local_tokens'[AccountMint[to]] # NoAccount
      BY <1>8, <2>1, <2>3, <2>6, CustodyFacts DEF SplTransfer, Exists
    <3>2. QED  BY <2>1, <2>3, <2>5, <3>1, StrandedAtOne
  <2>7. CASE to # Custody[AccountMint[to]]
    <3>1. \A c \in Mints : balances'[Custody[c]] = balances[Custody[c]]
      BY <2>2, <2>4, <2>7, CustodyFacts
    <3>2. QED  BY <2>1, <3>1 DEF NoTokensStranded, Exists
  <2>8. QED  BY <2>6, <2>7
<1>9. QED
  BY <1>1, <1>2, <1>3, <1>4, <1>5, <1>6, <1>7, <1>8, TokenSteps

(***************************************************************************)
(* Closing a local token strands nothing: a custody account without its    *)
(* local token is empty, and stays so until the token is added again.      *)
(***************************************************************************)
THEOREM NothingStranded == Spec => []NoTokensStranded
<1>1. Init => NoTokensStranded
  BY CustodyFacts, AccountsAssumption DEF Init, NoTokensStranded
<1>2. RoleInv /\ NoTokensStranded /\ [Next]_vars => NoTokensStranded'
  BY StrandedStep
<1>3. QED  BY <1>1, <1>2, RoleInvariant, PTL DEF Spec

-----------------------------------------------------------------------------
(***************************************************************************)
(* Messages sent and payments made.                                        *)
(***************************************************************************)
\* Only a deposit sends, and only a handled message is paid.
LEMMA HistorySteps ==
  ASSUME [Next]_vars
  PROVE  /\ \/ UNCHANGED sent
            \/ \E wallet \in Wallets, account \in TokenAccounts, params \in DepositParams,
                  hook \in Hooks \union {NoHook} :
                 DepositForBurnHelper(wallet, account, params, hook)
         /\ \/ UNCHANGED minted
            \/ \E m \in RemoteMessages, mint \in Mints :
                 minted[m.nonce] = NoAccount /\ HandleReceiveMessage(m, mint)
<1>1. \A signer, mint : AddLocalToken(signer, mint) => UNCHANGED <<sent, minted>>
  BY DEF AddLocalToken
<1>2. \A signer, mint : RemoveLocalToken(signer, mint) => UNCHANGED <<sent, minted>>
  BY DEF RemoveLocalToken
<1>3. \A signer, mint, amount : BurnTokenCustody(signer, mint, amount) => UNCHANGED <<sent, minted>>
  BY DEF BurnTokenCustody
<1>4. \A signer, mint, limit :
        SetMaxBurnAmountPerMessage(signer, mint, limit) => UNCHANGED <<sent, minted>>
  BY DEF SetMaxBurnAmountPerMessage
<1>5. \A wallet, account, params, hook :
        DepositForBurnHelper(wallet, account, params, hook) => UNCHANGED minted
  BY DEF DepositForBurnHelper
<1>6. \A m, mint : HandleReceiveMessage(m, mint) => UNCHANGED sent
  BY DEF HandleReceiveMessage
<1>7. \A from, to, amount : SplTransfer(from, to, amount) => UNCHANGED <<sent, minted>>
  BY DEF SplTransfer
<1>8. UNCHANGED tokens => UNCHANGED <<sent, minted>>
  BY DEF tokens
<1>9. QED
  BY <1>1, <1>2, <1>3, <1>4, <1>5, <1>6, <1>7, <1>8, TokenSteps

(***************************************************************************)
(* A message that was sent can always be paid on the other side, whatever  *)
(* fee up to the agreed maximum is executed there.                         *)
(***************************************************************************)
THEOREM AllSentArePayable == Spec => []SentArePayable
<1>1. Init => SentArePayable
  BY DEF Init, SentArePayable
<1>2. RoleInv /\ SentArePayable /\ [Next]_vars => SentArePayable'
  <2> SUFFICES ASSUME TypeOK, SentArePayable, [Next]_vars PROVE SentArePayable'
    BY DEF RoleInv
  <2>1. CASE UNCHANGED sent
    BY <2>1 DEF SentArePayable
  <2>2. ASSUME NEW wallet \in Wallets, NEW account \in TokenAccounts,
               NEW params \in DepositParams, NEW hook \in Hooks \union {NoHook},
               DepositForBurnHelper(wallet, account, params, hook)
        PROVE  SentArePayable'
    BY <2>2, DepositIsPayable
  <2>3. QED  BY <2>1, <2>2, HistorySteps
<1>3. QED  BY <1>1, <1>2, RoleInvariant, PTL DEF Spec

\* What handling a message records and does to the recipient.
LEMMA HandledPayment ==
  ASSUME RoleInv, NEW m \in RemoteMessages, NEW mint \in Mints, HandleReceiveMessage(m, mint),
         NEW n \in Nonces, minted'[n] # minted[n]
  PROVE  /\ n = m.nonce
         /\ minted'[n] = [mint_recipient |-> m.message_body.mint_recipient, mint |-> mint,
                          amount |-> m.message_body.amount - m.message_body.fee_executed,
                          fee_collected |-> m.message_body.fee_executed,
                          max_fee |-> m.message_body.max_fee]
BY DEF HandleReceiveMessage, RoleInv, TypeOK

(***************************************************************************)
(* A recipient receives what the depositor agreed to, whichever of the     *)
(* recipient, the fee recipient and custody share an account.              *)
(***************************************************************************)
THEOREM RecipientsArePaid == Spec => RecipientIsPaid
<1> DEFINE PaidStep ==
      \A n \in Nonces :
        minted'[n] # minted[n] /\ minted'[n].mint_recipient # Custody[minted'[n].mint] =>
          balances'[minted'[n].mint_recipient] - balances[minted'[n].mint_recipient]
            >= minted'[n].amount + minted'[n].fee_collected - minted'[n].max_fee
<1>1. RoleInv /\ [Next]_vars => PaidStep
  <2> SUFFICES ASSUME RoleInv, [Next]_vars, NEW n \in Nonces, minted'[n] # minted[n],
                      minted'[n].mint_recipient # Custody[minted'[n].mint]
               PROVE  balances'[minted'[n].mint_recipient] - balances[minted'[n].mint_recipient]
                        >= minted'[n].amount + minted'[n].fee_collected - minted'[n].max_fee
    OBVIOUS
  <2>1. PICK m \in RemoteMessages, mint \in Mints : HandleReceiveMessage(m, mint)
    BY HistorySteps
  <2> DEFINE body == m.message_body
             recipient == body.mint_recipient
             amount == body.amount
             fee == body.fee_executed
             max_fee == body.max_fee
  <2>2. /\ amount \in Nat /\ fee \in Nat /\ max_fee \in Nat
        /\ fee < amount /\ fee <= max_fee
        /\ recipient \in TokenAccounts
        /\ token_messenger.fee_recipient \in Wallets
        /\ Ata[token_messenger.fee_recipient][mint] \in TokenAccounts
        /\ balances[Custody[mint]] >= amount
    BY <2>1, HandledFacts DEF RoleInv, RolesStayValid
  <2>3. /\ minted'[n].mint_recipient = recipient
        /\ minted'[n].mint = mint
        /\ minted'[n].amount = amount - fee
        /\ minted'[n].fee_collected = fee
        /\ minted'[n].max_fee = max_fee
    <3>1. minted'[n] = [mint_recipient |-> recipient, mint |-> mint, amount |-> amount - fee,
                        fee_collected |-> fee, max_fee |-> max_fee]
      BY <2>1, HandledPayment
    <3> HIDE DEF recipient, amount, fee, max_fee
    <3>2. QED  BY <3>1
  <2>4. balances' = PaidOut(mint, recipient, amount, fee)
    BY <2>1 DEF HandleReceiveMessage
  <2> HIDE DEF recipient, amount, fee, max_fee
  <2>5. balances'[recipient] >= balances[recipient] + (amount - fee)
    BY <2>2, <2>3, <2>4, PaidOutType DEF RoleInv
  <2>6. balances[recipient] \in Nat /\ balances'[recipient] \in Nat
    BY <2>2, <2>4, PaidOutType DEF RoleInv, TypeOK
  <2>7. QED  BY <2>2, <2>3, <2>5, <2>6
<1>2. QED  BY <1>1, RoleInvariant, PTL DEF Spec, RecipientIsPaid

\* A local token account goes away by its removal only.
LEMMA ExistsSteps ==
  ASSUME RoleInv, [Next]_vars, NEW c \in Mints, Exists(c)
  PROVE  Exists(c)' \/ ~token_minter.paused
<1>0. TypeOK /\ local_tokens \in [Mints -> LocalToken \union {NoAccount}]
  BY DEF RoleInv, TypeOK
<1>1. CASE UNCHANGED tokens
  BY <1>1 DEF tokens, Exists
<1>2. ASSUME NEW signer \in RoleKeys, NEW mint \in Mints, AddLocalToken(signer, mint)
      PROVE  Exists(c)'
  BY <1>0, <1>2 DEF AddLocalToken, Exists
<1>3. ASSUME NEW signer \in RoleKeys, NEW mint \in Mints, RemoveLocalToken(signer, mint)
      PROVE  ~token_minter.paused
  BY <1>3 DEF RemoveLocalToken
<1>4. ASSUME NEW signer \in RoleKeys, NEW mint \in Mints, NEW amount \in BurnLimits,
             BurnTokenCustody(signer, mint, amount)
      PROVE  Exists(c)'
  BY <1>4 DEF BurnTokenCustody, Exists
<1>5. ASSUME NEW signer \in RoleKeys, NEW mint \in Mints, NEW limit \in BurnLimits,
             SetMaxBurnAmountPerMessage(signer, mint, limit)
      PROVE  Exists(c)'
  <2>1. local_tokens[c] \in LocalToken
    BY <1>0 DEF Exists
  <2>2. [local_tokens[c] EXCEPT !.burn_limit_per_message = limit] \in LocalToken
    BY <2>1, ParamsAssumption DEF LocalToken
  <2>3. local_tokens'[c] \in {local_tokens[c],
                              [local_tokens[c] EXCEPT !.burn_limit_per_message = limit]}
    BY <1>0, <1>5 DEF SetMaxBurnAmountPerMessage
  <2>4. QED  BY <2>1, <2>2, <2>3, CustodyFacts DEF Exists
<1>6. ASSUME NEW wallet \in Wallets, NEW account \in TokenAccounts,
             NEW params \in DepositParams, NEW hook \in Hooks \union {NoHook},
             DepositForBurnHelper(wallet, account, params, hook)
      PROVE  Exists(c)'
  BY <1>0, <1>6, DepositCountType, CustodyFacts DEF Exists
<1>7. ASSUME NEW m \in RemoteMessages, NEW mint \in Mints, HandleReceiveMessage(m, mint)
      PROVE  Exists(c)'
  <2>1. /\ m.message_body.amount \in Nat
        /\ m.message_body.fee_executed \in Nat
        /\ m.message_body.fee_executed < m.message_body.amount
        /\ local_tokens[mint] \in LocalToken
    BY <1>0, <1>7, HandledFacts DEF RoleInv, RolesStayValid
  <2>2. /\ local_tokens'[mint] \in LocalToken
        /\ \A d \in Mints \ {mint} : local_tokens'[d] = local_tokens[d]
    BY <1>0, <1>7, <2>1, CountReceivedType DEF HandleReceiveMessage
  <2>3. QED  BY <2>2, CustodyFacts DEF Exists
<1>8. ASSUME NEW from \in TokenAccounts, NEW to \in TokenAccounts,
             NEW amount \in 1..balances[from], SplTransfer(from, to, amount)
      PROVE  Exists(c)'
  BY <1>8 DEF SplTransfer, Exists
<1>9. QED
  BY <1>1, <1>2, <1>3, <1>4, <1>5, <1>6, <1>7, <1>8, TokenSteps

(***************************************************************************)
(* While the minter is paused no tokens are sent or paid and no local      *)
(* token goes away.                                                        *)
(***************************************************************************)
THEOREM PauseHolds == Spec => PausedHoldsTokens
<1> DEFINE PausedStep ==
      token_minter.paused =>
        /\ UNCHANGED <<sent, minted>>
        /\ \A m \in Mints : Exists(m) => Exists(m)'
<1>1. RoleInv /\ [Next]_vars => PausedStep
  <2>1. \A wallet, account, params, hook :
          DepositForBurnHelper(wallet, account, params, hook) => ~token_minter.paused
    BY DEF DepositForBurnHelper, Burn
  <2>2. \A m, mint : HandleReceiveMessage(m, mint) => ~token_minter.paused
    BY DEF HandleReceiveMessage
  <2>3. QED  BY <2>1, <2>2, HistorySteps, ExistsSteps
<1>2. QED  BY <1>1, RoleInvariant, PTL DEF Spec, PausedHoldsTokens
=============================================================================
