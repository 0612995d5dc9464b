-------------------------- MODULE TokenLedgerProofs --------------------------
(***************************************************************************)
(* TokenMessengerMinter keeps its books, for every value of its constants: *)
(* the supply of every mint is accounted for, the statistics of a local    *)
(* token never overstate, and every step is one of the token ledger.       *)
(***************************************************************************)
EXTENDS TokenMessengerMinterProofs, SumTheorems

(***************************************************************************)
(* The token ledger is implemented: initial states and steps are those of  *)
(* TokenLedger.                                                            *)
(***************************************************************************)
custody == [m \in Mints |-> balances[Custody[m]]]

\* Steps that move tokens of one custody account only.
LEMMA OneCustody ==
  ASSUME NEW mint \in Mints,
         \A c \in Mints \ {mint} : balances'[Custody[c]] = balances[Custody[c]]
  PROVE  custody' = [custody EXCEPT ![mint] = custody'[mint]]
BY DEF custody

\* Custody that is burned leaves no more than there was.
LEMMA DestroyStep ==
  ASSUME RoleInv, NEW mint \in Mints, NEW amount \in 0..balances[Custody[mint]],
         DestroyCustody(mint, amount), UNCHANGED <<sent, minted>>
  PROVE  Ledger!Destroy(mint)
<1>1. balances \in [TokenAccounts -> Nat]
  BY DEF RoleInv, TypeOK
<1>2. balances' = [balances EXCEPT ![Custody[mint]] = balances[Custody[mint]] - amount]
  BY DEF DestroyCustody
<1>3. balances[Custody[mint]] \in Nat
  BY <1>1, CustodyFacts
<1>4. balances'[Custody[mint]] \in 0..balances[Custody[mint]]
  BY <1>1, <1>2, <1>3, CustodyFacts
<1>5. \A c \in Mints \ {mint} : balances'[Custody[c]] = balances[Custody[c]]
  BY <1>1, <1>2, CustodyFacts
<1>6. custody' = [custody EXCEPT ![mint] = custody'[mint]]
  BY <1>5, OneCustody
<1>7. custody'[mint] \in 0..custody[mint]
  BY <1>4 DEF custody
<1>8. QED  BY <1>6, <1>7 DEF Ledger!Destroy, custody

\* A deposit sends a payable message and leaves custody alone: the tokens it
\* burns are in an account of the depositor.
LEMMA SendStep ==
  ASSUME RoleInv, SentArePayable, NEW wallet \in Wallets, NEW account \in TokenAccounts,
         NEW params \in DepositParams, NEW hook \in Hooks \union {NoHook},
         DepositForBurnHelper(wallet, account, params, hook)
  PROVE  Ledger!Send
<1>1. /\ Len(sent') = Len(sent) + 1
      /\ sent' = Append(sent, sent'[Len(sent')])
      /\ sent'[Len(sent')].message_body.max_fee < sent'[Len(sent')].message_body.amount
      /\ sent'[Len(sent')].message_body.fee_executed = 0
  BY DepositIsPayable DEF RoleInv
<1>2. \A c \in Mints : Custody[c] # account
  BY CustodyFacts DEF DepositForBurnHelper
<1>3. balances' = [balances EXCEPT ![account] = balances[account] - params.amount]
  BY DEF DepositForBurnHelper, Burn
<1>4. \A c \in Mints : balances'[Custody[c]] = balances[Custody[c]]
  BY <1>2, <1>3, CustodyFacts DEF RoleInv, TypeOK
<1>5. UNCHANGED custody /\ UNCHANGED minted
  BY <1>4 DEF custody, DepositForBurnHelper
<1>6. QED  BY <1>1, <1>5 DEF Ledger!Send, Ledger!Payable, custody

\* Handling a message pays its nonce, once, out of the custody of one mint.
LEMMA PayStep ==
  ASSUME RoleInv, NEW m \in RemoteMessages, NEW mint \in Mints,
         minted[m.nonce] = NoAccount, HandleReceiveMessage(m, mint)
  PROVE  \E n \in Nonces : Ledger!Pay(n, minted'[n])
<1> DEFINE body == m.message_body
           recipient == body.mint_recipient
           amount == body.amount
           fee == body.fee_executed
           payment == [mint_recipient |-> recipient, mint |-> mint, amount |-> amount - fee,
                       fee_collected |-> fee, max_fee |-> body.max_fee]
<1>1. /\ TypeOK
      /\ m.nonce \in Nonces
      /\ amount \in Nat /\ fee \in Nat /\ body.max_fee \in Nat
      /\ fee < amount /\ fee <= body.max_fee
      /\ recipient \in TokenAccounts /\ AccountMint[recipient] = mint
      /\ token_messenger.fee_recipient \in Wallets
      /\ Ata[token_messenger.fee_recipient][mint] \in TokenAccounts
      /\ balances[Custody[mint]] >= amount
  BY HandledFacts DEF RoleInv, RolesStayValid
<1>2. minted' = [minted EXCEPT ![m.nonce] = payment]
  BY DEF HandleReceiveMessage
<1>3. balances' = PaidOut(mint, recipient, amount, fee)
  BY DEF HandleReceiveMessage
<1>4. UNCHANGED sent
  BY DEF HandleReceiveMessage
<1>5. payment \in MintAndWithdraw
  BY <1>1 DEF MintAndWithdraw
<1>6. payment # NoAccount
  BY <1>5, BoundsAssumption
<1>7. minted'[m.nonce] = payment
  BY <1>1, <1>2 DEF TypeOK
<1>8. /\ payment.mint = mint
      /\ payment.amount > 0
      /\ payment.amount + payment.fee_collected = amount
      /\ payment.fee_collected <= payment.max_fee
  BY <1>1
<1> HIDE DEF payment, recipient, amount, fee
<1>9. balances'[Custody[mint]] \in (balances[Custody[mint]] - amount)..balances[Custody[mint]]
  BY <1>1, <1>3, CustodyFacts, PaidOutType
<1>10. \A c \in Mints \ {mint} : balances'[Custody[c]] = balances[Custody[c]]
  <2> SUFFICES ASSUME NEW c \in Mints, c # mint
               PROVE  balances'[Custody[c]] = balances[Custody[c]]
    OBVIOUS
  <2>1. Custody[c] \notin {Custody[mint], recipient, Ata[token_messenger.fee_recipient][mint]}
    BY <1>1, CustodyFacts, AccountsAssumption
  <2>2. QED  BY <1>1, <1>3, <2>1, CustodyFacts, PaidOutType
<1>11. custody' = [custody EXCEPT ![mint] = custody'[mint]]
  BY <1>10, OneCustody
<1>12. custody'[mint] \in (custody[mint] - amount)..custody[mint] /\ custody[mint] >= amount
  BY <1>1, <1>9 DEF custody
<1>13. /\ minted[m.nonce] = NoAccount
       /\ \E left \in (custody[mint] - amount)..custody[mint] :
            custody' = [custody EXCEPT ![mint] = left]
  BY <1>11, <1>12
<1>14. QED
  BY <1>1, <1>2, <1>4, <1>6, <1>7, <1>8, <1>12, <1>13 DEF Ledger!Pay, Ledger!Total, custody

\* A transfer between wallets and custody funds at most one custody account.
LEMMA FundStep ==
  ASSUME RoleInv, NEW from \in TokenAccounts, NEW to \in TokenAccounts,
         NEW amount \in 1..balances[from], SplTransfer(from, to, amount)
  PROVE  \/ UNCHANGED <<custody, sent, minted>>
         \/ \E mint \in Mints : Ledger!Fund(mint)
<1>1. balances \in [TokenAccounts -> Nat]
  BY DEF RoleInv, TypeOK
<1>2. amount \in Nat /\ amount > 0 /\ amount <= balances[from] /\ from # to
      /\ UNCHANGED <<sent, minted>>
  BY <1>1 DEF SplTransfer
<1>3. \A a \in TokenAccounts :
        balances'[a] = (balances[a] + (IF a = to THEN amount ELSE 0))
                         - (IF a = from THEN amount ELSE 0)
  BY <1>1, <1>2, TransferredType DEF SplTransfer
<1>4. \A a \in TokenAccounts : balances[a] \in Nat
  BY <1>1
<1>5. \A c \in Mints : Custody[c] # from
  BY CustodyFacts DEF SplTransfer
<1>6. \A c \in Mints : Custody[c] # to => balances'[Custody[c]] = balances[Custody[c]]
  BY <1>2, <1>3, <1>4, <1>5, CustodyFacts
<1>7. CASE \A c \in Mints : Custody[c] # to
  BY <1>2, <1>6, <1>7 DEF custody
<1>8. ASSUME NEW mint \in Mints, Custody[mint] = to
      PROVE  Ledger!Fund(mint)
  <2>1. custody' = [custody EXCEPT ![mint] = custody'[mint]]
    BY <1>6, <1>8, CustodyFacts, OneCustody
  <2>2. custody'[mint] > custody[mint]
    BY <1>2, <1>3, <1>4, <1>5, <1>8, CustodyFacts DEF custody
  <2>3. QED  BY <1>2, <2>1, <2>2 DEF Ledger!Fund, custody
<1>9. QED  BY <1>7, <1>8

LEMMA LedgerStep ==
  RoleInv /\ SentArePayable /\ [Next]_vars => [Ledger!Next]_<<custody, sent, minted>>
<1> SUFFICES ASSUME RoleInv, SentArePayable, [Next]_vars
             PROVE  Ledger!Next \/ UNCHANGED <<custody, sent, minted>>
  OBVIOUS
<1>1. CASE UNCHANGED tokens
  BY <1>1 DEF tokens, custody
<1>2. ASSUME NEW signer \in RoleKeys, NEW mint \in Mints, AddLocalToken(signer, mint)
      PROVE  UNCHANGED <<custody, sent, minted>>
  BY <1>2 DEF AddLocalToken, custody
<1>3. ASSUME NEW signer \in RoleKeys, NEW mint \in Mints, RemoveLocalToken(signer, mint)
      PROVE  Ledger!Next
  <2>1. balances[Custody[mint]] \in 0..balances[Custody[mint]]
    BY CustodyFacts DEF RoleInv, TypeOK
  <2>2. Ledger!Destroy(mint)
    BY <1>3, <2>1, DestroyStep DEF RemoveLocalToken
  <2>3. QED  BY <2>2 DEF Ledger!Next
<1>4. ASSUME NEW signer \in RoleKeys, NEW mint \in Mints, NEW amount \in BurnLimits,
             BurnTokenCustody(signer, mint, amount)
      PROVE  Ledger!Next
  <2>1. balances[Custody[mint]] \in Nat /\ amount \in Nat
    BY CustodyFacts, ParamsAssumption, BoundsAssumption DEF RoleInv, TypeOK
  <2>2. \E burned \in 0..balances[Custody[mint]] : DestroyCustody(mint, burned)
    BY <1>4, <2>1 DEF BurnTokenCustody
  <2>3. Ledger!Destroy(mint)
    BY <1>4, <2>2, DestroyStep DEF BurnTokenCustody
  <2>4. QED  BY <2>3 DEF Ledger!Next
<1>5. ASSUME NEW signer \in RoleKeys, NEW mint \in Mints, NEW limit \in BurnLimits,
             SetMaxBurnAmountPerMessage(signer, mint, limit)
      PROVE  UNCHANGED <<custody, sent, minted>>
  BY <1>5 DEF SetMaxBurnAmountPerMessage, custody
<1>6. ASSUME NEW wallet \in Wallets, NEW account \in TokenAccounts,
             NEW params \in DepositParams, NEW hook \in Hooks \union {NoHook},
             DepositForBurnHelper(wallet, account, params, hook)
      PROVE  Ledger!Next
  BY <1>6, SendStep DEF Ledger!Next
<1>7. ASSUME NEW m \in RemoteMessages, NEW mint \in Mints, minted[m.nonce] = NoAccount,
             HandleReceiveMessage(m, mint)
      PROVE  Ledger!Next
  <2>1. \E n \in Nonces : Ledger!Pay(n, minted'[n])
    BY <1>7, PayStep
  <2>2. QED  BY <2>1 DEF Ledger!Next, Ledger!Pay
<1>8. ASSUME NEW from \in TokenAccounts, NEW to \in TokenAccounts,
             NEW amount \in 1..balances[from], SplTransfer(from, to, amount)
      PROVE  Ledger!Next \/ UNCHANGED <<custody, sent, minted>>
  BY <1>8, FundStep DEF Ledger!Next
<1>9. QED
  BY <1>1, <1>2, <1>3, <1>4, <1>5, <1>6, <1>7, <1>8, TokenSteps

(***************************************************************************)
(* The program implements the token ledger: messages it sends are payable, *)
(* every nonce is paid at most once, and custody gives no more for it than *)
(* the amount that was burned elsewhere.                                   *)
(***************************************************************************)
THEOREM KeepsLedger == Spec => LedgerSpec
<1>1. Init => Ledger!Init
  BY AccountsAssumption DEF Init, Ledger!Init
<1>2. RoleInv /\ SentArePayable /\ [Next]_vars => [Ledger!Next]_<<custody, sent, minted>>
  BY LedgerStep
<1>3. QED
  BY <1>1, <1>2, RoleInvariant, AllSentArePayable, PTL
     DEF Spec, LedgerSpec, Ledger!Spec, custody

-----------------------------------------------------------------------------
(***************************************************************************)
(* Sums over what was sent, what was paid and what the accounts hold.      *)
(***************************************************************************)
LEMMA SumFacts ==
  ASSUME TypeOK, NEW c \in Mints
  PROVE  /\ IsFiniteSet(SentOf(c)) /\ Cardinality(SentOf(c)) \in Nat
         /\ \A i \in SentOf(c) : SentAmounts[i] \in Nat
         /\ AmountSent(c) \in Nat
         /\ IsFiniteSet(PaidOf(c)) /\ Cardinality(PaidOf(c)) \in Nat
         /\ \A n \in PaidOf(c) : PaidAmounts[n] \in Nat
         /\ AmountPaid(c) \in Nat
         /\ IsFiniteSet(AccountsOf(c))
<1>1. IsFiniteSet(SentOf(c))
  <2>1. DOMAIN sent = 1..Len(sent) /\ Len(sent) \in Nat
    BY LenProperties DEF TypeOK
  <2>2. IsFiniteSet(1..Len(sent)) /\ SentOf(c) \subseteq 1..Len(sent)
    BY <2>1, FS_Interval DEF SentOf
  <2>3. QED  BY <2>2, FS_Subset
<1>2. \A i \in SentOf(c) : SentAmounts[i] \in Nat
  <2>1. \A i \in DOMAIN sent : sent[i] \in SentMessage
    BY ElementOfSeq, LenProperties DEF TypeOK
  <2>2. QED  BY <2>1 DEF SentAmounts, SentOf, SentMessage, BurnMessage
<1>3. IsFiniteSet(PaidOf(c))
  BY FiniteAssumption, FS_Subset DEF PaidOf
<1>4. \A n \in PaidOf(c) : PaidAmounts[n] \in Nat
  BY DEF TypeOK, PaidAmounts, PaidOf, MintAndWithdraw
<1>5. IsFiniteSet(AccountsOf(c))
  BY FiniteAssumption, FS_Subset DEF AccountsOf
<1>6. AmountSent(c) \in Nat
  BY <1>1, <1>2, SumType DEF AmountSent
<1>7. AmountPaid(c) \in Nat
  BY <1>3, <1>4, SumType DEF AmountPaid
<1>8. QED  BY <1>1, <1>2, <1>3, <1>4, <1>5, <1>6, <1>7, FS_CardinalityType

\* A deposit adds one message of its amount to those of its account's mint.
LEMMA DepositSums ==
  ASSUME TypeOK, NEW wallet \in Wallets, NEW account \in TokenAccounts,
         NEW params \in DepositParams, NEW hook \in Hooks \union {NoHook},
         DepositForBurnHelper(wallet, account, params, hook), NEW c \in Mints
  PROVE  /\ c = AccountMint[account] =>
              /\ Cardinality(SentOf(c)') = Cardinality(SentOf(c)) + 1
              /\ AmountSent(c)' = AmountSent(c) + params.amount
         /\ c # AccountMint[account] =>
              SentOf(c)' = SentOf(c) /\ AmountSent(c)' = AmountSent(c)
<1> DEFINE body == FormatMessage(wallet, AccountMint[account], params, hook)
           message == [destination_domain |-> params.destination_domain,
             recipient |-> remote_token_messengers[params.destination_domain],
             message_body |-> body,
             destination_caller |-> params.destination_caller,
             min_finality_threshold |-> params.min_finality_threshold]
           new == Len(sent) + 1
<1>1. message \in SentMessage
  BY DepositMessageType DEF DepositForBurnHelper
<1>2. sent' = Append(sent, message)
  BY DEF DepositForBurnHelper, SendMessage
<1>3. /\ message.message_body.amount = params.amount
      /\ message.message_body.burn_token = AccountMint[account]
      /\ params.amount \in Nat
  BY ParamsAssumption, BoundsAssumption DEF FormatMessage, DepositForBurnParams
<1> HIDE DEF message
<1>4. /\ sent'[new] = message
      /\ \A i \in 1..Len(sent) : sent'[i] = sent[i]
      /\ DOMAIN sent' = (1..Len(sent)) \union {new} /\ new \notin 1..Len(sent)
      /\ DOMAIN sent = 1..Len(sent)
  BY <1>1, <1>2, AppendProperties, LenProperties DEF TypeOK
<1> HIDE DEF new
<1>5. /\ SentAmounts'[new] = params.amount
      /\ \A i \in SentOf(c) : SentAmounts'[i] = SentAmounts[i]
      /\ new \notin SentOf(c)
  BY <1>3, <1>4 DEF SentAmounts, SentOf
<1>6. SumFunctionOnSet(SentAmounts', SentOf(c)) = AmountSent(c)
  BY <1>5, SumFacts, SumSame DEF AmountSent
<1>7. CASE c = AccountMint[account]
  <2>1. SentOf(c)' = SentOf(c) \union {new}
    BY <1>3, <1>4, <1>7 DEF SentOf
  <2>2. Cardinality(SentOf(c)') = Cardinality(SentOf(c)) + 1
    BY <1>5, <2>1, SumFacts, FS_AddElement
  <2>3. \A i \in SentOf(c) : SentAmounts'[i] \in Nat
    BY <1>5, SumFacts
  <2>4. SumFunctionOnSet(SentAmounts', SentOf(c) \union {new})
          = SumFunctionOnSet(SentAmounts', SentOf(c)) + SentAmounts'[new]
    BY <1>3, <1>5, <2>3, SumFacts, SumAdds
  <2>5. QED  BY <1>5, <1>6, <1>7, <2>1, <2>2, <2>4 DEF AmountSent
<1>8. CASE c # AccountMint[account]
  <2>1. SentOf(c)' = SentOf(c)
    BY <1>3, <1>4, <1>8 DEF SentOf
  <2>2. QED  BY <1>6, <1>8, <2>1 DEF AmountSent
<1>9. QED  BY <1>7, <1>8

\* Handling a message adds a payment of its amount to those of one mint.
LEMMA PaymentSums ==
  ASSUME RoleInv, NEW m \in RemoteMessages, NEW mint \in Mints,
         minted[m.nonce] = NoAccount, HandleReceiveMessage(m, mint), NEW c \in Mints
  PROVE  /\ c = mint =>
              /\ Cardinality(PaidOf(c)') = Cardinality(PaidOf(c)) + 1
              /\ AmountPaid(c)' = AmountPaid(c) + m.message_body.amount
         /\ c # mint =>
              PaidOf(c)' = PaidOf(c) /\ AmountPaid(c)' = AmountPaid(c)
<1> DEFINE body == m.message_body
           amount == body.amount
           fee == body.fee_executed
           payment == [mint_recipient |-> body.mint_recipient, mint |-> mint,
                       amount |-> amount - fee, fee_collected |-> fee,
                       max_fee |-> body.max_fee]
           new == m.nonce
<1>1. /\ TypeOK
      /\ new \in Nonces
      /\ amount \in Nat /\ fee \in Nat /\ body.max_fee \in Nat
      /\ fee < amount
      /\ body.mint_recipient \in TokenAccounts
  BY HandledFacts DEF RoleInv, RolesStayValid
<1>2. minted' = [minted EXCEPT ![new] = payment] /\ minted[new] = NoAccount
  BY DEF HandleReceiveMessage
<1>3. payment \in MintAndWithdraw
  BY <1>1 DEF MintAndWithdraw
<1>4. payment # NoAccount /\ payment.mint = mint /\ payment.amount + payment.fee_collected = amount
  BY <1>1, <1>3, BoundsAssumption
<1> HIDE DEF payment, amount, fee, new
<1>5. /\ minted'[new] = payment
      /\ \A n \in Nonces \ {new} : minted'[n] = minted[n]
  BY <1>1, <1>2 DEF TypeOK
<1>6. /\ PaidAmounts'[new] = amount
      /\ \A n \in PaidOf(c) : PaidAmounts'[n] = PaidAmounts[n]
      /\ new \notin PaidOf(c)
  <2>1. new \notin PaidOf(c)
    BY <1>2 DEF PaidOf
  <2>2. PaidAmounts'[new] = payment.amount + payment.fee_collected
    BY <1>1, <1>4, <1>5 DEF PaidAmounts
  <2>3. \A n \in PaidOf(c) : PaidAmounts'[n] = PaidAmounts[n]
    BY <1>5, <2>1 DEF PaidAmounts, PaidOf
  <2>4. QED  BY <1>4, <2>1, <2>2, <2>3
<1>7. SumFunctionOnSet(PaidAmounts', PaidOf(c)) = AmountPaid(c)
  BY <1>1, <1>6, SumFacts, SumSame DEF AmountPaid
<1>8. CASE c = mint
  <2>1. PaidOf(c)' = PaidOf(c) \union {new}
    BY <1>1, <1>4, <1>5, <1>8 DEF PaidOf
  <2>2. Cardinality(PaidOf(c)') = Cardinality(PaidOf(c)) + 1
    BY <1>1, <1>6, <2>1, SumFacts, FS_AddElement
  <2>3. \A n \in PaidOf(c) : PaidAmounts'[n] \in Nat
    BY <1>1, <1>6, SumFacts
  <2>4. SumFunctionOnSet(PaidAmounts', PaidOf(c) \union {new})
          = SumFunctionOnSet(PaidAmounts', PaidOf(c)) + PaidAmounts'[new]
    BY <1>1, <1>6, <2>3, SumFacts, SumAdds
  <2>5. QED  BY <1>6, <1>7, <1>8, <2>1, <2>2, <2>4 DEF AmountPaid, amount
<1>9. CASE c # mint
  <2>1. PaidOf(c)' = PaidOf(c)
    BY <1>2, <1>4, <1>5, <1>9 DEF PaidOf
  <2>2. QED  BY <1>7, <1>9, <2>1 DEF AmountPaid
<1>10. QED  BY <1>8, <1>9

\* A transfer between accounts of one mint leaves the total of every mint.
LEMMA TransferredTotal ==
  ASSUME NEW held \in [TokenAccounts -> Nat], NEW from \in TokenAccounts, NEW to \in TokenAccounts,
         AccountMint[from] = AccountMint[to], NEW amount \in Nat, amount <= held[from],
         NEW c \in Mints
  PROVE  SumFunctionOnSet(Transferred(from, to, amount, held), AccountsOf(c))
           = SumFunctionOnSet(held, AccountsOf(c))
<1> DEFINE A == AccountsOf(c)
           taken == [held EXCEPT ![from] = held[from] - amount]
           moved == [taken EXCEPT ![to] = taken[to] + amount]
<1>1. moved = Transferred(from, to, amount, held)
  BY DEF Transferred
<1>2. IsFiniteSet(A) /\ A \subseteq TokenAccounts
  BY FiniteAssumption, FS_Subset DEF AccountsOf
<1>3. /\ \A a \in TokenAccounts : held[a] \in Nat
      /\ taken[from] = held[from] - amount /\ taken[from] \in Nat
      /\ \A a \in TokenAccounts \ {from} : taken[a] = held[a]
  OBVIOUS
<1> HIDE DEF taken
<1>4. \A a \in TokenAccounts : taken[a] \in Nat
  BY <1>3
<1>5. /\ moved[to] = taken[to] + amount /\ moved[to] \in Nat
      /\ \A a \in TokenAccounts \ {to} : moved[a] = taken[a]
  BY <1>4 DEF taken
<1> HIDE DEF moved, A
<1>6. SumFunctionOnSet(held, A) \in Nat
  BY <1>2, <1>3, SumType
<1>7. CASE AccountMint[from] = c
  <2>1. from \in A /\ to \in A
    BY <1>7 DEF A, AccountsOf
  <2>2. SumFunctionOnSet(taken, A) = (SumFunctionOnSet(held, A) - held[from]) + taken[from]
    BY <1>2, <1>3, <2>1, SumChanges
  <2>3. SumFunctionOnSet(moved, A) = (SumFunctionOnSet(taken, A) - taken[to]) + moved[to]
    BY <1>2, <1>4, <1>5, <2>1, SumChanges
  <2>4. /\ held[from] \in Nat /\ taken[to] \in Nat /\ taken[from] = held[from] - amount
        /\ moved[to] = taken[to] + amount
    BY <1>3, <1>4, <1>5
  <2> HIDE DEF A
  <2>5. SumFunctionOnSet(moved, A) = SumFunctionOnSet(held, A)
    BY <1>6, <2>2, <2>3, <2>4
  <2>6. QED  BY <1>1, <2>5 DEF A
<1>8. CASE AccountMint[from] # c
  <2>1. \A a \in A : moved[a] = held[a]
    BY <1>3, <1>5, <1>8 DEF A, AccountsOf
  <2>2. SumFunctionOnSet(moved, A) = SumFunctionOnSet(held, A)
    BY <1>2, <2>1, SumSame
  <2>3. QED  BY <1>1, <2>2 DEF A
<1>9. QED  BY <1>7, <1>8

\* So does a payment: custody, fee recipient and recipient are of one mint.
LEMMA PaidOutTotal ==
  ASSUME RoleInv, NEW m \in RemoteMessages, NEW mint \in Mints, HandleReceiveMessage(m, mint),
         NEW c \in Mints
  PROVE  SumFunctionOnSet(balances', AccountsOf(c)) = SumFunctionOnSet(balances, AccountsOf(c))
<1> DEFINE recipient == m.message_body.mint_recipient
           amount == m.message_body.amount
           fee == m.message_body.fee_executed
           custody_account == Custody[mint]
           fee_account == Ata[token_messenger.fee_recipient][mint]
           fee_paid == IF fee > 0 THEN Transferred(custody_account, fee_account, fee, balances)
                       ELSE balances
           net == amount - fee
<1>1. /\ TypeOK
      /\ amount \in Nat /\ fee \in Nat /\ fee < amount
      /\ recipient \in TokenAccounts /\ AccountMint[recipient] = mint
      /\ token_messenger.fee_recipient \in Wallets
      /\ fee_account \in TokenAccounts
      /\ balances[custody_account] >= amount
  BY HandledFacts DEF RoleInv, RolesStayValid
<1>2. /\ custody_account \in TokenAccounts /\ AccountMint[custody_account] = mint
      /\ AccountMint[fee_account] = mint
      /\ fee_account # custody_account
      /\ balances \in [TokenAccounts -> Nat]
  BY <1>1, AccountsAssumption DEF TypeOK
<1>3. balances' = Transferred(custody_account, recipient, net, fee_paid)
  BY DEF HandleReceiveMessage, PaidOut
<1>4. balances[custody_account] \in Nat /\ net \in Nat /\ fee <= balances[custody_account]
      /\ net = amount - fee
  BY <1>1, <1>2
<1> HIDE DEF recipient, amount, fee, custody_account, fee_account, net
<1>5. /\ fee_paid \in [TokenAccounts -> Nat]
      /\ fee_paid[custody_account] = balances[custody_account] - fee
      /\ SumFunctionOnSet(fee_paid, AccountsOf(c)) = SumFunctionOnSet(balances, AccountsOf(c))
  <2>1. CASE fee > 0
    <3>1. fee_paid = Transferred(custody_account, fee_account, fee, balances)
      BY <2>1
    <3>2. fee_paid \in [TokenAccounts -> Nat]
          /\ fee_paid[custody_account] = balances[custody_account] - fee
      BY <1>1, <1>2, <1>4, <3>1, TransferredType
    <3>3. QED  BY <1>1, <1>2, <1>4, <3>1, <3>2, TransferredTotal
  <2>2. CASE fee = 0
    BY <1>2, <1>4, <2>2
  <2>3. QED  BY <1>1, <2>1, <2>2
<1> HIDE DEF fee_paid
<1>6. net <= fee_paid[custody_account]
  BY <1>1, <1>4, <1>5
<1>7. SumFunctionOnSet(Transferred(custody_account, recipient, net, fee_paid), AccountsOf(c))
        = SumFunctionOnSet(fee_paid, AccountsOf(c))
  BY <1>1, <1>2, <1>4, <1>5, <1>6, TransferredTotal
<1>8. QED  BY <1>3, <1>5, <1>7

-----------------------------------------------------------------------------
(***************************************************************************)
(* The supply.                                                             *)
(***************************************************************************)
\* Burning custody moves its tokens to what was destroyed of the mint.
LEMMA DestroyedTotal ==
  ASSUME TypeOK, NEW mint \in Mints, NEW amount \in 0..balances[Custody[mint]],
         DestroyCustody(mint, amount), NEW c \in Mints
  PROVE  SumFunctionOnSet(balances', AccountsOf(c)) + destroyed'[c]
           = SumFunctionOnSet(balances, AccountsOf(c)) + destroyed[c]
<1> DEFINE A == AccountsOf(c)
           account == Custody[mint]
<1>1. /\ account \in TokenAccounts /\ AccountMint[account] = mint
      /\ \A a \in TokenAccounts : balances[a] \in Nat
      /\ \A d \in Mints : destroyed[d] \in Nat
  BY CustodyFacts DEF TypeOK
<1>2. amount \in Nat /\ amount <= balances[account]
  BY <1>1
<1>3. /\ balances'[account] = balances[account] - amount
      /\ balances'[account] \in Nat
      /\ \A a \in TokenAccounts \ {account} : balances'[a] = balances[a]
  BY <1>1, <1>2 DEF DestroyCustody, TypeOK
<1>4. /\ destroyed'[mint] = destroyed[mint] + amount
      /\ \A d \in Mints \ {mint} : destroyed'[d] = destroyed[d]
  BY DEF DestroyCustody, TypeOK
<1>5. IsFiniteSet(A) /\ A \subseteq TokenAccounts
  BY SumFacts DEF AccountsOf
<1>6. SumFunctionOnSet(balances, A) \in Nat
  BY <1>1, <1>5, SumType
<1> HIDE DEF A, account
<1>7. CASE c = mint
  <2>1. account \in A
    BY <1>1, <1>7 DEF A, AccountsOf
  <2>2. SumFunctionOnSet(balances', A)
          = (SumFunctionOnSet(balances, A) - balances[account]) + balances'[account]
    BY <1>1, <1>3, <1>5, <2>1, SumChanges
  <2>3. balances[account] \in Nat /\ destroyed[c] \in Nat /\ destroyed'[c] = destroyed[c] + amount
    BY <1>1, <1>4, <1>7
  <2>4. SumFunctionOnSet(balances', A) + destroyed'[c] = SumFunctionOnSet(balances, A) + destroyed[c]
    BY <1>2, <1>3, <1>6, <2>2, <2>3
  <2>5. QED  BY <2>4 DEF A
<1>8. CASE c # mint
  <2>1. \A a \in A : balances'[a] = balances[a]
    BY <1>1, <1>3, <1>5, <1>8 DEF A, AccountsOf
  <2>2. SumFunctionOnSet(balances', A) = SumFunctionOnSet(balances, A)
    BY <1>5, <2>1, SumSame
  <2>3. QED  BY <1>4, <1>8, <2>2 DEF A
<1>9. QED  BY <1>7, <1>8

\* A deposit moves tokens from an account to the amounts sent.
LEMMA DepositTotal ==
  ASSUME TypeOK, NEW wallet \in Wallets, NEW account \in TokenAccounts,
         NEW params \in DepositParams, NEW hook \in Hooks \union {NoHook},
         DepositForBurnHelper(wallet, account, params, hook), NEW c \in Mints
  PROVE  SumFunctionOnSet(balances', AccountsOf(c)) + AmountSent(c)'
           = SumFunctionOnSet(balances, AccountsOf(c)) + AmountSent(c)
<1> DEFINE A == AccountsOf(c)
           amount == params.amount
<1>1. /\ AccountMint[account] \in Mints
      /\ \A a \in TokenAccounts : balances[a] \in Nat
      /\ amount \in Nat /\ amount <= balances[account]
  <2>1. amount \in Nat
    BY ParamsAssumption, BoundsAssumption DEF DepositForBurnParams
  <2>2. balances[account] >= amount
    BY DEF DepositForBurnHelper, Burn
  <2>3. balances \in [TokenAccounts -> Nat]
    BY DEF TypeOK
  <2>4. QED  BY <2>1, <2>2, <2>3, AccountsAssumption
<1>2. /\ balances'[account] = balances[account] - amount
      /\ balances'[account] \in Nat
      /\ \A a \in TokenAccounts \ {account} : balances'[a] = balances[a]
  BY <1>1 DEF DepositForBurnHelper, Burn, TypeOK
<1>3. /\ c = AccountMint[account] => AmountSent(c)' = AmountSent(c) + amount
      /\ c # AccountMint[account] => AmountSent(c)' = AmountSent(c)
  BY DepositSums
<1>4. IsFiniteSet(A) /\ A \subseteq TokenAccounts /\ AmountSent(c) \in Nat
  BY SumFacts DEF AccountsOf
<1>5. SumFunctionOnSet(balances, A) \in Nat
  BY <1>1, <1>4, SumType
<1> HIDE DEF A, amount
<1>6. CASE c = AccountMint[account]
  <2>1. account \in A
    BY <1>6 DEF A, AccountsOf
  <2>2. SumFunctionOnSet(balances', A)
          = (SumFunctionOnSet(balances, A) - balances[account]) + balances'[account]
    BY <1>1, <1>2, <1>4, <2>1, SumChanges
  <2>3. SumFunctionOnSet(balances', A) + AmountSent(c)' = SumFunctionOnSet(balances, A) + AmountSent(c)
    BY <1>1, <1>2, <1>3, <1>4, <1>5, <1>6, <2>2
  <2>4. QED  BY <2>3 DEF A
<1>7. CASE c # AccountMint[account]
  <2>1. \A a \in A : balances'[a] = balances[a]
    BY <1>2, <1>4, <1>7 DEF A, AccountsOf
  <2>2. SumFunctionOnSet(balances', A) = SumFunctionOnSet(balances, A)
    BY <1>4, <2>1, SumSame
  <2>3. QED  BY <1>3, <1>7, <2>2 DEF A
<1>8. QED  BY <1>6, <1>7

\* No step changes what the accounts of a mint hold, what was sent and what
\* was destroyed of it, taken together.
LEMMA SupplyStep ==
  ASSUME RoleInv, [Next]_vars, NEW c \in Mints
  PROVE  SumFunctionOnSet(balances', AccountsOf(c)) + AmountSent(c)' + destroyed'[c]
           = SumFunctionOnSet(balances, AccountsOf(c)) + AmountSent(c) + destroyed[c]
<1> DEFINE total == SumFunctionOnSet(balances, AccountsOf(c))
<1>1. /\ TypeOK
      /\ AmountSent(c) \in Nat
      /\ total \in Nat
      /\ destroyed[c] \in Nat
  <2>1. \A a \in AccountsOf(c) : balances[a] \in Nat
    BY DEF RoleInv, TypeOK, AccountsOf
  <2>2. QED  BY <2>1, SumFacts, SumType DEF RoleInv, TypeOK
<1> DEFINE Kept == total' + AmountSent(c)' + destroyed'[c] = total + AmountSent(c) + destroyed[c]
<1>2. UNCHANGED sent => AmountSent(c)' = AmountSent(c)
  BY DEF AmountSent, SentAmounts, SentOf
<1>3. UNCHANGED <<balances, sent, destroyed>> => Kept
  BY <1>2
<1>4. ASSUME UNCHANGED <<sent, destroyed>>, total' = total
      PROVE  Kept
  BY <1>2, <1>4
<1>5. ASSUME NEW mint \in Mints, NEW amount \in 0..balances[Custody[mint]],
             DestroyCustody(mint, amount), UNCHANGED sent
      PROVE  Kept
  <2>1. total' + destroyed'[c] = total + destroyed[c]
    BY <1>1, <1>5, DestroyedTotal
  <2>2. total' \in Nat /\ destroyed'[c] \in Nat
    <3>1. TypeOK'
      BY RoleInvStep DEF RoleInv
    <3>2. \A a \in AccountsOf(c) : balances'[a] \in Nat
      BY <3>1 DEF TypeOK, AccountsOf
    <3>3. QED  BY <1>1, <3>1, <3>2, SumFacts, SumType DEF TypeOK
  <2> HIDE DEF total
  <2>3. QED  BY <1>1, <1>2, <1>5, <2>1, <2>2
<1>6. ASSUME NEW signer \in RoleKeys, NEW mint \in Mints, RemoveLocalToken(signer, mint)
      PROVE  Kept
  <2>1. balances[Custody[mint]] \in 0..balances[Custody[mint]]
    BY <1>1, CustodyFacts DEF TypeOK
  <2>2. QED  BY <1>5, <1>6, <2>1 DEF RemoveLocalToken
<1>7. ASSUME NEW signer \in RoleKeys, NEW mint \in Mints, NEW amount \in BurnLimits,
             BurnTokenCustody(signer, mint, amount)
      PROVE  Kept
  <2>1. balances[Custody[mint]] \in Nat /\ amount \in Nat
    BY <1>1, CustodyFacts, ParamsAssumption, BoundsAssumption DEF TypeOK
  <2>2. \E burned \in 0..balances[Custody[mint]] : DestroyCustody(mint, burned)
    BY <1>7, <2>1 DEF BurnTokenCustody
  <2>3. UNCHANGED sent
    BY <1>7 DEF BurnTokenCustody
  <2>4. QED  BY <1>5, <2>2, <2>3
<1>8. ASSUME NEW wallet \in Wallets, NEW account \in TokenAccounts,
             NEW params \in DepositParams, NEW hook \in Hooks \union {NoHook},
             DepositForBurnHelper(wallet, account, params, hook)
      PROVE  Kept
  <2>1. total' + AmountSent(c)' = total + AmountSent(c)
    BY <1>1, <1>8, DepositTotal
  <2>2. UNCHANGED destroyed
    BY <1>8 DEF DepositForBurnHelper
  <2> HIDE DEF total
  <2>3. QED  BY <2>1, <2>2
<1>9. ASSUME NEW m \in RemoteMessages, NEW mint \in Mints, HandleReceiveMessage(m, mint)
      PROVE  Kept
  <2>1. total' = total
    BY <1>9, PaidOutTotal
  <2>2. QED  BY <1>4, <1>9, <2>1 DEF HandleReceiveMessage
<1>10. ASSUME NEW from \in TokenAccounts, NEW to \in TokenAccounts,
              NEW amount \in 1..balances[from], SplTransfer(from, to, amount)
       PROVE  Kept
  <2>1. balances \in [TokenAccounts -> Nat] /\ amount \in Nat /\ amount <= balances[from]
    BY <1>1, <1>10 DEF TypeOK
  <2>2. total' = total
    BY <1>10, <2>1, TransferredTotal DEF SplTransfer
  <2>3. QED  BY <1>4, <1>10, <2>2 DEF SplTransfer
<1>11. ASSUME NEW signer \in RoleKeys, NEW mint \in Mints, NEW limit \in BurnLimits,
              SetMaxBurnAmountPerMessage(signer, mint, limit)
       PROVE  Kept
  BY <1>3, <1>11 DEF SetMaxBurnAmountPerMessage
<1>12. ASSUME NEW signer \in RoleKeys, NEW mint \in Mints, AddLocalToken(signer, mint)
       PROVE  Kept
  BY <1>3, <1>12 DEF AddLocalToken
<1>13. UNCHANGED tokens => Kept
  BY <1>3 DEF tokens
<1>14. Kept
  <2> HIDE DEF Kept
  <2>1. QED
    BY <1>6, <1>7, <1>8, <1>9, <1>10, <1>11, <1>12, <1>13, TokenSteps
<1>15. QED  BY <1>14

(***************************************************************************)
(* Tokens of a mint are in its accounts, announced to another domain or    *)
(* destroyed; none vanishes and none is announced that was not burned.     *)
(***************************************************************************)
THEOREM SupplyIsConserved == Spec => []SupplyConserved
<1>1. Init => SupplyConserved
  <2> SUFFICES ASSUME Init, NEW c \in Mints
               PROVE  SumFunctionOnSet(balances, AccountsOf(c)) + AmountSent(c) + destroyed[c]
                        = SumFunctionOnSet(InitialBalances, AccountsOf(c))
    BY DEF SupplyConserved
  <2>1. SentOf(c) = {}
    BY DEF Init, SentOf
  <2>2. AmountSent(c) = 0
    BY <2>1, SumEmpty DEF AmountSent
  <2>3. balances = InitialBalances /\ destroyed[c] = 0 /\ TypeOK
    BY TypeInit DEF Init
  <2>4. SumFunctionOnSet(balances, AccountsOf(c)) \in Nat
    <3>1. \A a \in AccountsOf(c) : balances[a] \in Nat
      BY <2>3 DEF TypeOK, AccountsOf
    <3>2. QED  BY <2>3, <3>1, SumFacts, SumType
  <2>5. QED  BY <2>2, <2>3, <2>4
<1>2. RoleInv /\ SupplyConserved /\ [Next]_vars => SupplyConserved'
  BY SupplyStep DEF SupplyConserved
<1>3. QED  BY <1>1, <1>2, RoleInvariant, PTL DEF Spec

-----------------------------------------------------------------------------
(***************************************************************************)
(* The statistics.                                                         *)
(***************************************************************************)
Covered(c) ==
  /\ local_tokens[c].messages_sent <= Cardinality(SentOf(c))
  /\ local_tokens[c].amount_sent <= AmountSent(c)
  /\ local_tokens[c].messages_received <= Cardinality(PaidOf(c))
  /\ local_tokens[c].amount_received <= AmountPaid(c)

LEMMA SaturatingFacts ==
  ASSUME NEW a \in Nat, NEW b \in Nat, NEW max \in Nat
  PROVE  SaturatingAdd(a, b, max) \in Nat /\ SaturatingAdd(a, b, max) <= a + b
BY DEF SaturatingAdd

\* An account that keeps its counters stays covered by what is sent and paid.
LEMMA StaysCovered ==
  ASSUME CountersNeverOverstate, NEW c \in Mints,
         Exists(c)' => Exists(c),
         Exists(c)' =>
           /\ local_tokens'[c].messages_sent = local_tokens[c].messages_sent
           /\ local_tokens'[c].amount_sent = local_tokens[c].amount_sent
           /\ local_tokens'[c].messages_received = local_tokens[c].messages_received
           /\ local_tokens'[c].amount_received = local_tokens[c].amount_received,
         SentOf(c)' = SentOf(c), AmountSent(c)' = AmountSent(c),
         PaidOf(c)' = PaidOf(c), AmountPaid(c)' = AmountPaid(c)
  PROVE  Exists(c)' => Covered(c)'
BY DEF CountersNeverOverstate, Covered

LEMMA DepositCovered ==
  ASSUME RoleInv, CountersNeverOverstate,
         NEW wallet \in Wallets, NEW account \in TokenAccounts,
         NEW params \in DepositParams, NEW hook \in Hooks \union {NoHook},
         DepositForBurnHelper(wallet, account, params, hook), NEW c \in Mints
  PROVE  Exists(c)' => Covered(c)'
<1> DEFINE mint == AccountMint[account]
<1>1. /\ TypeOK
      /\ mint \in Mints
      /\ params.amount \in Nat
      /\ local_tokens \in [Mints -> LocalToken \union {NoAccount}]
      /\ local_tokens[mint] \in LocalToken
      /\ Exists(mint)
  <2>1. params.amount \in Nat
    BY ParamsAssumption, BoundsAssumption DEF DepositForBurnParams
  <2>2. mint \in Mints /\ Exists(mint)
    BY AccountsAssumption DEF DepositForBurnHelper
  <2>3. QED  BY <2>1, <2>2 DEF RoleInv, TypeOK, Exists
<1>2. local_tokens' = [local_tokens EXCEPT
        ![mint].messages_sent = SaturatingAdd(@, 1, MaxU64),
        ![mint].amount_sent = SaturatingAdd(@, params.amount, MaxU128)]
  BY DEF DepositForBurnHelper, Burn
<1>3. /\ UNCHANGED minted
      /\ PaidOf(c)' = PaidOf(c)
      /\ AmountPaid(c)' = AmountPaid(c)
  BY DEF DepositForBurnHelper, PaidOf, AmountPaid, PaidAmounts
<1>4. CASE c = mint
  <2>1. /\ local_tokens'[c].messages_sent = SaturatingAdd(local_tokens[c].messages_sent, 1, MaxU64)
        /\ local_tokens'[c].amount_sent
             = SaturatingAdd(local_tokens[c].amount_sent, params.amount, MaxU128)
        /\ local_tokens'[c].messages_received = local_tokens[c].messages_received
        /\ local_tokens'[c].amount_received = local_tokens[c].amount_received
    BY <1>1, <1>2, <1>4 DEF LocalToken
  <2>2. /\ local_tokens[c].messages_sent \in Nat /\ local_tokens[c].amount_sent \in Nat
        /\ MaxU64 \in Nat /\ MaxU128 \in Nat
    BY <1>1, <1>4, BoundsAssumption DEF LocalToken
  <2>3. /\ local_tokens'[c].messages_sent \in Nat
        /\ local_tokens'[c].messages_sent <= local_tokens[c].messages_sent + 1
        /\ local_tokens'[c].amount_sent \in Nat
        /\ local_tokens'[c].amount_sent <= local_tokens[c].amount_sent + params.amount
    <3> DEFINE messages == local_tokens[c].messages_sent
               total == local_tokens[c].amount_sent
               amount == params.amount
    <3>1. messages \in Nat /\ total \in Nat /\ amount \in Nat
      BY <1>1, <2>2
    <3>2. /\ local_tokens'[c].messages_sent = SaturatingAdd(messages, 1, MaxU64)
          /\ local_tokens'[c].amount_sent = SaturatingAdd(total, amount, MaxU128)
      BY <2>1
    <3> HIDE DEF messages, total, amount
    <3>3. /\ SaturatingAdd(messages, 1, MaxU64) \in Nat
          /\ SaturatingAdd(messages, 1, MaxU64) <= messages + 1
          /\ SaturatingAdd(total, amount, MaxU128) \in Nat
          /\ SaturatingAdd(total, amount, MaxU128) <= total + amount
      BY <2>2, <3>1, SaturatingFacts
    <3>4. QED  BY <3>2, <3>3 DEF messages, total, amount
  <2>4. /\ Cardinality(SentOf(c)') = Cardinality(SentOf(c)) + 1
        /\ AmountSent(c)' = AmountSent(c) + params.amount
        /\ Cardinality(SentOf(c)) \in Nat /\ AmountSent(c) \in Nat
    BY <1>1, <1>4, DepositSums, SumFacts
  <2>5. Covered(c)
    BY <1>1, <1>4 DEF CountersNeverOverstate, Covered
  <2>6. QED
    BY <1>1, <1>3, <2>1, <2>2, <2>3, <2>4, <2>5 DEF Covered
<1>5. CASE c # mint
  <2>1. local_tokens'[c] = local_tokens[c]
    BY <1>1, <1>2, <1>5
  <2>2. SentOf(c)' = SentOf(c) /\ AmountSent(c)' = AmountSent(c)
    BY <1>1, <1>5, DepositSums
  <2>3. QED  BY <1>3, <2>1, <2>2, StaysCovered DEF Exists
<1>6. QED  BY <1>4, <1>5

LEMMA PaymentCovered ==
  ASSUME RoleInv, CountersNeverOverstate, NEW m \in RemoteMessages, NEW mint \in Mints,
         minted[m.nonce] = NoAccount, HandleReceiveMessage(m, mint), NEW c \in Mints
  PROVE  Exists(c)' => Covered(c)'
<1> DEFINE amount == m.message_body.amount
           fee == m.message_body.fee_executed
<1>1. /\ TypeOK
      /\ amount \in Nat /\ fee \in Nat /\ fee < amount
      /\ local_tokens \in [Mints -> LocalToken \union {NoAccount}]
      /\ local_tokens[mint] \in LocalToken
      /\ Exists(mint)
  BY HandledFacts DEF RoleInv, RolesStayValid, TypeOK, HandleReceiveMessage
<1>2. local_tokens' = CountReceived(mint, amount, fee)
  BY DEF HandleReceiveMessage
<1>3. /\ SentOf(c)' = SentOf(c)
      /\ AmountSent(c)' = AmountSent(c)
  BY DEF HandleReceiveMessage, SentOf, AmountSent, SentAmounts
<1>4. /\ c = mint =>
           /\ Cardinality(PaidOf(c)') = Cardinality(PaidOf(c)) + 1
           /\ AmountPaid(c)' = AmountPaid(c) + amount
      /\ c # mint => PaidOf(c)' = PaidOf(c) /\ AmountPaid(c)' = AmountPaid(c)
  BY PaymentSums
<1> HIDE DEF amount, fee
<1>5. CASE c = mint
  <2> DEFINE with_fee == SaturatingAdd(local_tokens[c].amount_received, fee, MaxU128)
  <2>1. /\ local_tokens'[c].messages_received
             = SaturatingAdd(local_tokens[c].messages_received, 1, MaxU64)
        /\ local_tokens'[c].amount_received = SaturatingAdd(with_fee, amount - fee, MaxU128)
        /\ local_tokens'[c].messages_sent = local_tokens[c].messages_sent
        /\ local_tokens'[c].amount_sent = local_tokens[c].amount_sent
    BY <1>1, <1>2, <1>5 DEF LocalToken, CountReceived
  <2>2. /\ local_tokens[c].messages_received \in Nat /\ local_tokens[c].amount_received \in Nat
        /\ MaxU64 \in Nat /\ MaxU128 \in Nat /\ amount - fee \in Nat
    BY <1>1, <1>5, BoundsAssumption DEF LocalToken
  <2>3. with_fee \in Nat /\ with_fee <= local_tokens[c].amount_received + fee
    BY <1>1, <2>2, SaturatingFacts
  <2> HIDE DEF with_fee
  <2>4. /\ local_tokens'[c].messages_received \in Nat
        /\ local_tokens'[c].messages_received <= local_tokens[c].messages_received + 1
        /\ local_tokens'[c].amount_received \in Nat
        /\ local_tokens'[c].amount_received <= with_fee + (amount - fee)
    <3>1. /\ SaturatingAdd(local_tokens[c].messages_received, 1, MaxU64) \in Nat
          /\ SaturatingAdd(local_tokens[c].messages_received, 1, MaxU64)
               <= local_tokens[c].messages_received + 1
      <4>1. 1 \in Nat
        OBVIOUS
      <4>2. QED  BY <2>2, <4>1, SaturatingFacts
    <3>2. /\ SaturatingAdd(with_fee, amount - fee, MaxU128) \in Nat
          /\ SaturatingAdd(with_fee, amount - fee, MaxU128) <= with_fee + (amount - fee)
      <4> DEFINE net == amount - fee
      <4>1. net \in Nat
        BY <2>2
      <4> HIDE DEF net
      <4>2. SaturatingAdd(with_fee, net, MaxU128) \in Nat
            /\ SaturatingAdd(with_fee, net, MaxU128) <= with_fee + net
        BY <2>2, <2>3, <4>1, SaturatingFacts
      <4>3. QED  BY <4>2 DEF net
    <3>3. QED  BY <2>1, <3>1, <3>2
  <2>5. /\ Cardinality(PaidOf(c)) \in Nat /\ AmountPaid(c) \in Nat
    BY <1>1, SumFacts
  <2>6. Covered(c)
    BY <1>1, <1>5 DEF CountersNeverOverstate, Covered
  <2>7. /\ local_tokens'[c].messages_received <= Cardinality(PaidOf(c)')
        /\ local_tokens'[c].amount_received <= AmountPaid(c)'
    BY <1>1, <1>4, <1>5, <2>2, <2>3, <2>4, <2>5, <2>6 DEF Covered
  <2>8. QED
    BY <1>3, <2>1, <2>6, <2>7 DEF Covered
<1>6. CASE c # mint
  <2>1. local_tokens'[c] = local_tokens[c]
    <3>1. \A d \in Mints \ {mint} : CountReceived(mint, amount, fee)[d] = local_tokens[d]
      BY <1>1, CountReceivedType
    <3>2. QED  BY <1>2, <1>6, <3>1
  <2>2. QED  BY <1>3, <1>4, <1>6, <2>1, StaysCovered DEF Exists
<1>7. QED  BY <1>5, <1>6

LEMMA CoveredStep ==
  ASSUME RoleInv, CountersNeverOverstate, [Next]_vars, NEW c \in Mints
  PROVE  Exists(c)' => Covered(c)'
<1> DEFINE Kept == Exists(c)' => Covered(c)'
<1>1. TypeOK /\ local_tokens \in [Mints -> LocalToken \union {NoAccount}]
  BY DEF RoleInv, TypeOK
<1>2. UNCHANGED <<sent, minted>> =>
        /\ SentOf(c)' = SentOf(c) /\ AmountSent(c)' = AmountSent(c)
        /\ PaidOf(c)' = PaidOf(c) /\ AmountPaid(c)' = AmountPaid(c)
  BY DEF SentOf, AmountSent, SentAmounts, PaidOf, AmountPaid, PaidAmounts
<1>3. ASSUME UNCHANGED <<sent, minted>>, local_tokens'[c] = local_tokens[c]
      PROVE  Kept
  BY <1>2, <1>3, StaysCovered DEF Exists
<1>4. ASSUME NEW signer \in RoleKeys, NEW mint \in Mints, AddLocalToken(signer, mint)
      PROVE  Kept
  <2>1. UNCHANGED <<sent, minted>>
    BY <1>4 DEF AddLocalToken
  <2>2. CASE c = mint
    <3>1. /\ local_tokens'[c].messages_sent = 0 /\ local_tokens'[c].amount_sent = 0
          /\ local_tokens'[c].messages_received = 0 /\ local_tokens'[c].amount_received = 0
      BY <1>1, <1>4, <2>2 DEF AddLocalToken
    <3>2. /\ Cardinality(SentOf(c)) \in Nat /\ AmountSent(c) \in Nat
          /\ Cardinality(PaidOf(c)) \in Nat /\ AmountPaid(c) \in Nat
      BY <1>1, SumFacts
    <3>3. QED  BY <1>2, <2>1, <3>1, <3>2 DEF Covered
  <2>3. CASE c # mint
    <3>1. local_tokens'[c] = local_tokens[c]
      BY <1>1, <1>4, <2>3 DEF AddLocalToken
    <3>2. QED  BY <1>3, <2>1, <3>1
  <2>4. QED  BY <2>2, <2>3
<1>5. ASSUME NEW signer \in RoleKeys, NEW mint \in Mints, RemoveLocalToken(signer, mint)
      PROVE  Kept
  <2>1. UNCHANGED <<sent, minted>>
    BY <1>5 DEF RemoveLocalToken
  <2>2. CASE c = mint
    BY <1>1, <1>5, <2>2 DEF RemoveLocalToken, Exists
  <2>3. CASE c # mint
    <3>1. local_tokens'[c] = local_tokens[c]
      BY <1>1, <1>5, <2>3 DEF RemoveLocalToken
    <3>2. QED  BY <1>3, <2>1, <3>1
  <2>4. QED  BY <2>2, <2>3
<1>6. ASSUME NEW signer \in RoleKeys, NEW mint \in Mints, NEW limit \in BurnLimits,
             SetMaxBurnAmountPerMessage(signer, mint, limit)
      PROVE  Kept
  <2>1. UNCHANGED <<sent, minted>>
    BY <1>6 DEF SetMaxBurnAmountPerMessage
  <2>2. CASE c = mint
    <3>1. Exists(c) /\ local_tokens[c] \in LocalToken
      BY <1>1, <1>6, <2>2 DEF SetMaxBurnAmountPerMessage, Exists
    <3>2. local_tokens'[c] = [local_tokens[c] EXCEPT !.burn_limit_per_message = limit]
      BY <1>1, <1>6, <2>2 DEF SetMaxBurnAmountPerMessage
    <3>3. /\ local_tokens'[c].messages_sent = local_tokens[c].messages_sent
          /\ local_tokens'[c].amount_sent = local_tokens[c].amount_sent
          /\ local_tokens'[c].messages_received = local_tokens[c].messages_received
          /\ local_tokens'[c].amount_received = local_tokens[c].amount_received
      BY <3>1, <3>2 DEF LocalToken
    <3>4. QED  BY <1>2, <2>1, <3>1, <3>3, StaysCovered
  <2>3. CASE c # mint
    <3>1. local_tokens'[c] = local_tokens[c]
      BY <1>1, <1>6, <2>3 DEF SetMaxBurnAmountPerMessage
    <3>2. QED  BY <1>3, <2>1, <3>1
  <2>4. QED  BY <2>2, <2>3
<1>7. ASSUME NEW signer \in RoleKeys, NEW mint \in Mints, NEW amount \in BurnLimits,
             BurnTokenCustody(signer, mint, amount)
      PROVE  Kept
  BY <1>3, <1>7 DEF BurnTokenCustody
<1>8. ASSUME NEW from, NEW to, NEW amount, SplTransfer(from, to, amount)
      PROVE  Kept
  BY <1>3, <1>8 DEF SplTransfer
<1>9. UNCHANGED tokens => Kept
  BY <1>3 DEF tokens
<1>10. ASSUME NEW wallet \in Wallets, NEW account \in TokenAccounts,
              NEW params \in DepositParams, NEW hook \in Hooks \union {NoHook},
              DepositForBurnHelper(wallet, account, params, hook)
       PROVE  Kept
  BY <1>10, DepositCovered
<1>11. ASSUME NEW m \in RemoteMessages, NEW mint \in Mints, minted[m.nonce] = NoAccount,
              HandleReceiveMessage(m, mint)
       PROVE  Kept
  BY <1>11, PaymentCovered
<1> HIDE DEF Kept
<1>12. Kept
  BY <1>4, <1>5, <1>6, <1>7, <1>8, <1>9, <1>10, <1>11, TokenSteps
<1>13. QED  BY <1>12 DEF Kept

(***************************************************************************)
(* The statistics of a local token never overstate what was sent and       *)
(* received of its mint, for any width of the counters and however often   *)
(* the token is removed and added again.                                   *)
(***************************************************************************)
THEOREM StatisticsAreCovered == Spec => []CountersNeverOverstate
<1>1. Init => CountersNeverOverstate
  BY DEF Init, CountersNeverOverstate, Exists
<1>2. RoleInv /\ CountersNeverOverstate /\ [Next]_vars => CountersNeverOverstate'
  BY CoveredStep DEF CountersNeverOverstate, Covered
<1>3. QED  BY <1>1, <1>2, RoleInvariant, PTL DEF Spec
=============================================================================
