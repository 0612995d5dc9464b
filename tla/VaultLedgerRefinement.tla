------------------------ MODULE VaultLedgerRefinement ------------------------
(***************************************************************************)
(* DepositProxy keeps the ledger of its vaults: its initial states and its *)
(* steps are those of VaultLedger, for every value of its constants.       *)
(***************************************************************************)
EXTENDS DepositProxyProofs

holds == [v \in VaultIds |-> VaultHolds(v)]
goes == [v \in VaultIds |-> IF VaultExists(v) THEN vaults[v].destination ELSE NoAccount]
burned == [i \in DOMAIN sent |-> BurnOf(sent[i])]

Own(v) == Ata[VaultAuthority[v]][vaults[v].burn_token_mint]

(***************************************************************************)
(* The invariant.                                                          *)
(***************************************************************************)
\* An account that nobody has opened holds nothing, so that a vault starts
\* empty.
UnopenedAreEmpty == \A a \in VaultAtas \ opened : balances[a] = 0

LEMMA UnopenedStep ==
  ASSUME ProxyInv, UnopenedAreEmpty, [ProxyNext]_all_vars
  PROVE  UnopenedAreEmpty'
<1>1. /\ TypeOK /\ balances \in [TokenAccounts -> Nat]
      /\ opened \subseteq TokenAccounts /\ opened \subseteq opened'
  BY OpenedStep DEF ProxyInv, RoleInv, TypeOK, ProxyTypeOK
<1> SUFFICES ASSUME NEW a \in VaultAtas, a \notin opened
             PROVE  balances'[a] = balances[a]
  BY <1>1 DEF UnopenedAreEmpty
<1>2. a \in AuthorityAccounts /\ a \in TokenAccounts /\ balances[a] \in Nat
  BY <1>1, AuthorityFacts DEF AuthorityAccounts
<1>3. ASSUME NEW signer \in VaultKeys, NEW v \in VaultIds, NEW account \in TokenAccounts,
             NEW params \in BurnParams, BurnForDeposit(signer, v, account, params)
      PROVE  balances'[a] = balances[a]
  <2>1. a # account
    BY <1>3 DEF BurnForDeposit
  <2>2. QED  BY <1>1, <1>2, <1>3, <2>1, BurnEffect, DepositEffect, AuthorityFacts
<1>4. ASSUME NEW signer \in VaultKeys, NEW v \in VaultIds, NEW from \in TokenAccounts,
             NEW to \in TokenAccounts, NEW amount \in 1..balances[from],
             RescueTransfer(signer, v, from, to, amount)
      PROVE  balances'[a] = balances[a]
  <2>1. amount \in Nat /\ amount <= balances[from] /\ a # from /\ a # to
    BY <1>1, <1>4 DEF RescueTransfer
  <2>2. QED  BY <1>1, <1>2, <1>4, <2>1, TransferredType DEF RescueTransfer
<1>5. ASSUME NEW wallet \in Wallets \ Authorities, NEW account \in opened,
             NEW params \in DepositParams, NEW hook \in Hooks \union {NoHook},
             DepositForBurnHelper(wallet, account, params, hook)
      PROVE  balances'[a] = balances[a]
  BY <1>1, <1>2, <1>5, DepositEffect
<1>6. UNCHANGED vars => balances'[a] = balances[a]
  BY DEF vars, tokens
<1>7. LeavesVaultsAlone => balances'[a] = balances[a]
  BY <1>2 DEF LeavesVaultsAlone
<1>8. QED  BY <1>3, <1>4, <1>5, <1>6, <1>7, VaultStepCases

(***************************************************************************)
(* What the ledger sees of a state and of a step.                          *)
(***************************************************************************)
LEMMA OwnFacts ==
  ASSUME ProxyInv, NEW v \in VaultIds
  PROVE  /\ holds[v] \in Nat
         /\ VaultExists(v) =>
              /\ Own(v) \in AuthorityAccounts /\ Own(v) \in TokenAccounts
              /\ AccountOwner[Own(v)] = VaultAuthority[v]
              /\ holds[v] = balances[Own(v)]
              /\ goes[v] = vaults[v].destination /\ goes[v] # NoAccount
         /\ ~VaultExists(v) => holds[v] = 0 /\ goes[v] = NoAccount
<1>1. balances \in [TokenAccounts -> Nat] /\ vaults \in [VaultIds -> Vault \union {NoAccount}]
  BY DEF ProxyInv, RoleInv, TypeOK, ProxyTypeOK
<1>2. CASE VaultExists(v)
  <2>1. vaults[v].burn_token_mint \in Mints /\ vaults[v].destination \in Destinations
    BY <1>1, <1>2 DEF VaultExists, Vault
  <2>2. /\ Own(v) \in AuthorityAccounts /\ Own(v) \in TokenAccounts
        /\ AccountOwner[Own(v)] = VaultAuthority[v]
    BY <2>1, AuthorityFacts, VaultAssumption DEF Own, AuthorityAccounts
  <2>3. holds[v] = balances[Own(v)]
    BY <1>2 DEF holds, VaultHolds, Own
  <2>4. goes[v] = vaults[v].destination /\ goes[v] # NoAccount
    BY <1>2, <2>1, ProxyParamsAssumption DEF goes
  <2>5. QED  BY <1>1, <1>2, <2>2, <2>3, <2>4
<1>3. CASE ~VaultExists(v)
  BY <1>3 DEF holds, goes, VaultHolds
<1>4. QED  BY <1>2, <1>3

\* While the vault accounts stay, so do the destinations, and what a vault
\* holds follows its own account.
LEMMA SameVaults ==
  ASSUME ProxyInv, UNCHANGED vaults
  PROVE  /\ UNCHANGED goes
         /\ \A v \in VaultIds :
              /\ VaultExists(v) => holds'[v] = balances'[Own(v)]
              /\ ~VaultExists(v) => holds'[v] = 0
BY DEF goes, holds, VaultHolds, VaultExists, Own

LEMMA OneVaultHolds ==
  ASSUME NEW v \in VaultIds, \A w \in VaultIds \ {v} : holds'[w] = holds[w]
  PROVE  holds' = [holds EXCEPT ![v] = holds'[v]]
BY DEF holds

LEMMA OneVaultGoes ==
  ASSUME NEW v \in VaultIds, \A w \in VaultIds \ {v} : goes'[w] = goes[w]
  PROVE  goes' = [goes EXCEPT ![v] = goes'[v]]
BY DEF goes

\* One more message is one more burn.
LEMMA OneMoreBurn ==
  ASSUME Len(sent) \in Nat, DOMAIN sent = 1..Len(sent), DOMAIN sent' = 1..(Len(sent) + 1),
         \A i \in 1..Len(sent) : sent'[i] = sent[i]
  PROVE  /\ burned' = Append(burned, BurnOf(sent'[Len(sent) + 1]))
         /\ Len(burned') = Len(burned) + 1
         /\ burned'[Len(burned')] = BurnOf(sent'[Len(sent) + 1])
<1> DEFINE last == BurnOf(sent'[Len(sent) + 1])
           Burns == {BurnOf(sent[i]) : i \in 1..Len(sent)} \union {last}
<1>1. burned' = [i \in 1..(Len(sent) + 1) |-> BurnOf(sent'[i])]
  BY DEF burned, BurnOf
<1>2. burned = [i \in 1..Len(sent) |-> BurnOf(sent[i])]
  BY DEF burned
<1>3. burned \in Seq(Burns) /\ Len(burned) = Len(sent)
  BY <1>2
<1>4. \A i \in 1..Len(sent) : burned'[i] = burned[i]
  BY <1>1, <1>2 DEF BurnOf
<1>5. burned'[Len(sent) + 1] = last
  BY <1>1
<1> HIDE DEF last
<1>6. burned' \in Seq(Burns) /\ Len(burned') = Len(sent) + 1
  <2>1. \A i \in 1..(Len(sent) + 1) : burned'[i] \in Burns
    BY <1>2, <1>4, <1>5
  <2>2. QED  BY <1>1, <2>1
<1>7. Append(burned, last) \in Seq(Burns)
      /\ Len(Append(burned, last)) = Len(sent) + 1
      /\ \A i \in 1..Len(sent) : Append(burned, last)[i] = burned[i]
      /\ Append(burned, last)[Len(sent) + 1] = last
  BY <1>3, AppendProperties DEF Burns
<1>8. burned' = Append(burned, last)
  BY <1>4, <1>5, <1>6, <1>7
<1>9. QED  BY <1>3, <1>5, <1>6, <1>8 DEF last

(***************************************************************************)
(* Each kind of step.                                                      *)
(***************************************************************************)
LEMMA BurnStep ==
  ASSUME ProxyInv, NEW signer \in VaultKeys, NEW v \in VaultIds, NEW account \in TokenAccounts,
         NEW params \in BurnParams, BurnForDeposit(signer, v, account, params)
  PROVE  VaultsLedger!Burn(v)
<1> DEFINE deposit == DepositParamsOf(vaults[v].destination, params)
           message == sent'[Len(sent) + 1]
<1>1. /\ VaultExists(v) /\ vaults[v].destination \in Destinations /\ UNCHANGED vaults
      /\ account = Own(v) /\ deposit \in DepositParams
      /\ TypeOK /\ VaultAuthority[v] \in Wallets
      /\ DepositForBurnHelper(VaultAuthority[v], account, deposit, NoHook)
  BY BurnEffect, AuthorityFacts DEF Own, Vault, proxy_vars, ProxyInv, RoleInv
<1> HIDE DEF deposit
<1>2. /\ deposit.amount \in Nat /\ deposit.amount > 0
      /\ \A a \in TokenAccounts :
           balances'[a] = balances[a] - (IF a = account THEN deposit.amount ELSE 0)
      /\ burned' = Append(burned, BurnOf(message))
      /\ message.message_body.message_sender = VaultAuthority[v]
      /\ message.message_body.amount = deposit.amount
      /\ message.message_body.mint_recipient = deposit.mint_recipient
      /\ message.destination_domain = deposit.destination_domain
      /\ message.destination_caller = deposit.destination_caller
  BY <1>1, DepositEffect, OneMoreBurn
<1>3. holds[v] \in Nat /\ holds'[v] = holds[v] - deposit.amount
  BY <1>1, <1>2, OwnFacts, SameVaults
<1>4. ASSUME NEW w \in VaultIds \ {v}
      PROVE  holds'[w] = holds[w]
  <2>1. CASE VaultExists(w)
    <3>1. Own(w) # account
      BY <1>1, <2>1, OwnFacts, OneAuthority
    <3>2. QED
      BY <1>1, <1>2, <2>1, <3>1, OwnFacts, SameVaults
  <2>2. CASE ~VaultExists(w)
    BY <1>1, <2>2, OwnFacts, SameVaults
  <2>3. QED  BY <2>1, <2>2
<1>5. holds' = [holds EXCEPT ![v] = holds'[v]]
  BY <1>4, OneVaultHolds
<1>6. goes[v] = vaults[v].destination /\ goes[v] # NoAccount /\ UNCHANGED goes
  BY <1>1, OwnFacts, SameVaults
<1>7. goes[v] = [destination_domain |-> deposit.destination_domain,
                 mint_recipient |-> deposit.mint_recipient,
                 destination_caller |-> deposit.destination_caller]
  <2>1. vaults[v].destination \in Destination
    BY <1>1, ProxyParamsAssumption
  <2>2. QED  BY <1>6, <2>1 DEF deposit, DepositParamsOf, Destination
<1>8. BurnOf(message) = [owner |-> VaultAuthority[v], amount |-> holds[v] - holds'[v],
                         destination |-> goes[v]]
  <2>1. deposit.amount = holds[v] - holds'[v]
    BY <1>2, <1>3
  <2>2. QED  BY <1>2, <1>7, <2>1 DEF BurnOf
<1>9. holds'[v] < holds[v]
  BY <1>2, <1>3
<1> HIDE DEF message
<1>10. QED
  BY <1>2, <1>5, <1>6, <1>8, <1>9 DEF VaultsLedger!Burn, holds, goes, burned

\* A rescue takes from one vault, or from no vault when it takes from another
\* account of its authority.
LEMMA RescueStep ==
  ASSUME ProxyInv, NEW signer \in VaultKeys, NEW v \in VaultIds, NEW from \in TokenAccounts,
         NEW to \in TokenAccounts, NEW amount \in 1..balances[from],
         RescueTransfer(signer, v, from, to, amount)
  PROVE  VaultsLedger!Fund \/ VaultsLedger!Withdraw(v)
<1>1. /\ TypeOK /\ balances \in [TokenAccounts -> Nat]
      /\ amount \in Nat /\ amount > 0 /\ amount <= balances[from]
      /\ VaultExists(v) /\ AccountOwner[from] = VaultAuthority[v]
      /\ UNCHANGED <<vaults, sent>>
  BY DEF ProxyInv, RoleInv, TypeOK, RescueTransfer, IsAdmin, proxy_vars
<1>2. \A a \in TokenAccounts :
        balances'[a] = (balances[a] + (IF a = to THEN amount ELSE 0))
                         - (IF a = from THEN amount ELSE 0)
  BY <1>1, TransferredType DEF RescueTransfer
<1>3. UNCHANGED <<goes, burned>>
  BY <1>1, SameVaults DEF burned
<1>4. ASSUME NEW w \in VaultIds, w # v \/ from # Own(v) \/ from = to
      PROVE  /\ holds'[w] >= holds[w]
             /\ holds'[w] > holds[w] => goes[w] # NoAccount
  <2>1. CASE VaultExists(w)
    <3>1. Own(w) # from \/ from = to
      BY <1>1, <1>4, <2>1, OwnFacts, OneAuthority
    <3>2. Own(w) \in TokenAccounts /\ balances[Own(w)] \in Nat
      BY <1>1, <2>1, OwnFacts
    <3>3. balances'[Own(w)] >= balances[Own(w)]
      BY <1>1, <1>2, <3>1, <3>2
    <3>4. QED  BY <1>1, <2>1, <3>3, OwnFacts, SameVaults
  <2>2. CASE ~VaultExists(w)
    BY <1>1, <2>2, OwnFacts, SameVaults
  <2>3. QED  BY <2>1, <2>2
<1>5. CASE from # Own(v) \/ from = to
  BY <1>3, <1>4, <1>5 DEF VaultsLedger!Fund, holds, goes, burned
<1>6. CASE from = Own(v) /\ from # to
  <2>1. holds'[v] < holds[v]
    BY <1>1, <1>2, <1>6, OwnFacts, SameVaults
  <2>2. goes[v] # NoAccount
    BY <1>1, OwnFacts
  <2>3. QED
    BY <1>3, <1>4, <2>1, <2>2 DEF VaultsLedger!Withdraw, holds, goes, burned
<1>7. QED  BY <1>5, <1>6

\* Nobody else burns in the name of a vault.
LEMMA ElsewhereStep ==
  ASSUME ProxyInv, UNCHANGED proxy_vars, NEW wallet \in Wallets \ Authorities,
         NEW account \in opened, NEW params \in DepositParams, NEW hook \in Hooks \union {NoHook},
         DepositForBurnHelper(wallet, account, params, hook)
  PROVE  VaultsLedger!BurnElsewhere
<1>1. TypeOK /\ account \in TokenAccounts /\ UNCHANGED vaults
  BY DEF ProxyInv, RoleInv, ProxyTypeOK, proxy_vars
<1>2. /\ AccountOwner[account] = wallet /\ params.amount \in Nat
      /\ \A a \in TokenAccounts :
           balances'[a] = balances[a] - (IF a = account THEN params.amount ELSE 0)
      /\ sent'[Len(sent) + 1].message_body.message_sender = wallet
      /\ burned' = Append(burned, BurnOf(sent'[Len(sent) + 1]))
      /\ Len(burned') = Len(burned) + 1
      /\ burned'[Len(burned')] = BurnOf(sent'[Len(sent) + 1])
  BY <1>1, DepositEffect, OneMoreBurn
<1>3. burned'[Len(burned')].owner = wallet
  BY <1>2 DEF BurnOf
<1>4. ASSUME NEW v \in VaultIds
      PROVE  holds'[v] = holds[v] /\ wallet # VaultAuthority[v]
  <2>1. wallet # VaultAuthority[v]
    BY AuthorityFacts
  <2>2. CASE VaultExists(v)
    <3>1. Own(v) # account
      BY <1>2, <2>1, <2>2, OwnFacts
    <3>2. QED  BY <1>1, <1>2, <2>1, <2>2, <3>1, OwnFacts, SameVaults
  <2>3. CASE ~VaultExists(v)
    BY <1>1, <2>1, <2>3, OwnFacts, SameVaults
  <2>4. QED  BY <2>2, <2>3
<1>5. UNCHANGED holds
  BY <1>4 DEF holds
<1>6. UNCHANGED goes
  BY <1>1, SameVaults
<1>7. burned' = Append(burned, burned'[Len(burned')])
  BY <1>2
<1>8. QED
  BY <1>2, <1>3, <1>4, <1>5, <1>6, <1>7 DEF VaultsLedger!BurnElsewhere, holds, goes, burned

\* A change of a vault account gives one vault a destination, and a new vault
\* holds nothing.
LEMMA AccountStep ==
  ASSUME ProxyInv, UnopenedAreEmpty, [ProxyNext]_all_vars, UNCHANGED vars
  PROVE  \/ UNCHANGED <<holds, goes, burned>>
         \/ \E v \in VaultIds : VaultsLedger!SetDestination(v)
<1>1. UNCHANGED <<balances, sent, burned>>
  BY DEF vars, tokens, burned
<1>2. vaults \in [VaultIds -> Vault \union {NoAccount}] /\ ProxyInv'
  BY MinterStep, RoleInvStep, ProxyTypeStep DEF ProxyInv, RoleInv, ProxyTypeOK
<1>3. CASE UNCHANGED vaults
  BY <1>1, <1>3 DEF holds, goes, VaultHolds, VaultExists
<1>4. ASSUME NEW v \in VaultIds, VaultExists(v)', holds'[v] = holds[v],
             \A w \in VaultIds \ {v} : vaults'[w] = vaults[w]
      PROVE  VaultsLedger!SetDestination(v)
  <2>1. \A w \in VaultIds \ {v} : holds'[w] = holds[w] /\ goes'[w] = goes[w]
    BY <1>1, <1>4 DEF holds, goes, VaultHolds, VaultExists
  <2>2. UNCHANGED holds
    BY <1>4, <2>1 DEF holds
  <2>3. goes' = [goes EXCEPT ![v] = goes'[v]]
    BY <2>1, OneVaultGoes
  <2>4. goes'[v] # NoAccount
    <3>1. goes'[v] = vaults'[v].destination
      BY <1>4 DEF goes, VaultExists
    <3>2. vaults'[v] \in Vault
      BY <1>2, <1>4 DEF ProxyInv, ProxyTypeOK, VaultExists
    <3>3. QED  BY <3>1, <3>2, ProxyParamsAssumption DEF Vault
  <2>5. QED
    BY <1>1, <2>2, <2>3, <2>4 DEF VaultsLedger!SetDestination, holds, goes, burned
<1>5. ASSUME NEW signer \in VaultKeys, NEW v \in VaultIds, NEW mint \in Mints,
             NEW destination \in Destinations, InitializeVault(signer, v, mint, destination)
      PROVE  VaultsLedger!SetDestination(v)
  <2>1. /\ vaults'[v].burn_token_mint = mint /\ vaults'[v] \in Vault
        /\ \A w \in VaultIds \ {v} : vaults'[w] = vaults[w]
    BY <1>2, <1>5, ProxyParamsAssumption DEF InitializeVault, Vault, ProxyTypeOK
  <2>2. VaultExists(v)'
    BY <2>1, ProxyParamsAssumption DEF VaultExists
  <2>3. balances[Ata[VaultAuthority[v]][mint]] = 0
    BY <1>5, AuthorityFacts DEF InitializeVault, CanOpen, UnopenedAreEmpty
  <2>4. holds'[v] = 0
    BY <1>1, <2>1, <2>2, <2>3 DEF holds, VaultHolds
  <2>5. holds[v] = 0
    BY <1>5, OwnFacts DEF InitializeVault
  <2>6. QED  BY <1>4, <2>1, <2>2, <2>4, <2>5
<1>6. ASSUME NEW v \in VaultIds,
             /\ VaultExists(v)
             /\ vaults'[v] \in Vault
             /\ vaults'[v].burn_token_mint = vaults[v].burn_token_mint
             /\ vaults' = [vaults EXCEPT ![v] = vaults'[v]]
      PROVE  VaultsLedger!SetDestination(v)
  <2>1. \A w \in VaultIds \ {v} : vaults'[w] = vaults[w]
    BY <1>2, <1>6
  <2>2. VaultExists(v)'
    BY <1>6, ProxyParamsAssumption DEF VaultExists
  <2>3. holds'[v] = holds[v]
    BY <1>1, <1>6, <2>2 DEF holds, VaultHolds
  <2>4. QED  BY <1>4, <2>1, <2>2, <2>3
<1>7. QED  BY <1>3, <1>5, <1>6, OpenedStep DEF ProxyInv

\* What leaves the vaults alone may fund them.
LEMMA AloneStep ==
  ASSUME ProxyInv, UNCHANGED proxy_vars, LeavesVaultsAlone
  PROVE  VaultsLedger!Fund
<1>1. UNCHANGED <<vaults, goes, burned>>
  BY SameVaults DEF proxy_vars, LeavesVaultsAlone, burned
<1>2. ASSUME NEW v \in VaultIds
      PROVE  /\ holds'[v] >= holds[v]
             /\ holds'[v] > holds[v] => goes[v] # NoAccount
  <2>1. CASE VaultExists(v)
    BY <1>1, <2>1, OwnFacts, SameVaults DEF LeavesVaultsAlone
  <2>2. CASE ~VaultExists(v)
    BY <1>1, <2>2, OwnFacts, SameVaults
  <2>3. QED  BY <2>1, <2>2
<1>3. QED  BY <1>1, <1>2 DEF VaultsLedger!Fund, holds, goes, burned

LEMMA VaultLedgerStep ==
  ASSUME ProxyInv, UnopenedAreEmpty, [ProxyNext]_all_vars
  PROVE  [VaultsLedger!Next]_<<holds, goes, burned>>
BY VaultStepCases, BurnStep, RescueStep, ElsewhereStep, AccountStep, AloneStep
   DEF VaultsLedger!Next

(***************************************************************************)
(* The proxy implements the ledger of its vaults: tokens that leave a      *)
(* vault are in one burn, in its authority's name and to the destination   *)
(* of that moment, or were withdrawn by its admin without a burn, and      *)
(* nobody else burns in a vault's name.                                    *)
(***************************************************************************)
THEOREM KeepsVaultLedger == ProxySpec => VaultLedgerSpec
<1>1. ProxyInit => VaultsLedger!Init /\ UnopenedAreEmpty
  <2> SUFFICES ASSUME ProxyInit
               PROVE  VaultsLedger!Init /\ UnopenedAreEmpty
    OBVIOUS
  <2>1. \A v \in VaultIds : ~VaultExists(v)
    BY DEF ProxyInit, VaultExists
  <2>2. VaultsLedger!Init
    BY <2>1 DEF ProxyInit, Init, VaultsLedger!Init, VaultHolds
  <2>3. UnopenedAreEmpty
    BY VaultAssumption DEF ProxyInit, Init, UnopenedAreEmpty, VaultAtas, Authorities
  <2>4. QED  BY <2>2, <2>3
<1>2. ProxyInv /\ UnopenedAreEmpty /\ [ProxyNext]_all_vars => UnopenedAreEmpty'
  BY UnopenedStep
<1>3. ProxyInv /\ UnopenedAreEmpty /\ [ProxyNext]_all_vars =>
        [VaultsLedger!Next]_<<holds, goes, burned>>
  BY VaultLedgerStep
<1>4. QED
  BY <1>1, <1>2, <1>3, ProxyInvariant, PTL
     DEF ProxySpec, all_vars, VaultLedgerSpec, VaultsLedger!Spec, holds, goes, burned
=============================================================================
