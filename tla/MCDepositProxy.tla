---------------------------- MODULE MCDepositProxy ----------------------------
(***************************************************************************)
(* The instance of DepositProxy that TLC checks.                           *)
(***************************************************************************)
EXTENDS DepositProxy, TLC

\* Wallet 11 holds every role, of the vault too, since no property depends on who
\* signs.  Of the accounts of the authority 31, 53 and 55 are the associated
\* ones in each mint, 54 is another one in mint 41.  Custody accounts are 60
\* and 61.
MCAccountOwner == 51 :> 11 @@ [a \in {53, 54, 55} |-> 31] @@ [a \in {60, 61} |-> Minter]
MCAccountMint == [a \in {51, 53, 54, 60} |-> 41] @@ [a \in {55, 61} |-> 42]
MCCustody == 41 :> 60 @@ 42 :> 61
MCAta == 11 :> (41 :> 51 @@ 42 :> 52) @@ 31 :> (41 :> 53 @@ 42 :> 55)
MCBalances == [a \in TokenAccounts |-> IF a = 51 THEN 2 ELSE 0]

MCAuthority == "vault" :> 31

MCDestinations ==
  {[destination_domain |-> "evm", mint_recipient |-> r, destination_caller |-> Default] :
     r \in {Default, 71, 72}}

MCBurnParams ==
  {[amount |-> a, max_fee |-> 0, min_finality_threshold |-> 2000] : a \in {0, 1, 2}}

MCDepositParams ==
  {DepositParamsOf(d, p) : d \in MCDestinations, p \in MCBurnParams}
=============================================================================
