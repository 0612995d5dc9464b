------------------------ MODULE MCTokenMessengerMinter ------------------------
(***************************************************************************)
(* The instances of TokenMessengerMinter that TLC checks.                  *)
(***************************************************************************)
EXTENDS TokenMessengerMinter, TLC

\* Two wallets, 11 and 12, one mint with custody account 60, and a token
\* account for each wallet.
MCAccountOwner == 51 :> 11 @@ 52 :> 12 @@ 60 :> Minter
MCAccountMint == [a \in {51, 52, 60} |-> 41]
MCCustody == 41 :> 60
MCAta == [w \in Wallets |-> 41 :> 40 + w]
MCBalances == 51 :> 3 @@ 52 :> 0 @@ 60 :> 0

\* Wallet 11 owns both accounts; 51 is the associated one.
MCOneOwner == 51 :> 11 @@ 52 :> 11 @@ 60 :> Minter

\* No tokens at all, to look at the roles alone.
MCNone == {}
MCNoFunction == << >>
MCNoAta == [w \in Wallets |-> << >>]

Deposit(amount, max_fee) ==
  [amount |-> amount, destination_domain |-> "evm", mint_recipient |-> 71,
   destination_caller |-> Default, max_fee |-> max_fee, min_finality_threshold |-> 2000]

\* Deposits at the boundaries of the checks: no amount, no room for the fee,
\* the whole supply, the domain's own messages, no recipient.
MCDeposits ==
  {Deposit(0, 0), Deposit(1, 0), Deposit(1, 1), Deposit(2, 0), Deposit(2, 1), Deposit(3, 1),
   [Deposit(1, 0) EXCEPT !.destination_domain = "sol"],
   [Deposit(1, 0) EXCEPT !.mint_recipient = Default]}

MCOneDeposit == {Deposit(1, 0)}

BurnBody(amount, max_fee, fee, recipient, expiration) ==
  [version |-> 1, burn_token |-> 81, mint_recipient |-> recipient, amount |-> amount,
   message_sender |-> 71, max_fee |-> max_fee, fee_executed |-> fee,
   expiration_block |-> expiration, hook_data |-> NoHook]

From(nonce, finality, body) ==
  [nonce |-> nonce, remote_domain |-> "evm", sender |-> 91,
   finality_threshold_executed |-> finality, message_body |-> body]

\* Nonce 1 is attested early with a fee and an expiration, and again when
\* final; nonce 2 pays the fee recipient's own account, with the largest fee;
\* nonce 3 pays custody itself; the others are refused: the fee is above what
\* was agreed, the amount does not fit a u64, the finality is too low.
MCMessages ==
  {From(1, 1000, BurnBody(2, 1, 1, 52, 1)),
   From(1, 2000, BurnBody(2, 1, 0, 52, 0)),
   From(2, 2000, BurnBody(2, 1, 1, 51, 0)),
   From(3, 2000, BurnBody(1, 0, 0, 60, 0)),
   From(4, 2000, BurnBody(3, 1, 2, 52, 0)),
   From(5, 2000, BurnBody(MaxU64 + 1, 1, 0, 52, 0)),
   From(5, 400, BurnBody(1, 0, 0, 52, 0))}
=============================================================================
