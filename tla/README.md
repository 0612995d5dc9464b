# Aegis CCTP bridge: a TLA+ model

The repository moves USDC between Solana and EVM chains with Circle's
Cross-Chain Transfer Protocol, version 2. Tokens are burned in one domain, a
message about the burn is attested off-chain, and the message is presented in
the other domain, where the tokens are paid out. This directory models the
programs that do it, checks the models with TLC on small instances, and proves
the properties that matter most with TLAPS for every value of the constants.

Source paths below are relative to the repository (`src/`); `v2/` stands for
`solana_programs/v2/`.

## 1. The system

| Part | Where | State it keeps | Operations | Status |
|---|---|---|---|---|
| Message transmitter | `v2/message-transmitter-v2` | the state account (owner, nominee, attester manager, pauser, paused, threshold, the Vec of attesters, body size limit); a `UsedNonce` account per nonce; a `MessageSent` account per message | roles, pause, attesters, threshold, `send_message`, `receive_message`, `reclaim_event_account`, `is_nonce_used` | modelled |
| Token messenger | `v2/token-messenger-minter-v2/src/token_messenger_v2` | roles, fee recipient, minimum fee; a remote messenger per domain; the denylist | roles, fees, registry, `deposit_for_burn`, `..._with_hook`, the two `handle_receive_*` handlers | modelled |
| Token minter | `v2/token-messenger-minter-v2/src/token_minter_v2` | token controller, pauser, paused; a `LocalToken` per mint with limit and counters; a custody token account per mint; token pairs | roles, pause, add, remove, link, unlink, limits, `burn_token_custody`, the burn and transfer helpers | modelled |
| Deposit proxy | `v2/deposit-proxy-v2/src/lib.rs` | the vault: admin, transfer manager, mint, destination, allowed programs; its token account | `initialize_vault`, `burn_for_deposit`, setters, `rescue_transfer` | modelled |
| Receive proxy | `ethereum_contracts/contracts/EthCctpReceiveProxy.sol` | admin, manager, transferTo; its token balance | `receiveMessageAndForward`, setters, `rescue_transfer` | modelled |
| Bridge daemon | `scripts/daemonBridgeV2Proxy.ts`, `scripts/bridgeV2Proxy.utils.ts`, `scripts/v2/{solanaProxy,evm}.ts`, `scripts/redeemEvm.ts`, `scripts/bridgeV2Proxy.ts` | nothing persistent: the balance read, the burn's hash and the attestation live in one `tick()` | tick: read balance, burn, poll, receive; abort; manual redemption | partly: Solana to EVM |
| Byte layouts | `message.rs`, `burn_message.rs` | none | offsets, field readers, hash of the source fields | partly |
| Operator and V1 scripts, deployment, mocks, tests | `scripts/`, `ethereum_contracts/`, `deploy/` | none | one transaction per command line | not modelled |

How they interact. A user, or the deposit proxy as the vault's authority, calls
`deposit_for_burn`; the minter burns and calls the transmitter's `send_message`
by CPI, which writes a `MessageSent` account. The attestation service (Iris,
external) reads that account, gives the message a nonce and the finality it
waited for, and the attesters sign it. Anyone, or the caller the message names,
presents message and attestation to the transmitter of the destination, which
marks the nonce as used and calls the receiver's handler, again by CPI. The
daemon drives one direction: it burns what the vault holds and presents the
attested message to the receive proxy on the EVM chain.

What is hard. A Solana instruction is atomic, so that an interleaving happens
between instructions, of different signers: an admin change, a pause, a removal
of a token or of an attester lands between the burn and the payment, or between
the signing and the presentation. Messages are presented more than once, in any
order, at two finalities. Balances meet in one account (the recipient may be
the fee recipient or custody itself). Arithmetic is bounded (u64 and u128, fees
in ten-millionths). Off-chain, everything in the daemon's memory is lost when it
stops between the burn and the receive.

What makes each part correct:

- transmitter: each nonce is delivered at most once, and only a quorum of
  attesters enabled at that moment delivers; enough attesters can sign, unless
  the threshold counts on a default key that `initialize` admitted; no event
  account is closed before it was read; a pause stops all of it;
- messenger and minter: nothing is announced that was not burned; what is
  announced can be paid; each nonce is paid once, in full, out of the custody of
  the linked token; the recipient gets all but the agreed fee; no tokens are left
  in an account nobody can reach;
- deposit proxy and receive proxy: tokens leave only to the configured
  destination, or by the admin's rescue;
- daemon: a burn is followed by its receive or stays redeemable by hand.

`PROJECT.json` lists the hazards, each at its line, with the properties that
cover it.

## 2. Modules

| Module | What it is |
|---|---|
| `MessageTransmitter` | the transmitter, with the service, the signers and the clock as its environment |
| `MessageChannel` | what the transmitter promises its receivers: a channel that hands over each nonce at most once |
| `MessageTransmitterProofs` | theorems about the transmitter, with the refinement of `MessageChannel` |
| `TokenMessengerMinter` | messenger and minter, one program with two state accounts, with SPL balances and the slot clock as its environment |
| `TokenLedger` | what they promise about tokens, seen from the custody accounts |
| `TokenMessengerMinterProofs` | theorems about the messenger and minter |
| `TokenLedgerProofs` | theorems about their books: the supply, the statistics, the refinement of `TokenLedger` |
| `EthCctpReceiveProxy` | the contract that receives on the EVM chain, with the tokens and Circle's transmitter as its environment |
| `EthCctpReceiveProxyProofs` | theorems about the contract |
| `DepositProxy` | the vaults, composed with `TokenMessengerMinter`, whose deposit they call |
| `VaultLedger` | what the deposit proxy promises about a vault's tokens, and the bridge relies on |
| `DepositProxyProofs` | theorems about the deposit proxy |
| `VaultLedgerRefinement` | the refinement of `VaultLedger` |
| `BridgeDaemon` | the daemon and the operator, composed with `EthCctpReceiveProxy` and with a vault that keeps `VaultLedger` |
| `BridgeDaemonProofs` | theorems about the bridge, for any number of processes, burns and faults |
| `SumTheorems` | lemmas about sums over finite sets, which the proofs of the books rest on |
| `MCMessageTransmitter`, `MCTokenMessengerMinter`, `MCEthCctpReceiveProxy`, `MCDepositProxy`, `MCBridgeDaemon` | the constants of the instances TLC checks |

Conventions shared by the two programs:

- One action is one instruction, from account checks to the last write. An
  instruction that fails in any check or CPI changes nothing, so that failing is
  not taking the step. The checks Anchor derives (`has_one`, `init`, `close`,
  seeds) are conjuncts like those of the handler. Events are not modelled,
  except where they are the record of what happened (`deliveries`, `sent`,
  `minted`, which are histories).
- A Pubkey is a number and `Pubkey::default()` is 0: `Attesters` are compared
  by `>` because `verify_attestation_signatures` requires ascending addresses.
- An account that does not exist is `NoAccount`. A PDA is the argument of the
  function that holds it: `remote_token_messengers[domain]`,
  `token_pairs[domain][remote_token]`, membership in `used_nonces`.
- Next-state relations are grouped by who acts (`AdminNext`, `MessageNext`,
  `ServiceNext`; `RoleNext`, `RegistryNext`, `LocalTokenNext`, `TransferNext`).
  `TransferBy` and `NextBy` take who acts, and with what, as arguments, for the
  modules that restrict it.
- Definitions named like another with a suffix (`DisableAttester`'s
  `CanSpareAttesterAtThreshold`, `NonceUnusedByMessage`, ...) are wrong variants
  of the code, used only to show that a property notices them.

### MessageTransmitter

`initialized` .. `max_message_body_size` are the fields of the state account
(`state.rs`). `attester_slots` is how many attesters the account's allocated
space holds: `enable_attester` and `disable_attester` reallocate while accounts
are checked, from the length before the change, and `SlotsToEnable` and
`SlotsToDisable` are those expressions. `event_accounts` are the `MessageSent`
accounts; the field `read` is not in them and records that the service has seen
the account. `deliveries[n]` are the `MessageReceived` events of nonce `n`.

Signatures are symbolic: `signed` holds pairs of attester and message, an
attestation is the sequence of addresses its signatures recover to, and a
signature over other bytes recovers to an address nobody enabled. The
environment is modelled from what the program relies on: `AttestSent` gives a
fresh nonce and a finality, `AttestRemote` may attest a remote message twice, at
two finalities under one nonce, and `Tick` advances the clock, except past the
window of an event account the service has not read. That the service reads in
time (five days, `EVENT_ACCOUNT_WINDOW_SECONDS`) is the one assumption about
Iris; the code states it by having the window.

### TokenMessengerMinter

`token_messenger` and `token_minter` are the two state accounts, as records.
`balances` are SPL token accounts, whose owner, mint and associated address are
constants; custody accounts belong to the minter PDA. `sent` is what was given
to the transmitter, `minted[n]` the `MintAndWithdraw` of nonce `n`, `destroyed`
the custody tokens burned. Custody exists exactly as long as its local token.

`DepositForBurnHelper` is the deposit with both of its callers; `Burn` and
`SendMessage` are the helpers of the minter and the messenger. `FeeAmount` is
`get_min_fee_amount`, with its rounding and the cast to u64. `PaidOut` makes the two
transfers of a receive one after the other, because they may meet in one
account; `CountReceived` saturates twice, as the code does.

The transmitter appears as its promise, in `ReceiveMessage`: a handler is called
when its nonce has not been paid. This is what `MessageChannel` states and what
`ImplementsChannel` proves. Numbers in a burn message are wider than a u64;
`ReadsAsU64` is the reader's failure.

### EthCctpReceiveProxy

One action is one function of the contract, a transaction that succeeds. `Zero`
is `address(0)`. `forwarded[n]` is the `MessageReceivedAndForwarded` event of the
message with nonce `n`. The tokens and the message transmitter are external, as
the contract uses them: `transfer` moves what is held, and `receiveMessage`
mints to the recipient of the message, once for a nonce and only when the caller
is the one the message names, if it names one. Other addresses receive messages
for the contract themselves (`ReceiveDirectly`) and send tokens to it
(`Transfer`): these are the balances that `receiveMessageAndForward` must not
take for its own message. `messageTransmitter`, an argument of the call, is
always Circle's here; `token`, the other one, is any token.

### DepositProxy

`vaults[v]` is the vault account of id `v`, with the three fields of its
destination in one record. `VaultAuthority[v]` is the derived address that owns
the vault's tokens: a wallet of `TokenMessengerMinter` that signs for nothing
but `BurnForDeposit` and `RescueTransfer`. `BurnForDeposit` contains the whole
of `DepositForBurn`, with the destination the vault has at that moment.

`opened` says which token accounts exist. `TokenMessengerMinter` has all of them
from the start, which is enough there; here it matters, because
`initialize_vault` creates the vault's account with `init`, and fails when
somebody was faster (`OpenAccount`). Everybody else acts through `TransferBy`
on accounts that exist.

A rescue moves tokens of any account of the authority, the associated one or
not, but only in the vault's mint, and leaves no trace but the transfer.

### VaultLedger

A vault holds tokens, has a destination, and every burn is recorded with the
destination of its moment. `DepositProxy` implements it; `BridgeDaemon`, which
has one vault as a balance and a destination, takes only steps of it
(`VaultSteps`). It is the seam between the two: what the bridge assumes of the
vault is what the proxy is shown to do. When a burn is accepted is richer in
`DepositProxy`; the bridge has it as `accepting`, an amount above 0 and within
vault and limit.

### BridgeDaemon

`process[p]` is all that a process knows: where it is in `tick()` and `sol2evm`,
the amount read, and the hash of its burn. An action is what happens between two
awaits:

| `pc` | waits for | ends with |
|---|---|---|
| `asleep` | the interval, or nobody runs the script | `TickReads`, `StartBridge`, `StartRedeem` |
| `burning` | simulation and sending of `burn_for_deposit` | `SubmitBurn`, `BurnRefused` |
| `confirming` | the answer of `rpc()` | `Report`, `BurnFails`, `LoseAnswer` |
| `polling` | the attestation | `Fetch`, `TimeOut`; `FetchFails` when redeeming |
| `receiving` | gas estimation and sending | `SubmitReceive`, `ReceiveFails` |
| `waiting` | `wait()` for the EVM transaction | `MineReceive`, `MineRevert`, `LoseAnswer` |

`txs[h]` is what became of the transaction with hash `h`: the amount sent, and
as its burn `Pending` while it is in flight or the number of the burn it became
(`Land`). A transaction that fails or expires (`Drop`) leaves nothing behind on
the chain (`NoTx`), but its hash stays where it was: a process goes on polling
for it, and the log goes on naming it. `rpc()` resolves at the commitment
"processed", Anchor's default, so that `Report` may come before `Land`, and even
before `Drop`. The amount of a transaction is that read before; the destination
is the vault's at `Land`. A new transaction has a hash that nobody has
(`NewHash`); those that are `Fresh` cannot be told apart, so that taking one of
them is no restriction.

`logged` holds the hashes the log names, which `sol2evm` writes after `rpc()`
returned, and nothing is ever removed from it. The operator redeems any of them,
one whose transaction was dropped included, or any burn he finds on the chain.
`redeem-evm` then polls without a limit of time (`redeemEvm.ts:19`): only a
request that fails, or the operator, ends it (`FetchFails`).

`Halt` is a crash, a Ctrl-C, or the SIGTERM of the supervisor, which ends the process within half a second; since
`autorestart` is set and nothing is kept, the process goes on at rest. The abort
signal that SIGTERM raises only makes a poll throw before, which is `Halt` again.
Daemon and operator hold the same keys. An EVM transaction in flight is in
`mempool` and survives the process that sent it.

The EVM side is `EthCctpReceiveProxy` itself: `MineReceive` is its
`receiveMessageAndForward` for the message of a burn, and `OthersOnEvm` are the
other users of the contract and of the transmitter, who may present any attested
message first.

## 3. Runs

Every run checks for deadlock. Only `daemon_liveness` has fairness; the other
properties are safety properties, and the actions of the programs are calls
nobody is obliged to make.

| Run | Instance | Shows |
|---|---|---|
| `mt_admin` | 2 role holders, 3 attesters, thresholds 0 to 4, no messages | `StateStaysValid`, `ThresholdCanBeMet`, `SlotsFitAttesters`: no order of role, attester and threshold changes invalidates the account or outgrows its space; some attestation verifies in every state but those where every attester is needed and the default key is one |
| `mt_receive` | 2 callers, 2 attesters, 5 remote messages over 4 nonces | `NonceUsedIffDelivered`, `QuorumBehindDelivery`, `PausedIsQuiet`, `ChannelSpec`: one delivery for a nonce attested twice, none without a quorum of that moment, none during a pause, none for another domain, for the transmitter itself or by the wrong caller |
| `mt_reclaim` | 2 event accounts, 3 nonces, window 2, clock to 3 | `TypeOK`, `ClosedOnlyOnceRead`, `PausedIsQuiet`: two burns that differ in their body only have equal source fields, and still none is closed unread |
| `tmm_roles` | 2 wallets, minimum fees 0, 1 and the largest accepted | `RolesStayValid`, `FeeLeavesRoom` |
| `tmm_deposit` | 2 wallets, 3 tokens, 8 deposits at the boundaries of the checks, limits 2 and 3, minimum fees 0 and half the amount | `SupplyConserved`, `SentArePayable` |
| `tmm_receive` | 7 messages over 5 nonces, counters that saturate at 3 | `TypeOK`, `CountersNeverOverstate`, `NoTokensStranded`, `RecipientIsPaid`, `PausedHoldsTokens`, `LedgerSpec` |
| `eth_proxy` | 2 accounts, 2 tokens, 3 messages: one only the contract may present, one anyone may, one for somebody else; 1 token sent by mistake | `TypeOK`, `ReceivingNeverSpends`, `NamedCallerForwards`: what is passed on is what the message brought, whatever happened to the balance before |
| `vault` | 1 vault, 2 mints, 4 accounts of its authority and others, 2 tokens, destinations with and without a recipient, amounts 0 to 2 | `ProxyTypeOK`, `VaultSendsOwnMint`, `AuthorityTokensStay`, `VaultLedgerSpec`: what the admin sets, and who opens which account first, never lets tokens out of the authority but by a burn to the destination of that moment or by a rescue in the vault's mint |
| `daemon_safety` | 1 daemon, 1 operator, 2 tokens, 3 hashes, 2 transactions in flight, threshold 0, 1 fault, 2 destinations, others on the EVM chain | `BridgeTypeOK`, `TokensConserved`, `BurnsAreLogged`, `BridgedInFull`, `VaultSteps`: neither two burns of one balance nor two receives of one burn pay twice; a burn leaves the log's sight only by a fault |
| `daemon_liveness` | 1 daemon, 1 operator who only redeems, 2 tokens, 3 hashes, threshold and limit 1, no fault, deposits refused at times | `TickEnds`, `VaultEmptied`, `BurnCanBeRedeemed`: what time-outs, drops, reverts and refusals leave undone is made up for, by the next tick or by redemption |
| `tmm_min_fee` | as `tmm_roles`, with a minimum fee of the whole amount | violated: `initialize` stores a fee that `set_min_fee` refuses |
| `tmm_pairs` | two remote tokens | violated: two token pairs are linked for one domain |

Bounds, and why they are enough:

- 2 wallets or role holders let a role pass to another key and back, which is
  all that `has_one` and the inequalities of the setters distinguish. Runs about
  messages give the roles to one key, because the roles do not constrain each
  other there.
- 3 attesters are the least with which the threshold can be moved, met and
  missed with one attester to spare; 2 let `mt_receive` tell repeated from
  distinct signatures.
- `EventWindow` 2 and `MaxTime` 3 contain the tick before the window's end, the
  end itself and the one after. Two event accounts are needed for equal source
  fields.
- 3 tokens suffice for a deposit of all, one of part, and a fee that leaves
  exactly one. `MaxU64` = 3 in `tmm_receive` makes the counters saturate with a
  second message, and one amount is above it. `MaxSlot` 1 has a slot before and
  at the expiration block.
- The five nonces of `tmm_receive` are those of the seven messages: with a fee
  and again without, to the fee recipient's own account, to custody itself, and
  three that are refused.

- In `vault` one key is admin, manager and upgrade authority, since no property
  depends on who signs. The authority has its associated account in both mints
  and another in the vault's: these are the cases `BurnForDeposit` and
  `RescueTransfer` tell apart. Two tokens let part of them be burned and part
  stay, or be rescued.
- `daemon_safety`: two transactions in flight are the least for two burns of one
  balance, two tokens let both be burned, one by one. The number of burns is at
  most that of the tokens, so that no other bound is needed. Three hashes are
  the least with which one has landed, one was dropped and is still logged, and
  another is sent; `MaxEarly` bounds how many logged hashes have no burn (yet, or
  for ever), each of which uses up a hash. One fault at any point gives the
  restart with a burn or a receive in flight. `Threshold` 0 makes the daemon
  bridge an empty vault. Roles and `transferTo` of the contract do not change
  here; they do in `eth_proxy`. Hashes are only compared, and fresh ones are
  alike, so that permuting them is a symmetry.
- `daemon_liveness`: with limit 1 and two tokens the vault can exceed what one
  message may burn, and the premise of `VaultEmptied` excludes just that. The
  operator does not burn here and nothing crashes: both are in `daemon_safety`,
  and liveness after a crash is that of a process at rest. The contract's
  manager keeps his role, since the daemon's key must remain it.

Fairness (`Fairness` in `BridgeDaemon`), and why:

- weak, of the daemon's own steps: `while (!stopped)` goes on after every error,
  and every await up to `wait()` has an end (blockhash expiry, 15 s per fetch, the
  attestation timeout). Supervisor restarts the process;
- weak, of the world: a Solana transaction is executed or expires, a burn is
  attested, an EVM transaction is included. The last is an assumption the code
  does not secure: `wait()` has no limit;
- strong, of what is tried at every tick and can fail for passing reasons: the
  daemon's submission, and the landing of some transaction if one can land again
  and again;
- strong, of an operator's request for one hash and of his submission for it: a
  request that fails for passing reasons succeeds in the end if it is repeated.

That the operator repeats it is no fairness. `scripts/README.md` says that one
"can re-run" the receive, not that anybody does: `BurnCanBeRedeemed` has it as a
premise, that he starts to redeem this hash again and again, between which runs
have to end. No fairness ends a run that polls for a dropped hash: as in the
code it may go on for ever, and the property then says nothing about the
hashes he does not come to. Without an operator a burn that its tick gave up
stays unreceived: no tick looks at an earlier one.

Nothing is assumed about crashes but that they are finitely many, and the admin's
rescues do not come back as funds. `VaultEmptied` has its two premises in the
formula: the vault stays within the burn limit, because a tick burns the whole
balance in one message, and deposits are accepted from some time on, because a
minimum fee above the daemon's `maxFee` of 0 refuses all of them.

The two violated runs are disagreements within the repository, listed as
`findings`: the comment of `link_token_pair` promises one pair for a domain, the
seeds are per domain and remote token; `set_min_fee` refuses a fee that
`initialize` accepts.

## 4. Proofs

`MessageTransmitterProofs` proves every property that its runs check, for any
keys, attesters, messages, windows and clock. The invariant is built in parts:

- `TypeOK`;
- `AccountInv`, the conjunction of `StateStaysValid`, `ThresholdInRange` and
  `SlotsFitAttesters`. None is inductive alone: that the threshold stays within
  the number of distinct attesters after a disabling needs that they do not
  repeat, the realloc needs at least one attester, and an accepted nominee must
  differ from the owner;
- `DeliveryInv`: `NonceUsedIffDelivered`, with what every delivery was;
- `SignedAreAttested` and `UnreadAreRecent`, about the environment: signatures
  are over attested messages, and an unread event account is inside its window.
  Together with the guard of `Tick` the second gives `ClosedOnlyOnceRead`.

`DeliveryNeedsQuorum` counts: ascending addresses make an attestation an
injection from `1..signature_threshold` into the attesters that signed, so that
there are at least that many of them. `ThresholdAlwaysMeetable` goes the other
way: from as many attesters other than the default key `AscendingExists` makes
an ascending sequence, always taking the least one left, and such an attestation
verifies (`EnoughCanSign`). `ImplementsChannel` maps every step to a
step or a stutter of `MessageChannel`.

`TokenMessengerMinterProofs` and `TokenLedgerProofs` do the same for the
messenger and minter. `RoleInv` is `TypeOK` with
`RolesStayValid`; typing needs the roles because a receive reads the associated
account of the fee recipient. `CustodyFacts` draws from `AccountsAssumption`
that custody addresses of different mints differ and belong to no wallet.
`NoTokensStranded` and `SentArePayable` are inductive on top of `RoleInv`. Most
instructions leave all tokens alone: `TokenSteps` and `HistorySteps` sort the
steps once, and each later proof treats only those that matter.
`RecipientsArePaid` splits on which of recipient, fee recipient and custody are
one account. `AnyAmountCoversFee` is arithmetic over all amounts.
`KeepsLedger` maps `custody[m]` to the balance of the custody account of `m`
and `paid` to `minted`.

`EthCctpReceiveProxyProofs` proves the three properties of `eth_proxy`.
`AmountForwarded` is the lemma they rest on: what is passed on equals what the
message minted to the contract in the token named, 0 if it was another, so that
it is held and leaves the earlier balance. `NamedCallerForwards` is inductive on
top of `TypeOK`; no other strengthening is needed.

`DepositProxyProofs` builds on `TokenMessengerMinterProofs`. `ImplementsMinter`
shows that the program beside the proxy still satisfies its specification: a
burn is a deposit of the vault's authority, a rescue a transfer, or nothing when
it goes to the account it comes from. All theorems about the messenger and
minter so hold with vaults, and their invariants serve here. `VaultStepCases`
sorts the steps by what they do to the tokens of the authorities: a burn, a
rescue, a deposit of somebody else, or `LeavesVaultsAlone`. The invariant is
`ProxyInv` (`RoleInv` and `ProxyTypeOK`); `VaultSendsOwnMint` is inductive on top
of it because vaults are never closed and keep their mint (`VaultsStay`).

`VaultLedgerRefinement` proves `VaultLedgerSpec`, case by case along
`VaultStepCases`. Its mapping reads what a vault holds from its authority's
associated account once the vault exists, so that a new vault must start empty.
`UnopenedAreEmpty` says so, an account nobody has opened holds nothing, and is
inductive on top of `ProxyInv`: every transfer, rescue, burn and payment names
accounts that exist, and `initialize_vault` fails on an account somebody opened
first. A rescue from another account of the authority is no withdrawal and may
fund a vault; a rescue into another vault's account is a withdrawal that does.

`SumTheorems` is about `SumFunctionOnSet`: what a sum is when an element is
added, removed or changed, that it is the sum of the same values in any order,
and that it bounds each of them. The library's induction theorems have an
operator as a parameter, which cannot be instantiated here; `NatInductive` is
induction over a set of numbers instead (a set that has 0 and every successor
is `Nat`, from the well-foundedness of `<`). With it `SumsExist` and
`SumsAgree` show that the recursion behind the sum has exactly one solution,
and `SumTakes` that any element may be taken first, although the definition
takes a chosen one.

The books rest on these lemmas (`TokenLedgerProofs`):

- `SupplyIsConserved`: `SupplyStep` splits a step by `TokenSteps` and adds up
  the changes. A deposit moves an amount from the sum over the accounts to the
  sum over the messages (`DepositTotal`); transfers leave the sum alone even
  when accounts coincide, so that a payment, which is two of them, does as well
  (`PaidOutTotal`); what is burned from custody is in `destroyed`.
- `StatisticsAreCovered`: the counters saturate, so that `StaysCovered` is an
  inequality for a counter of any width, and cardinalities and sums of what was
  sent and received grow by exactly the message of the step. It needs that a
  nonce that is paid was not paid before, and that a token that is added again
  starts from 0.

`BridgeDaemonProofs` proves every safety property of `daemon_safety`, for any
number of daemons and terminals, transactions in flight, burns, crashes and
lost answers.

- `BridgeTypeOK` is inductive. Beyond types it says what a process may remember
  (`MemoryOK`): no hash before it has sent its burn, and from then on one,
  whatever became of the transaction; unless that was dropped, the amount it
  remembers is the one sent; what it receives or waits for is attested. Each burn
  has exactly one transaction, of its amount and above 0, although hashes of
  dropped ones stay around. Each token that is burned leaves the vault, so that
  there are never more burns than tokens, and every nonce used was attested and
  every nonce attested was burned.
- `BridgeRunsContract`: the contract's steps are those of
  `EthCctpReceiveProxy`, so that its theorems hold under the bridge;
  `BridgeNeverSpends` is the one that matters most.
- `BurnsAreBridgedInFull` (`BridgedInFull`): no address but the contract's can
  present a burn that names it (`ReceiveDirectly` is by accounts, and `Proxy` is
  none); `AmountForwarded` gives the amount. A later burn has a number that no
  nonce used can have.
- `KeepsVaultSteps` (`VaultSteps`) maps each step to `Fund`, `SetDestination`,
  `Burn` or `Withdraw` of `VaultLedger`, or to a stutter.
- `NoBurnIsForgotten` (`BurnsAreLogged`): the property is not inductive, since a
  transaction whose process died is no burn yet, and becomes one that nobody
  knows. The invariant `LogInv` counts both: `Forgotten` are the hashes of burns
  and of transactions in flight that neither the log names nor the process that
  sent them remembers, and they are no more than the faults; and the hash of its
  own burn that a process polls for, receives or waits for is in the log
  (`PolledAreLogged`), so that a time-out, a refused receive or an included
  transaction forgets nothing. `Land` and `Drop` leave log and memory alone
  (`SettledKeepsLog`); a step of a process forgets what it knew only with a fault
  (`RemembersKeepsLog`).
- `NoTokenIsLost` (`TokensConserved`): a burn moves its amount from the vault
  into the sum over the burns not received (`LandedAdds`), a receive moves it on
  to the sum over the addresses (`ReceivedLeaves`, `MintAdds`), and transfers,
  the contract's forward among them, conserve that sum (`TransferConserves`).
  That no burn is minted twice is the transmitter's nonce check.

`BridgeTypeOK` and `LogInv` were also checked as invariants of an instance of
`daemon_safety` with two faults.

Only model-checked are `TickEnds`, `VaultEmptied` and `BurnCanBeRedeemed`, which
are liveness under fairness, and the two violated properties.

Assumptions of all theorems are the named `ASSUME`s of the modules: keys
are not the default key, custody belongs to the minter and starts empty,
associated accounts of wallets are not custody and are of the mint they are
derived for, remote messages have the shape the service gives them, vault
authorities are derived addresses of their own that hold no role and nothing at
first. Addresses, attesters, nonces and hashes are finitely many
(`FiniteAssumption`, `KeysAssumption`; on the chains they are numbers of fixed width), which is
what gives the sums a meaning; their number is not bounded otherwise.

## 5. Not modelled

- Byte layouts, beyond what the properties notice: the hash of source fields
  covers only the length of the body, and a number above u64 cannot be read. A
  module for offsets and readers is planned.
- Cryptography (secp256k1 recovery, keccak), rent and lamports, compute limits,
  the event CPI.
- Upgrades of the programs; the upgrade authority, which `initialize` requires as the
  signer, is any role key.
- V1 scripts: their programs are not in the repository. Operator scripts build
  one transaction from flags.
- The daemon's configuration, the direction from the EVM chain to Solana
  (`evm2sol`), which only an operator runs, and `reclaim`, whose instruction is in
  `MessageTransmitter`.
- A reorganisation of the EVM chain, and nonces of EVM transactions: one that is
  in `mempool` is included, in any order.

## 6. Plan

1. Done: `MessageTransmitter`, its abstraction, runs and proofs.
2. Done: `TokenMessengerMinter`, its abstraction, runs and proofs.
3. Done: `DepositProxy`, `VaultLedger`, the run and the proofs.
4. Done: `EthCctpReceiveProxy`, its run and proofs.
5. Done: `BridgeDaemon`, its runs, and the proofs of its safety properties.
6. Both domains over one channel: from Solana to the EVM chain this is
   `BridgeDaemon` over `VaultLedger`, with the tokens of both chains conserved
   (`NoTokenIsLost`, `KeepsVaultSteps`, `BridgeRunsContract`).
   The other direction would compose `MessageTransmitter` with
   `TokenMessengerMinter`; their seam, `MessageChannel`, is proved already.
7. `MessageCodec`: layouts as pure operators, checked against a reference:
   readers return what was written, and two messages with one hash of source
   fields agree on what `reclaim_event_account` relies on.
