----------------------------- MODULE BridgeDaemon -----------------------------
(***************************************************************************)
(* The daemon that bridges whatever a vault holds, and the operator who    *)
(* runs the same scripts by hand.  Each of them reads the vault's balance, *)
(* burns it through the deposit proxy, polls for the attestation of the    *)
(* burn and presents the message to the EthCctpReceiveProxy contract; all  *)
(* it knows is in memory, and what it logs is all that is left of it.      *)
(*                                                                         *)
(* An action is what a process does between two awaits, or what a chain or *)
(* the attestation service does meanwhile.  The contract's side is         *)
(* EthCctpReceiveProxy.  Of the vault's side, which DepositProxy has in    *)
(* full, the model keeps what VaultLedger promises and when a burn is      *)
(* accepted.                                                               *)
(***************************************************************************)
EXTENDS EthCctpReceiveProxy, Sequences, FiniteSetsExt

CONSTANTS
  Daemons,
  Operators,        \* terminals of the operator, who holds the daemon's keys
  OperatorAmounts,  \* what the operator's sol2evm is told to burn
  EvmKey,           \* the address of the key that signs on the EVM chain
  EvmSenders,       \* addresses that use the contract or the transmitter otherwise
  Usdc,             \* REMOTE_TOKEN_HEX
  Supply,           \* tokens that come into the vault
  Threshold,        \* DEPOSIT_PROXY_V2_MIN_BRIDGE_AMOUNT
  BurnLimit,        \* of the local token
  Accepting,        \* whether deposits are accepted: BOOLEAN, or {TRUE} if always
  VaultDestinations,\* recipient and caller that the vault's admin sets
  NoHash,           \* of a process that has sent no transaction
  Hashes,           \* bound on the hashes of burn transactions
  MaxEarly,         \* bound on the logged hashes without a burn, yet or for ever
  MaxFaults         \* bound on the crashes and lost answers

VARIABLES
  process,      \* what each process is at, and remembers
  logged,       \* hashes that the log names; a line printed stays
  purse,        \* tokens that may still come into the vault
  vault,        \* tokens in the vault
  rescued,      \* tokens that the vault's admin took out
  destination,  \* of the vault
  accepting,    \* whether a deposit of the vault, with no fee, is accepted
  burns,        \* the messages of the vault; their nonces are 1, 2, ...
  txs,          \* by hash: the amount sent, and the burn that became of it
  attested,     \* burns that Circle has attested
  mempool,      \* transactions in flight to the EVM chain: process and nonce
  faults

contract == vars
proxy_vault == <<vault, rescued, burns>>
solana == <<proxy_vault, purse, destination, accepting, txs>>
bridge_vars ==
  <<contract, solana, process, logged, attested, mempool, faults>>

Processes == Daemons \union Operators

\* What became of a transaction, unless it landed: the number of its burn then.
Pending == -1
NoBurn == 0

\* Never sent, or dropped: no chain and no service knows anything of it.
NoTx == [amount |-> 0, burn |-> NoBurn]

AtRest == [pc |-> "asleep", amount |-> 0, hash |-> NoHash]

Process ==
  [pc: {"asleep", "burning", "confirming", "polling", "receiving", "waiting"},
   amount: 0..Supply, hash: Hashes \union {NoHash}]

MessageOf(k) ==
  [nonce |-> k, token |-> Usdc, recipient |-> burns[k].destination.recipient,
   caller |-> burns[k].destination.caller, amount |-> burns[k].amount]

ASSUME BridgeAssumption ==
  /\ Daemons \intersect Operators = {}
  /\ EvmKey \in Accounts /\ EvmSenders \subseteq Accounts
  /\ Usdc \in Tokens
  /\ {Supply, Threshold, BurnLimit, MaxEarly, MaxFaults} \subseteq Nat
  /\ OperatorAmounts \subseteq 1..Supply
  /\ Accepting \subseteq BOOLEAN
  /\ NotForwarded \notin VaultDestinations
  /\ VaultDestinations \subseteq [recipient: Addresses, caller: Addresses \union {Zero}]
  /\ NoHash \notin Hashes
  /\ \A t \in Tokens, a \in Addresses : InitialBalances[t][a] = 0
  /\ Messages = {[nonce |-> k, token |-> Usdc, recipient |-> d.recipient, caller |-> d.caller,
                  amount |-> amount] :
                   k \in 1..Supply, d \in VaultDestinations, amount \in 1..Supply}

\* EVM addresses are 20 bytes, signatures of Solana transactions 64.
ASSUME FiniteAssumption == IsFiniteSet(Accounts) /\ IsFiniteSet(Hashes)

-----------------------------------------------------------------------------
BridgeInit ==
  /\ Init
  /\ EvmKey = manager
  /\ process = [p \in Processes |-> AtRest]
  /\ logged = {}
  /\ purse = Supply /\ vault = 0 /\ rescued = 0
  /\ destination \in VaultDestinations
  /\ accepting \in Accepting
  /\ burns = << >>
  /\ txs = [h \in Hashes |-> NoTx]
  /\ attested = {}
  /\ mempool = {}
  /\ faults = 0

Become(p, pc) == process' = [process EXCEPT ![p].pc = pc]

\* A tick returns or throws, or the script ends; nothing is kept.
Finish(p) == process' = [process EXCEPT ![p] = AtRest]

CanBurnNothing(amount) == accepting /\ amount <= vault /\ amount <= BurnLimit

\* What the deposit proxy and the programs below it check of a burn.
CanBurn(amount) == accepting /\ amount > 0 /\ amount <= vault /\ amount <= BurnLimit

(***************************************************************************)
(* One tick, or one run of a script.                                       *)
(***************************************************************************)
TickReadsAbove(p) ==
  /\ process[p].pc = "asleep"
  /\ vault > Threshold
  /\ process' = [process EXCEPT ![p] = [AtRest EXCEPT !.pc = "burning", !.amount = vault]]
  /\ UNCHANGED <<contract, solana, logged, attested, mempool, faults>>

\* The daemon reads the balance; below the threshold it sleeps on.
TickReads(p) ==
  /\ process[p].pc = "asleep"
  /\ vault >= Threshold
  /\ process' = [process EXCEPT ![p] = [AtRest EXCEPT !.pc = "burning", !.amount = vault]]
  /\ UNCHANGED <<contract, solana, logged, attested, mempool, faults>>

\* bridge-v2-proxy sol2evm --amount
StartBridge(p, amount) ==
  /\ process[p].pc = "asleep"
  /\ process' = [process EXCEPT ![p] = [AtRest EXCEPT !.pc = "burning", !.amount = amount]]
  /\ UNCHANGED <<contract, solana, logged, attested, mempool, faults>>

\* redeem-evm --txHash, of any hash: of a burn, or of none.
StartRedeem(p, h) ==
  /\ process[p].pc = "asleep"
  /\ process' = [process EXCEPT ![p] = [AtRest EXCEPT !.pc = "polling", !.hash = h]]
  /\ UNCHANGED <<contract, solana, logged, attested, mempool, faults>>

Redeeming(p) == process[p].amount = 0

BurnOf(p) == txs[process[p].hash].burn

\* A hash that nobody has and that has no burn is as good as one never used.
Fresh(h) ==
  /\ txs[h].burn = NoBurn
  /\ h \notin logged
  /\ \A p \in Processes : process[p].hash # h

\* Any one will do: those that are fresh cannot be told apart.
NewHash == CHOOSE h \in Hashes : Fresh(h)

\* rpc() simulates the transaction before it sends it.
SubmitBurn(p) ==
  /\ process[p].pc = "burning"
  /\ CanBurn(process[p].amount)
  /\ \E h \in Hashes : Fresh(h)
  /\ txs' = [txs EXCEPT ![NewHash] = [amount |-> process[p].amount, burn |-> Pending]]
  /\ process' = [process EXCEPT ![p].pc = "confirming", ![p].hash = NewHash]
  /\ UNCHANGED <<contract, proxy_vault, purse, destination, accepting, logged, attested,
                 mempool, faults>>

\* The simulation fails, or the RPC node is not reached.
BurnRefused(p) ==
  /\ process[p].pc = "burning"
  /\ Finish(p)
  /\ UNCHANGED <<contract, solana, logged, attested, mempool, faults>>

ReportUnlogged(p) ==
  /\ process[p].pc = "confirming"
  /\ BurnOf(p) # NoBurn
  /\ Become(p, "polling")
  /\ UNCHANGED <<contract, solana, logged, attested, mempool, faults>>

\* rpc() returns once the transaction is processed; it may still be in flight
\* then, or be dropped later.  Its hash is logged.
Report(p) ==
  /\ process[p].pc = "confirming"
  /\ BurnOf(p) # NoBurn
  /\ BurnOf(p) = Pending =>
       Cardinality({h \in logged : txs[h].burn \in {Pending, NoBurn}}) < MaxEarly
  /\ Become(p, "polling")
  /\ logged' = logged \union {process[p].hash}
  /\ UNCHANGED <<contract, solana, attested, mempool, faults>>

\* rpc() throws for a transaction that failed or expired.
BurnFails(p) ==
  /\ process[p].pc = "confirming"
  /\ BurnOf(p) = NoBurn
  /\ Finish(p)
  /\ UNCHANGED <<contract, solana, logged, attested, mempool, faults>>

FetchPending(p) ==
  /\ process[p].pc = "polling"
  /\ BurnOf(p) \in DOMAIN burns
  /\ Become(p, "receiving")
  /\ UNCHANGED <<contract, solana, logged, attested, mempool, faults>>

\* The service answers without a message while it knows of no burn, and with
\* "PENDING" until it has attested it: both are polled again.
Fetch(p) ==
  /\ process[p].pc = "polling"
  /\ BurnOf(p) \in attested
  /\ Become(p, "receiving")
  /\ UNCHANGED <<contract, solana, logged, attested, mempool, faults>>

TimeOutOnceAttested(p) ==
  /\ process[p].pc = "polling"
  /\ ~Redeeming(p)
  /\ BurnOf(p) \in attested
  /\ Finish(p)
  /\ UNCHANGED <<contract, solana, logged, attested, mempool, faults>>

\* The attestation is not there in time.
TimeOut(p) ==
  /\ process[p].pc = "polling"
  /\ ~Redeeming(p)
  /\ Finish(p)
  /\ UNCHANGED <<contract, solana, logged, attested, mempool, faults>>

\* Redeeming has no time limit, but does not retry a request that fails; or
\* the operator ends it.
FetchFails(p) ==
  /\ process[p].pc = "polling"
  /\ Redeeming(p)
  /\ Finish(p)
  /\ UNCHANGED <<contract, solana, logged, attested, mempool, faults>>

SubmitReceiveAsSender(p) ==
  /\ process[p].pc = "receiving"
  /\ Receivable(MessageOf(BurnOf(p)), EvmKey)
  /\ mempool' = mempool \union {<<p, BurnOf(p)>>}
  /\ Become(p, "waiting")
  /\ UNCHANGED <<contract, solana, logged, attested, faults>>

\* Estimating the gas runs the call before it is sent.
SubmitReceive(p) ==
  /\ process[p].pc = "receiving"
  /\ EvmKey \in {admin, manager}
  /\ Receivable(MessageOf(BurnOf(p)), Proxy)
  /\ mempool' = mempool \union {<<p, BurnOf(p)>>}
  /\ Become(p, "waiting")
  /\ UNCHANGED <<contract, solana, logged, attested, faults>>

ReceiveFails(p) ==
  /\ process[p].pc = "receiving"
  /\ Finish(p)
  /\ UNCHANGED <<contract, solana, logged, attested, mempool, faults>>

\* The process stops, and is started again with nothing in memory.
Halt(p) ==
  /\ process[p].pc # "asleep"
  /\ faults < MaxFaults
  /\ faults' = faults + 1
  /\ Finish(p)
  /\ UNCHANGED <<contract, solana, logged, attested, mempool>>

\* rpc() or wait() throws although the transaction is in flight, or done.
LoseAnswer(p) ==
  /\ process[p].pc \in {"confirming", "waiting"}
  /\ faults < MaxFaults
  /\ faults' = faults + 1
  /\ Finish(p)
  /\ UNCHANGED <<contract, solana, logged, attested, mempool>>

-----------------------------------------------------------------------------
(***************************************************************************)
(* Solana, the attestation service and the EVM chain.                      *)
(***************************************************************************)
LandAtAnyDestination(h) ==
  /\ txs[h].burn = Pending
  /\ CanBurn(txs[h].amount)
  /\ vault' = vault - txs[h].amount
  /\ \E d \in VaultDestinations :
       burns' = Append(burns, [amount |-> txs[h].amount, destination |-> d])
  /\ txs' = [txs EXCEPT ![h].burn = Len(burns')]
  /\ UNCHANGED <<contract, purse, rescued, destination, accepting, process, logged, attested,
                 mempool, faults>>

\* burn_for_deposit, of the amount read before and to the vault's destination now.
Land(h) ==
  /\ txs[h].burn = Pending
  /\ CanBurn(txs[h].amount)
  /\ vault' = vault - txs[h].amount
  /\ burns' = Append(burns, [amount |-> txs[h].amount, destination |-> destination])
  /\ txs' = [txs EXCEPT ![h].burn = Len(burns')]
  /\ UNCHANGED <<contract, purse, rescued, destination, accepting, process, logged, attested,
                 mempool, faults>>

\* A transaction fails, or expires with its blockhash.  Whoever has its hash
\* keeps it.
Drop(h) ==
  /\ txs[h].burn = Pending
  /\ txs' = [txs EXCEPT ![h] = NoTx]
  /\ UNCHANGED <<contract, proxy_vault, purse, destination, accepting, process, logged, attested,
                 mempool, faults>>

Fund(amount) ==
  /\ purse' = purse - amount
  /\ vault' = vault + amount
  /\ UNCHANGED <<contract, rescued, burns, destination, accepting, txs, process, logged,
                 attested, mempool, faults>>

RescueVault(amount) ==
  /\ rescued' = rescued + amount
  /\ vault' = vault - amount
  /\ UNCHANGED <<contract, burns, purse, destination, accepting, txs, process, logged,
                 attested, mempool, faults>>

SetDestination(new_destination) ==
  /\ destination' = new_destination
  /\ UNCHANGED <<contract, proxy_vault, purse, accepting, txs, process, logged, attested,
                 mempool, faults>>

\* The token messenger and minter is paused, asks for a minimum fee or denies
\* the vault's authority, or the vault allows other programs; or no longer.
SetAccepting(new_accepting) ==
  /\ accepting' = new_accepting
  /\ UNCHANGED <<contract, proxy_vault, purse, destination, txs, process, logged, attested,
                 mempool, faults>>

Attest(k) ==
  /\ k \in DOMAIN burns \ attested
  /\ attested' = attested \union {k}
  /\ UNCHANGED <<contract, solana, process, logged, mempool, faults>>

\* The transaction is included, and ends the tick of the process that waits.
Included(p, k) ==
  /\ <<p, k>> \in mempool
  /\ mempool' = mempool \ {<<p, k>>}
  /\ IF process[p].pc = "waiting" /\ BurnOf(p) = k THEN Finish(p) ELSE UNCHANGED process
  /\ UNCHANGED <<solana, logged, attested, faults>>

MineReceive(p, k) ==
  /\ Included(p, k)
  /\ receiveMessageAndForward(EvmKey, Usdc, MessageOf(k))

MineRevert(p, k) ==
  /\ Included(p, k)
  /\ ~ (EvmKey \in {admin, manager} /\ Receivable(MessageOf(k), Proxy))
  /\ UNCHANGED contract

\* Everybody else on the EVM chain, with what is attested.
OthersOnEvm ==
  /\ NextBy(EvmSenders, {MessageOf(k) : k \in attested})
  /\ UNCHANGED <<solana, process, logged, attested, mempool, faults>>

ScriptNext(p) ==
  \/ SubmitBurn(p) \/ BurnRefused(p) \/ Report(p) \/ BurnFails(p)
  \/ Fetch(p) \/ TimeOut(p) \/ FetchFails(p)
  \/ SubmitReceive(p) \/ ReceiveFails(p)
  \/ Halt(p) \/ LoseAnswer(p)

OperatorNext(p) ==
  \/ \E amount \in OperatorAmounts : StartBridge(p, amount)
  \/ \E h \in logged \union {g \in Hashes : txs[g].burn \in DOMAIN burns} : StartRedeem(p, h)

ChainNext ==
  \/ \E h \in Hashes : Land(h) \/ Drop(h)
  \/ \E amount \in 1..purse : Fund(amount)
  \/ \E amount \in 1..vault : RescueVault(amount)
  \/ \E new_destination \in VaultDestinations : SetDestination(new_destination)
  \/ \E new_accepting \in Accepting : SetAccepting(new_accepting)
  \/ \E k \in DOMAIN burns : Attest(k)
  \/ \E p \in Processes, k \in DOMAIN burns : MineReceive(p, k) \/ MineRevert(p, k)
  \/ OthersOnEvm

BridgeNext ==
  \/ \E p \in Daemons : TickReads(p)
  \/ \E p \in Operators : OperatorNext(p)
  \/ \E p \in Processes : ScriptNext(p)
  \/ ChainNext

BridgeSpec == BridgeInit /\ [][BridgeNext]_bridge_vars

\* A process goes on: every await of the scripts ends, and so does every
\* transaction, except that redeeming polls as long as it gets no attestation.
\* What is tried again and again succeeds if it can again and again.
Fairness ==
  /\ \A p \in Daemons :
       /\ WF_bridge_vars(TickReads(p))
       /\ SF_bridge_vars(SubmitBurn(p))
  /\ \A p \in Processes :
       /\ WF_bridge_vars(SubmitBurn(p) \/ BurnRefused(p))
       /\ WF_bridge_vars(Report(p) \/ BurnFails(p))
       /\ WF_bridge_vars(TimeOut(p))
       /\ WF_bridge_vars(SubmitReceive(p) \/ ReceiveFails(p))
  /\ \A h \in Hashes : WF_bridge_vars(Land(h) \/ Drop(h))
  /\ SF_bridge_vars(\E h \in Hashes : Land(h))
  /\ \A k \in 1..Supply :
       /\ WF_bridge_vars(Attest(k))
       /\ \A p \in Processes : WF_bridge_vars(MineReceive(p, k) \/ MineRevert(p, k))
  /\ \A p \in Operators, h \in Hashes :
       /\ SF_bridge_vars(process[p].hash = h /\ Fetch(p))
       /\ SF_bridge_vars(process[p].hash = h /\ SubmitReceive(p))

FairBridgeSpec == BridgeSpec /\ Fairness

-----------------------------------------------------------------------------
(***************************************************************************)
(* Properties.                                                             *)
(***************************************************************************)
\* What a process may remember: from its burn on a hash; while it burns and
\* later the amount, unless it redeems; an attested burn once it receives.
MemoryOK(memory) ==
  /\ memory.pc = "asleep" => memory = AtRest
  /\ memory.hash = NoHash <=> memory.pc \in {"asleep", "burning"}
  /\ memory.pc = "confirming" => memory.amount > 0
  /\ memory.hash # NoHash /\ memory.amount > 0 /\ txs[memory.hash] # NoTx
       => txs[memory.hash].amount = memory.amount
  /\ memory.pc \in {"receiving", "waiting"} => txs[memory.hash].burn \in attested

\* The type of every variable.  Each burn has one transaction, of its amount,
\* and there are no more burns than tokens.
BridgeTypeOK ==
  /\ TypeOK
  /\ process \in [Processes -> Process]
  /\ \A p \in Processes : MemoryOK(process[p])
  /\ logged \subseteq Hashes
  /\ {purse, vault, rescued, faults} \subseteq Nat
  /\ destination \in VaultDestinations
  /\ accepting \in Accepting
  /\ burns \in Seq([amount: 1..Supply, destination: VaultDestinations])
  /\ purse + vault + rescued + Len(burns) <= Supply
  /\ txs \in [Hashes -> {NoTx} \union [amount: 1..Supply, burn: {Pending} \union DOMAIN burns]]
  /\ \A k \in DOMAIN burns : \E h \in Hashes :
       /\ txs[h] = [amount |-> burns[k].amount, burn |-> k]
       /\ \A g \in Hashes \ {h} : txs[g].burn # k
  /\ used_nonces \subseteq attested /\ attested \subseteq DOMAIN burns
  /\ mempool \subseteq Processes \X attested

BurnAmounts == [k \in DOMAIN burns |-> burns[k].amount]

\* Tokens are in one place: each is outside the vault, in it, in a burn that
\* has not been received, or with an address of the EVM chain.
TokensConserved ==
  Supply = purse + vault + rescued
             + SumFunctionOnSet(BurnAmounts, DOMAIN burns \ used_nonces)
             + SumFunctionOnSet(balances[Usdc], Addresses)

\* The log names the hash, or the process that sent the transaction has it.
Known(h) == h \in logged \/ \E p \in Processes : process[p].hash = h /\ ~Redeeming(p)

\* A burn is forgotten only by a crash or a lost answer, one each time: any
\* other is in the log, or the process that made it still knows it.
BurnsAreLogged ==
  Cardinality({k \in DOMAIN burns : \A h \in Hashes : txs[h].burn = k => ~Known(h)}) <= faults

\* Whoever presents it, and whatever the contract holds by then, a burn that
\* names the contract as recipient and caller is passed on in full once it is
\* received with its own token.
BridgedInFull ==
  \A k \in DOMAIN burns :
    /\ burns[k].destination = [recipient |-> Proxy, caller |-> Proxy]
    /\ k \in used_nonces
    => /\ forwarded[k] # NotForwarded
       /\ forwarded[k].token = Usdc => forwarded[k].amount = burns[k].amount

\* The vault that the daemon empties is that of the ledger the deposit proxy
\* keeps.
Vault == INSTANCE VaultLedger WITH
  Vaults <- {Proxy},
  Authority <- [v \in {Proxy} |-> v],
  NoDestination <- NotForwarded,
  held <- [v \in {Proxy} |-> vault],
  destination <- [v \in {Proxy} |-> destination],
  burns <- [k \in DOMAIN burns |->
              [owner |-> Proxy, amount |-> burns[k].amount, destination |-> burns[k].destination]]
VaultSteps == [][Vault!Next]_<<vault, destination, burns>>

\* Whatever a tick waits for, it ends.
TickEnds == \A p \in Daemons : process[p].pc # "asleep" ~> process[p].pc = "asleep"

\* The vault is emptied below the threshold again and again, if it never holds
\* more than one message may burn and deposits are accepted in the end.
VaultEmptied ==
  [](vault <= BurnLimit) /\ <>[]accepting => (vault >= Threshold ~> vault < Threshold)

\* If the operator redeems a hash again and again, with other runs of his
\* between, then its burn is received, if it has one that the contract may
\* present: whatever the daemon does with it, and however often a request fails.
BurnCanBeRedeemed ==
  \A p \in Operators, h \in Hashes :
    /\ []<><<StartRedeem(p, h)>>_bridge_vars
    /\ <>(\E k \in DOMAIN burns :
            txs[h].burn = k /\ burns[k].destination.caller \in {Zero, Proxy})
    => <>(txs[h].burn \in used_nonces)
=============================================================================
