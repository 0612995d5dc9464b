-------------------------- MODULE BridgeDaemonProofs --------------------------
(***************************************************************************)
(* Proofs about BridgeDaemon, for any number of daemons and terminals, any *)
(* supply, threshold and burn limit, any number of hashes, of those logged *)
(* early, of crashes and of lost answers.                                  *)
(***************************************************************************)
EXTENDS BridgeDaemon, EthCctpReceiveProxyProofs, SequenceTheorems, SumTheorems

Burn == [amount: 1..Supply, destination: VaultDestinations]

\* What is known of a transaction, if these burns are made.
Tx(made) == {NoTx} \union [amount: 1..Supply, burn: {Pending} \union made]

(***************************************************************************)
(* What the assumptions say, and a state's type of its burns.              *)
(***************************************************************************)
LEMMA HashFacts ==
  /\ Supply \in Nat /\ NoHash \notin Hashes
  /\ Pending = -1 /\ NoBurn = 0 /\ NoTx.amount = 0 /\ NoTx.burn = NoBurn
  /\ EvmKey \in Accounts /\ EvmSenders \subseteq Accounts /\ Usdc \in Tokens
  /\ AtRest \in Process /\ AtRest.pc = "asleep" /\ AtRest.hash = NoHash /\ AtRest.amount = 0
<1>1. AtRest \in Process
  BY BridgeAssumption DEF AtRest, Process
<1>2. QED  BY <1>1, BridgeAssumption DEF AtRest, NoTx, NoBurn, Pending

LEMMA BurnFacts ==
  ASSUME BridgeTypeOK
  PROVE  /\ burns \in Seq(Burn)
         /\ Len(burns) \in Nat /\ Len(burns) <= Supply
         /\ DOMAIN burns = 1..Len(burns)
         /\ \A k \in DOMAIN burns :
              /\ k \in 1..Supply
              /\ burns[k] \in Burn
              /\ k \in Nonces
              /\ MessageOf(k) \in Messages
              /\ MessageOf(k).nonce = k
         /\ Pending \notin DOMAIN burns /\ NoBurn \notin DOMAIN burns
<1>1. /\ burns \in Seq(Burn)
      /\ purse \in Nat /\ vault \in Nat /\ rescued \in Nat
      /\ purse + vault + rescued + Len(burns) <= Supply
  BY DEF BridgeTypeOK, Burn
<1>2. Len(burns) \in Nat /\ DOMAIN burns = 1..Len(burns)
  BY <1>1, LenProperties
<1>3. Len(burns) <= Supply
  BY <1>1, <1>2, HashFacts
<1>4. ASSUME NEW k \in DOMAIN burns
      PROVE  /\ k \in 1..Supply
             /\ burns[k] \in Burn
             /\ MessageOf(k) \in Messages
             /\ MessageOf(k).nonce = k
  <2>1. k \in 1..Supply /\ burns[k] \in Burn
    BY <1>1, <1>2, <1>3, HashFacts, ElementOfSeq
  <2>2. MessageOf(k) \in Messages
    BY <2>1, BridgeAssumption DEF MessageOf, Burn
  <2>3. QED  BY <2>1, <2>2 DEF MessageOf
<1>5. Pending \notin DOMAIN burns /\ NoBurn \notin DOMAIN burns
  BY <1>2, HashFacts
<1>6. QED  BY <1>1, <1>2, <1>3, <1>4, <1>5 DEF Nonces

-----------------------------------------------------------------------------
(***************************************************************************)
(* The contract: whatever the processes do, it makes its own steps.        *)
(***************************************************************************)
\* Every script step but the inclusion of a transaction leaves the chains alone.
LEMMA ScriptSteps ==
  ASSUME NEW p \in Processes,
         \/ TickReads(p) \/ OperatorNext(p) \/ ScriptNext(p)
  PROVE  /\ UNCHANGED <<contract, proxy_vault, purse, destination, accepting, attested>>
         /\ SubmitBurn(p) \/ UNCHANGED txs
BY DEF TickReads, OperatorNext, StartBridge, StartRedeem, ScriptNext, SubmitBurn, BurnRefused,
       Report, BurnFails, Fetch, TimeOut, FetchFails, SubmitReceive, ReceiveFails, Halt,
       LoseAnswer, solana

LEMMA ContractStep ==
  ASSUME BridgeTypeOK, [BridgeNext]_bridge_vars
  PROVE  \/ UNCHANGED contract
         \/ \E p \in Processes, k \in attested : MineReceive(p, k)
         \/ OthersOnEvm
<1>1. \A p \in Processes : \A k : MineReceive(p, k) => k \in attested
  BY DEF BridgeTypeOK, MineReceive, Included
<1>2. CASE ChainNext
  BY <1>1, <1>2 DEF ChainNext, Land, Drop, Fund, RescueVault, SetDestination, SetAccepting,
                    Attest, MineRevert
<1>3. ASSUME NEW p \in Processes, TickReads(p) \/ OperatorNext(p) \/ ScriptNext(p)
      PROVE  UNCHANGED contract
  BY <1>3, ScriptSteps
<1>4. CASE UNCHANGED bridge_vars
  BY <1>4 DEF bridge_vars
<1>5. QED  BY <1>2, <1>3, <1>4 DEF BridgeNext, Processes

LEMMA ContractNext ==
  ASSUME BridgeTypeOK, [BridgeNext]_bridge_vars
  PROVE  [Next]_vars
<1>1. ASSUME NEW p \in Processes, NEW k \in attested, MineReceive(p, k)
      PROVE  Next
  <2>1. MessageOf(k) \in Messages
    BY BurnFacts DEF BridgeTypeOK
  <2>2. receiveMessageAndForward(EvmKey, Usdc, MessageOf(k))
    BY <1>1 DEF MineReceive
  <2>3. QED  BY <2>1, <2>2, HashFacts DEF Next, NextBy
<1>2. CASE OthersOnEvm
  <2>1. {MessageOf(k) : k \in attested} \subseteq Messages
    <3>1. attested \subseteq DOMAIN burns
      BY DEF BridgeTypeOK
    <3>2. \A k \in DOMAIN burns : MessageOf(k) \in Messages
      BY BurnFacts
    <3>3. QED  BY <3>1, <3>2
  <2>2. NextBy(EvmSenders, {MessageOf(k) : k \in attested})
    BY <1>2 DEF OthersOnEvm
  <2>3. QED  BY <2>1, <2>2, HashFacts DEF Next, NextBy
<1>3. QED  BY <1>1, <1>2, ContractStep DEF contract

-----------------------------------------------------------------------------
(***************************************************************************)
(* Typing, and what the processes remember.                                *)
(***************************************************************************)
\* MemoryOK, with these transactions sent and these burns attested.
Fits(memory, sent, seen) ==
  /\ memory.pc = "asleep" => memory = AtRest
  /\ memory.hash = NoHash <=> memory.pc \in {"asleep", "burning"}
  /\ memory.pc = "confirming" => memory.amount > 0
  /\ memory.hash # NoHash /\ memory.amount > 0 /\ sent[memory.hash] # NoTx
       => sent[memory.hash].amount = memory.amount
  /\ memory.pc \in {"receiving", "waiting"} => sent[memory.hash].burn \in seen

MemoriesFit ==
  /\ process \in [Processes -> Process]
  /\ \A p \in Processes : Fits(process[p], txs, attested)

\* Each burn has one transaction, of its amount.
TxsFit ==
  /\ txs \in [Hashes -> Tx(DOMAIN burns)]
  /\ \A k \in DOMAIN burns : \E h \in Hashes :
       /\ txs[h] = [amount |-> burns[k].amount, burn |-> k]
       /\ \A g \in Hashes \ {h} : txs[g].burn # k

LEMMA BridgeTypeSplit ==
  BridgeTypeOK <=>
    /\ TypeOK
    /\ MemoriesFit
    /\ TxsFit
    /\ logged \subseteq Hashes
    /\ {purse, vault, rescued, faults} \subseteq Nat
    /\ destination \in VaultDestinations
    /\ accepting \in Accepting
    /\ burns \in Seq(Burn)
    /\ purse + vault + rescued + Len(burns) <= Supply
    /\ used_nonces \subseteq attested /\ attested \subseteq DOMAIN burns
    /\ mempool \subseteq Processes \X attested
BY DEF BridgeTypeOK, MemoriesFit, TxsFit, MemoryOK, Fits, Burn, Tx

LEMMA BridgeTypeNext ==
  ASSUME TypeOK', MemoriesFit', TxsFit', logged' \subseteq Hashes,
         {purse', vault', rescued', faults'} \subseteq Nat,
         destination' \in VaultDestinations, accepting' \in Accepting,
         burns' \in Seq(Burn),
         purse' + vault' + rescued' + Len(burns') <= Supply,
         used_nonces' \subseteq attested', attested' \subseteq DOMAIN burns',
         mempool' \subseteq Processes \X attested'
  PROVE  BridgeTypeOK'
BY DEF BridgeTypeOK, MemoriesFit, TxsFit, MemoryOK, Fits, Burn, Tx

\* What a transaction is, by what became of it.
LEMMA TxFacts ==
  ASSUME BridgeTypeOK, NEW h \in Hashes
  PROVE  /\ txs[h] \in Tx(DOMAIN burns)
         /\ txs[h].burn \in {Pending, NoBurn} \union DOMAIN burns
         /\ txs[h].burn = NoBurn <=> txs[h] = NoTx
         /\ txs[h].burn = Pending => txs[h].amount \in 1..Supply
<1>1. txs[h] \in Tx(DOMAIN burns)
  BY BridgeTypeSplit DEF TxsFit
<1>2. Pending # NoBurn /\ NoBurn \notin DOMAIN burns
  BY HashFacts, BurnFacts
<1>3. QED  BY <1>1, <1>2, HashFacts DEF Tx

\* One process changes what it remembers.
LEMMA OneMemory ==
  ASSUME MemoriesFit, NEW p \in Processes, NEW memory \in Process,
         process' = [process EXCEPT ![p] = memory],
         Fits(memory, txs', attested'),
         \A q \in Processes \ {p} :
           Fits(process[q], txs, attested) => Fits(process[q], txs', attested')
  PROVE  MemoriesFit'
<1>1. /\ process' \in [Processes -> Process]
      /\ process'[p] = memory
      /\ \A q \in Processes \ {p} : process'[q] = process[q]
  BY DEF MemoriesFit
<1>2. QED  BY <1>1 DEF MemoriesFit

\* A process finishes and keeps nothing.
LEMMA FinishFits ==
  ASSUME MemoriesFit, NEW p \in Processes, Finish(p), UNCHANGED <<txs, attested>>
  PROVE  MemoriesFit'
<1>1. Fits(AtRest, txs', attested')
  BY HashFacts DEF Fits
<1>2. QED  BY <1>1, HashFacts, OneMemory DEF Finish

\* A process that has a hash goes on to what it knows enough for.
LEMMA BecomeFits ==
  ASSUME MemoriesFit, NEW p \in Processes, process[p].hash # NoHash,
         NEW pc \in {"polling", "receiving", "waiting"}, Become(p, pc),
         pc = "polling" \/ BurnOf(p) \in attested,
         UNCHANGED <<txs, attested>>
  PROVE  MemoriesFit'
<1> DEFINE memory == [process[p] EXCEPT !.pc = pc]
<1>1. process[p] \in Process /\ Fits(process[p], txs, attested)
  BY DEF MemoriesFit
<1>2. /\ memory \in Process
      /\ memory.pc = pc /\ memory.hash = process[p].hash /\ memory.amount = process[p].amount
  BY <1>1 DEF Process
<1>3. process' = [process EXCEPT ![p] = memory]
  BY DEF Become
<1> HIDE DEF memory
<1>4. Fits(memory, txs', attested')
  BY <1>1, <1>2 DEF Fits, BurnOf
<1>5. QED  BY <1>2, <1>3, <1>4, OneMemory

\* A process sets out, to burn this amount or to redeem this hash.
LEMMA StartFits ==
  ASSUME MemoriesFit, NEW p \in Processes, NEW memory \in Process,
         \/ memory.pc = "burning" /\ memory.hash = NoHash
         \/ memory.pc = "polling" /\ memory.hash # NoHash /\ memory.amount = 0,
         process' = [process EXCEPT ![p] = memory], UNCHANGED <<txs, attested>>
  PROVE  MemoriesFit'
<1>1. Fits(memory, txs', attested')
  BY HashFacts DEF Fits
<1>2. QED  BY <1>1, OneMemory

\* A transaction in flight lands or is dropped; whoever has its hash keeps it,
\* and nobody was receiving its burn.
LEMMA SettledFits ==
  ASSUME BridgeTypeOK, NEW h \in Hashes, txs[h].burn = Pending, NEW tx,
         tx = NoTx \/ tx.amount = txs[h].amount,
         txs' = [txs EXCEPT ![h] = tx], UNCHANGED <<process, attested>>
  PROVE  MemoriesFit'
<1>1. MemoriesFit /\ txs \in [Hashes -> Tx(DOMAIN burns)] /\ Pending \notin attested
  BY BurnFacts, BridgeTypeSplit DEF TxsFit
<1>2. txs'[h] = tx /\ \A g \in Hashes \ {h} : txs'[g] = txs[g]
  BY <1>1
<1>3. txs[h] # NoTx
  BY TxFacts, HashFacts
<1>4. ASSUME NEW p \in Processes
      PROVE  process[p] \in Process /\ Fits(process[p], txs', attested)
  <2>1. process[p] \in Process /\ Fits(process[p], txs, attested)
    BY <1>1 DEF MemoriesFit
  <2>2. process[p].hash \in Hashes \union {NoHash}
    BY <2>1 DEF Process
  <2>3. CASE process[p].hash = h
    BY <1>1, <1>2, <1>3, <2>1, <2>3 DEF Fits
  <2>4. CASE process[p].hash # h
    BY <1>2, <2>1, <2>2, <2>4, HashFacts DEF Fits
  <2>5. QED  BY <2>1, <2>3, <2>4
<1>5. QED  BY <1>1, <1>4 DEF MemoriesFit

LEMMA BridgeTypeInit == BridgeInit => BridgeTypeOK
<1> SUFFICES ASSUME BridgeInit PROVE BridgeTypeOK
  OBVIOUS
<1>1. TypeOK
  BY TypeInit DEF BridgeInit
<1>2. burns = << >> /\ Len(burns) = 0 /\ burns \in Seq(Burn) /\ DOMAIN burns = {}
  BY EmptySeq DEF BridgeInit
<1>3. MemoriesFit
  BY HashFacts DEF BridgeInit, MemoriesFit, Fits
<1>4. TxsFit
  BY <1>2 DEF BridgeInit, TxsFit, Tx
<1>5. QED
  BY <1>1, <1>2, <1>3, <1>4, HashFacts, BridgeTypeSplit DEF BridgeInit, Init

\* A process that sends no burn, and logs or presents at most what it has.
LEMMA QuietType ==
  ASSUME BridgeTypeOK, NEW p \in Processes, MemoriesFit',
         UNCHANGED <<contract, solana, attested>>,
         \/ UNCHANGED logged
         \/ process[p].hash # NoHash /\ logged' = logged \union {process[p].hash},
         \/ UNCHANGED mempool
         \/ BurnOf(p) \in attested /\ mempool' = mempool \union {<<p, BurnOf(p)>>},
         faults' \in {faults, faults + 1}
  PROVE  BridgeTypeOK'
<1>1. /\ UNCHANGED <<admin, manager, transferTo, balances, used_nonces, forwarded>>
      /\ UNCHANGED <<vault, rescued, burns, purse, destination, accepting, txs, attested>>
  BY DEF contract, vars, roles, solana, proxy_vault
<1>2. TypeOK' /\ TxsFit'
  BY <1>1, BridgeTypeSplit DEF TypeOK, TxsFit
<1>3. process[p] \in Process
  BY BridgeTypeSplit DEF MemoriesFit
<1>4. logged' \subseteq Hashes
  BY <1>3, BridgeTypeSplit DEF Process
<1>5. mempool' \subseteq Processes \X attested'
  BY <1>1, BridgeTypeSplit
<1>6. /\ {purse', vault', rescued', faults'} \subseteq Nat
      /\ purse' + vault' + rescued' + Len(burns') <= Supply
      /\ burns' \in Seq(Burn)
  BY <1>1, BridgeTypeSplit
<1>7. QED  BY <1>1, <1>2, <1>4, <1>5, <1>6, BridgeTypeSplit, BridgeTypeNext

\* The steps of a process.
LEMMA StartType ==
  ASSUME BridgeTypeOK, NEW p \in Processes, NEW memory \in Process,
         \/ memory.pc = "burning" /\ memory.hash = NoHash
         \/ memory.pc = "polling" /\ memory.hash # NoHash /\ memory.amount = 0,
         process' = [process EXCEPT ![p] = memory],
         UNCHANGED <<contract, solana, logged, attested, mempool, faults>>
  PROVE  BridgeTypeOK'
<1>1. UNCHANGED <<txs, attested>> /\ MemoriesFit
  BY BridgeTypeSplit DEF solana
<1>2. MemoriesFit'
  BY <1>1, StartFits
<1>3. QED  BY <1>2, QuietType

LEMMA FinishType ==
  ASSUME BridgeTypeOK, NEW p \in Processes, Finish(p),
         UNCHANGED <<contract, solana, logged, attested, mempool>>, faults' \in {faults, faults + 1}
  PROVE  BridgeTypeOK'
<1>1. UNCHANGED <<txs, attested>> /\ MemoriesFit
  BY BridgeTypeSplit DEF solana
<1>2. MemoriesFit'
  BY <1>1, FinishFits
<1>3. QED  BY <1>2, QuietType

LEMMA BecomeType ==
  ASSUME BridgeTypeOK, NEW p \in Processes, Report(p) \/ Fetch(p) \/ SubmitReceive(p)
  PROVE  BridgeTypeOK'
<1>1. UNCHANGED <<txs, attested>> /\ MemoriesFit
  BY BridgeTypeSplit DEF Report, Fetch, SubmitReceive, solana
<1>2. Fits(process[p], txs, attested)
  BY <1>1 DEF MemoriesFit
<1>3. process[p].hash # NoHash
  BY <1>2 DEF Report, Fetch, SubmitReceive, Fits
<1>4. SubmitReceive(p) => BurnOf(p) \in attested
  BY <1>2 DEF SubmitReceive, Fits, BurnOf
<1>5. \E pc \in {"polling", "receiving", "waiting"} :
        Become(p, pc) /\ (pc = "polling" \/ BurnOf(p) \in attested)
  BY <1>4 DEF Report, Fetch, SubmitReceive
<1>6. MemoriesFit'
  BY <1>1, <1>3, <1>5, BecomeFits
<1>7. QED  BY <1>3, <1>4, <1>6, QuietType DEF Report, Fetch, SubmitReceive

\* The hash of a transaction that is sent is nobody else's.
LEMMA NewHashIsFresh ==
  ASSUME NEW p \in Processes, SubmitBurn(p)
  PROVE  NewHash \in Hashes /\ Fresh(NewHash)
<1>1. \E h \in Hashes : Fresh(h)
  BY DEF SubmitBurn
<1> HIDE DEF Fresh
<1>2. QED  BY <1>1 DEF NewHash

LEMMA SubmitBurnType ==
  ASSUME BridgeTypeOK, NEW p \in Processes, SubmitBurn(p)
  PROVE  BridgeTypeOK'
<1> DEFINE h == NewHash
           sent == [amount |-> process[p].amount, burn |-> Pending]
           memory == [process[p] EXCEPT !.pc = "confirming", !.hash = h]
<1>1. /\ h \in Hashes /\ txs[h].burn = NoBurn
      /\ \A q \in Processes : process[q].hash # h
  BY NewHashIsFresh DEF Fresh
<1>2. /\ UNCHANGED <<admin, manager, transferTo, balances, used_nonces, forwarded>>
      /\ UNCHANGED <<vault, rescued, burns, purse, destination, accepting, attested>>
      /\ UNCHANGED <<logged, mempool, faults>>
  BY DEF SubmitBurn, contract, vars, roles, proxy_vault
<1>3. TypeOK' /\ MemoriesFit /\ process[p] \in Process
  BY <1>2, BridgeTypeSplit DEF TypeOK, MemoriesFit
<1>4. process[p].amount \in 1..Supply
  BY <1>3, HashFacts DEF SubmitBurn, CanBurn, Process
<1>5. /\ memory \in Process /\ memory.pc = "confirming" /\ memory.hash = h
      /\ memory.amount = process[p].amount
  BY <1>1, <1>3 DEF Process
<1>6. /\ txs' = [txs EXCEPT ![h] = sent]
      /\ process' = [process EXCEPT ![p] = memory]
  BY <1>3 DEF SubmitBurn, MemoriesFit, Process
<1>7. txs \in [Hashes -> Tx(DOMAIN burns)]
  BY BridgeTypeSplit DEF TxsFit
<1>8. txs'[h] = sent /\ \A g \in Hashes \ {h} : txs'[g] = txs[g]
  BY <1>1, <1>6, <1>7
<1>9. sent \in Tx(DOMAIN burns) /\ sent.burn = Pending /\ sent.amount = process[p].amount
  BY <1>4 DEF Tx
<1> HIDE DEF h, sent, memory
<1>10. TxsFit'
  <2>1. txs' \in [Hashes -> Tx(DOMAIN burns)]
    BY <1>6, <1>7, <1>9
  <2>2. ASSUME NEW k \in DOMAIN burns
        PROVE  \E g \in Hashes :
                 /\ txs'[g] = [amount |-> burns[k].amount, burn |-> k]
                 /\ \A e \in Hashes \ {g} : txs'[e].burn # k
    <3>1. PICK g \in Hashes : /\ txs[g] = [amount |-> burns[k].amount, burn |-> k]
                              /\ \A e \in Hashes \ {g} : txs[e].burn # k
      BY BridgeTypeSplit DEF TxsFit
    <3>2. k # NoBurn /\ k # Pending
      BY BurnFacts
    <3>3. txs[g].burn = k
      BY <3>1
    <3>4. g # h /\ txs'[g] = txs[g]
      BY <1>1, <1>8, <3>2, <3>3
    <3>5. \A e \in Hashes \ {g} : txs'[e].burn # k
      BY <1>8, <1>9, <3>1, <3>2
    <3>6. QED  BY <3>1, <3>4, <3>5
  <2>3. QED  BY <1>2, <2>1, <2>2 DEF TxsFit
<1>11. Fits(memory, txs', attested')
  BY <1>1, <1>4, <1>5, <1>8, <1>9, HashFacts DEF Fits
<1>12. ASSUME NEW q \in Processes, Fits(process[q], txs, attested)
       PROVE  Fits(process[q], txs', attested')
  <2>1. process[q].hash # h /\ process[q].hash \in Hashes \union {NoHash}
    BY <1>1, <1>3 DEF MemoriesFit, Process
  <2>2. process[q].hash # NoHash => txs'[process[q].hash] = txs[process[q].hash]
    BY <1>8, <2>1
  <2>3. QED  BY <1>2, <1>12, <2>2, HashFacts DEF Fits
<1>13. MemoriesFit'
  BY <1>3, <1>5, <1>6, <1>11, <1>12, OneMemory
<1>14. QED  BY <1>2, <1>3, <1>10, <1>13, BridgeTypeSplit, BridgeTypeNext

LEMMA ScriptType ==
  ASSUME BridgeTypeOK, NEW p \in Processes, TickReads(p) \/ OperatorNext(p) \/ ScriptNext(p)
  PROVE  BridgeTypeOK'
<1>1. CASE TickReads(p)
  <2> DEFINE memory == [AtRest EXCEPT !.pc = "burning", !.amount = vault]
  <2>1. vault \in 0..Supply
    BY BurnFacts, HashFacts DEF BridgeTypeOK
  <2>2. memory \in Process /\ memory.pc = "burning" /\ memory.hash = NoHash
    BY <2>1, HashFacts DEF Process
  <2>3. process' = [process EXCEPT ![p] = memory]
    BY <1>1 DEF TickReads
  <2> HIDE DEF memory
  <2>4. QED  BY <1>1, <2>2, <2>3, StartType DEF TickReads
<1>2. ASSUME NEW amount \in OperatorAmounts, StartBridge(p, amount)
      PROVE  BridgeTypeOK'
  <2> DEFINE memory == [AtRest EXCEPT !.pc = "burning", !.amount = amount]
  <2>1. amount \in 0..Supply
    BY HashFacts, BridgeAssumption
  <2>2. memory \in Process /\ memory.pc = "burning" /\ memory.hash = NoHash
    BY <2>1, HashFacts DEF Process
  <2>3. process' = [process EXCEPT ![p] = memory]
    BY <1>2 DEF StartBridge
  <2> HIDE DEF memory
  <2>4. QED  BY <1>2, <2>2, <2>3, StartType DEF StartBridge
<1>3. ASSUME NEW h \in Hashes, StartRedeem(p, h)
      PROVE  BridgeTypeOK'
  <2> DEFINE memory == [AtRest EXCEPT !.pc = "polling", !.hash = h]
  <2>1. /\ memory \in Process /\ memory.pc = "polling" /\ memory.hash = h /\ memory.amount = 0
        /\ h # NoHash
    BY HashFacts DEF Process, AtRest
  <2>2. process' = [process EXCEPT ![p] = memory]
    BY <1>3 DEF StartRedeem
  <2> HIDE DEF memory
  <2>3. QED  BY <1>3, <2>1, <2>2, StartType DEF StartRedeem
<1>4. CASE SubmitBurn(p)
  BY <1>4, SubmitBurnType
<1>5. CASE Report(p) \/ Fetch(p) \/ SubmitReceive(p)
  BY <1>5, BecomeType
<1>6. CASE \/ BurnRefused(p) \/ BurnFails(p) \/ TimeOut(p) \/ FetchFails(p) \/ ReceiveFails(p)
           \/ Halt(p) \/ LoseAnswer(p)
  BY <1>6, FinishType DEF BurnRefused, BurnFails, TimeOut, FetchFails, ReceiveFails, Halt,
                          LoseAnswer
<1>7. QED
  BY <1>1, <1>2, <1>3, <1>4, <1>5, <1>6, BridgeTypeSplit DEF OperatorNext, ScriptNext

-----------------------------------------------------------------------------
\* The steps of the chains and of the attestation service.
\* A burn is added to those that were made.
LEMMA Landed ==
  ASSUME BridgeTypeOK, NEW h \in Hashes, Land(h)
  PROVE  LET made == [amount |-> txs[h].amount, destination |-> destination]
         IN  /\ made \in Burn
             /\ burns' = Append(burns, made) /\ burns' \in Seq(Burn)
             /\ Len(burns') = Len(burns) + 1
             /\ DOMAIN burns' = DOMAIN burns \union {Len(burns')} /\ Len(burns') \notin DOMAIN burns
             /\ burns'[Len(burns')] = made
             /\ \A k \in DOMAIN burns : burns'[k] = burns[k]
             /\ txs[h].amount \in 1..Supply /\ txs[h].amount <= vault /\ vault' = vault - txs[h].amount
             /\ Len(burns') \in 1..Supply
<1> DEFINE made == [amount |-> txs[h].amount, destination |-> destination]
<1>1. /\ txs[h].amount \in 1..Supply /\ txs[h].amount <= vault /\ vault' = vault - txs[h].amount
      /\ destination \in VaultDestinations
      /\ burns' = Append(burns, made)
  BY TxFacts, HashFacts, BridgeTypeSplit DEF Land, CanBurn
<1>2. made \in Burn
  BY <1>1 DEF Burn
<1>3. /\ burns \in Seq(Burn) /\ Len(burns) \in Nat /\ DOMAIN burns = 1..Len(burns)
      /\ {purse, vault, rescued} \subseteq Nat
      /\ purse + vault + rescued + Len(burns) <= Supply
  BY BurnFacts, BridgeTypeSplit
<1> HIDE DEF made
<1>4. /\ burns' \in Seq(Burn)
      /\ Len(burns') = Len(burns) + 1
      /\ burns'[Len(burns) + 1] = made
      /\ \A i \in 1..Len(burns) : burns'[i] = burns[i]
  BY <1>1, <1>2, <1>3, AppendProperties
<1>5. DOMAIN burns' = 1..Len(burns')
  BY <1>4, LenProperties
<1>6. Len(burns') \in 1..Supply
  <2>1. /\ txs[h].amount \in Nat /\ 1 <= txs[h].amount /\ txs[h].amount <= vault /\ Supply \in Nat
        /\ purse \in Nat /\ vault \in Nat /\ rescued \in Nat
    BY <1>1, <1>3, HashFacts
  <2>2. Len(burns) + 1 <= Supply
    BY <1>3, <2>1
  <2>3. QED  BY <1>3, <1>4, <2>1, <2>2
<1>7. QED  BY <1>1, <1>2, <1>3, <1>4, <1>5, <1>6 DEF made

LEMMA LandedTxs ==
  ASSUME BridgeTypeOK, NEW h \in Hashes, Land(h)
  PROVE  TxsFit' /\ MemoriesFit'
<1> DEFINE n == Len(burns')
           tx == [amount |-> txs[h].amount, burn |-> n]
<1>1. /\ DOMAIN burns' = DOMAIN burns \union {n} /\ n \notin DOMAIN burns
      /\ burns'[n].amount = txs[h].amount
      /\ \A k \in DOMAIN burns : burns'[k] = burns[k]
      /\ n \in 1..Supply
  <2>1. /\ DOMAIN burns' = DOMAIN burns \union {n} /\ n \notin DOMAIN burns
        /\ burns'[n] = [amount |-> txs[h].amount, destination |-> destination]
        /\ \A k \in DOMAIN burns : burns'[k] = burns[k]
        /\ n \in 1..Supply
    BY Landed
  <2> HIDE DEF n
  <2>2. QED  BY <2>1
<1>2. /\ txs \in [Hashes -> Tx(DOMAIN burns)] /\ txs[h].burn = Pending
      /\ txs[h].amount \in 1..Supply
  BY TxFacts, BridgeTypeSplit DEF TxsFit, Land
<1>3. [txs[h] EXCEPT !.burn = n] = tx
  BY <1>2, TxFacts, HashFacts DEF Tx
<1>4. txs' = [txs EXCEPT ![h] = tx]
  BY <1>2, <1>3 DEF Land
<1>5. tx \in Tx(DOMAIN burns') /\ tx.burn = n /\ tx.amount = txs[h].amount
  BY <1>1, <1>2 DEF Tx
<1>6. n # Pending /\ n # NoBurn
  BY <1>1, HashFacts
<1>7. tx = [amount |-> burns'[n].amount, burn |-> n]
  BY <1>1
<1> HIDE DEF n, tx
<1>8. txs'[h] = tx /\ \A g \in Hashes \ {h} : txs'[g] = txs[g]
  BY <1>2, <1>4
<1>9. txs' \in [Hashes -> Tx(DOMAIN burns')]
  BY <1>1, <1>2, <1>4, <1>5 DEF Tx
<1>10. ASSUME NEW k \in DOMAIN burns'
       PROVE  \E g \in Hashes :
                /\ txs'[g] = [amount |-> burns'[k].amount, burn |-> k]
                /\ \A e \in Hashes \ {g} : txs'[e].burn # k
  <2>1. CASE k = n
    <3>1. \A e \in Hashes \ {h} : txs'[e].burn # n
      BY <1>1, <1>6, <1>8, TxFacts
    <3>2. QED  BY <1>7, <1>8, <2>1, <3>1
  <2>2. CASE k # n
    <3>1. k \in DOMAIN burns /\ burns'[k] = burns[k]
      BY <1>1, <2>2
    <3>2. PICK g \in Hashes : /\ txs[g] = [amount |-> burns[k].amount, burn |-> k]
                              /\ \A e \in Hashes \ {g} : txs[e].burn # k
      BY <3>1, BridgeTypeSplit DEF TxsFit
    <3>3. txs[g].burn = k /\ k # Pending
      BY <3>1, <3>2, BurnFacts
    <3>4. g # h /\ txs'[g] = txs[g]
      BY <1>2, <1>8, <3>3
    <3>5. \A e \in Hashes \ {g} : txs'[e].burn # k
      BY <1>5, <1>8, <2>2, <3>2
    <3>6. QED  BY <3>1, <3>2, <3>4, <3>5
  <2>3. QED  BY <2>1, <2>2
<1>11. TxsFit'
  BY <1>9, <1>10 DEF TxsFit
<1>12. MemoriesFit'
  BY <1>2, <1>4, <1>5, SettledFits DEF Land
<1>13. QED  BY <1>11, <1>12

LEMMA LandType ==
  ASSUME BridgeTypeOK, NEW h \in Hashes, Land(h)
  PROVE  BridgeTypeOK'
<1>1. /\ burns' \in Seq(Burn) /\ Len(burns') = Len(burns) + 1
      /\ DOMAIN burns \subseteq DOMAIN burns'
      /\ txs[h].amount \in 1..Supply /\ txs[h].amount <= vault
      /\ vault' = vault - txs[h].amount
  BY Landed
<1>2. /\ UNCHANGED <<admin, manager, transferTo, balances, used_nonces, forwarded>>
      /\ UNCHANGED <<purse, rescued, logged, attested, mempool, faults, destination, accepting>>
  BY DEF Land, contract, vars, roles
<1>3. TypeOK' /\ TxsFit' /\ MemoriesFit'
  BY <1>2, LandedTxs, BridgeTypeSplit DEF TypeOK
<1>4. /\ {purse, vault, rescued} \subseteq Nat /\ Len(burns) \in Nat
      /\ purse + vault + rescued + Len(burns) <= Supply
  BY BurnFacts, BridgeTypeSplit
<1>5. /\ {purse', vault', rescued'} \subseteq Nat
      /\ purse' + vault' + rescued' + Len(burns') <= Supply
  <2> DEFINE amount == txs[h].amount
             made == Len(burns)
  <2>1. /\ amount \in Nat /\ 1 <= amount /\ amount <= vault /\ vault' = vault - amount
        /\ Supply \in Nat /\ made \in Nat /\ Len(burns') = made + 1
        /\ purse + vault + rescued + made <= Supply
    BY <1>1, <1>4, HashFacts
  <2> HIDE DEF amount, made
  <2>2. purse \in Nat /\ vault \in Nat /\ rescued \in Nat
    BY <1>4
  <2>3. vault' \in Nat /\ vault' + 1 <= vault
    BY <2>1, <2>2
  <2>4. purse + vault' + rescued + (made + 1) <= Supply
    BY <2>1, <2>2, <2>3
  <2>5. QED  BY <1>2, <2>1, <2>2, <2>3, <2>4
<1>6. QED  BY <1>1, <1>2, <1>3, <1>5, BridgeTypeSplit, BridgeTypeNext

LEMMA DropType ==
  ASSUME BridgeTypeOK, NEW h \in Hashes, Drop(h)
  PROVE  BridgeTypeOK'
<1>1. /\ UNCHANGED <<admin, manager, transferTo, balances, used_nonces, forwarded>>
      /\ UNCHANGED <<purse, vault, rescued, burns, logged, attested, mempool, faults>>
      /\ UNCHANGED <<destination, accepting, process>>
      /\ txs' = [txs EXCEPT ![h] = NoTx] /\ txs[h].burn = Pending
  BY DEF Drop, contract, vars, roles, proxy_vault
<1>2. TypeOK' /\ txs \in [Hashes -> Tx(DOMAIN burns)]
  BY <1>1, BridgeTypeSplit DEF TypeOK, TxsFit
<1>3. txs'[h] = NoTx /\ \A g \in Hashes \ {h} : txs'[g] = txs[g]
  BY <1>1, <1>2
<1>4. ASSUME NEW k \in DOMAIN burns
      PROVE  \E g \in Hashes :
               /\ txs'[g] = [amount |-> burns[k].amount, burn |-> k]
               /\ \A e \in Hashes \ {g} : txs'[e].burn # k
  <2>1. PICK g \in Hashes : /\ txs[g] = [amount |-> burns[k].amount, burn |-> k]
                            /\ \A e \in Hashes \ {g} : txs[e].burn # k
    BY BridgeTypeSplit DEF TxsFit
  <2>2. txs[g].burn = k /\ k # Pending /\ k # NoBurn
    BY <2>1, BurnFacts
  <2>3. g # h /\ txs'[g] = txs[g]
    BY <1>1, <1>3, <2>2
  <2>4. \A e \in Hashes \ {g} : txs'[e].burn # k
    BY <1>3, <2>1, <2>2, HashFacts
  <2>5. QED  BY <2>1, <2>3, <2>4
<1>5. txs' \in [Hashes -> Tx(DOMAIN burns)]
  BY <1>1, <1>2 DEF Tx
<1>6. TxsFit'
  BY <1>1, <1>4, <1>5 DEF TxsFit
<1>7. MemoriesFit'
  BY <1>1, SettledFits
<1>8. QED  BY <1>1, <1>2, <1>6, <1>7, BridgeTypeSplit, BridgeTypeNext

\* Tokens that come into the vault, or are taken out by its admin.
LEMMA VaultType ==
  ASSUME BridgeTypeOK, NEW amount \in Nat,
         \/ amount <= purse /\ Fund(amount)
         \/ amount <= vault /\ RescueVault(amount)
  PROVE  BridgeTypeOK'
<1>1. /\ UNCHANGED <<admin, manager, transferTo, balances, used_nonces, forwarded>>
      /\ UNCHANGED <<burns, destination, accepting, txs, process, logged, attested, mempool,
                    faults>>
  BY DEF Fund, RescueVault, contract, vars, roles
<1>2. TypeOK' /\ MemoriesFit' /\ TxsFit'
  BY <1>1, BridgeTypeSplit DEF TypeOK, MemoriesFit, TxsFit
<1>3. /\ purse \in Nat /\ vault \in Nat /\ rescued \in Nat /\ Len(burns) \in Nat
      /\ purse + vault + rescued + Len(burns) <= Supply
      /\ Supply \in Nat
  BY BurnFacts, HashFacts, BridgeTypeSplit
<1>4. /\ purse' \in Nat /\ vault' \in Nat /\ rescued' \in Nat
      /\ purse' + vault' + rescued' = purse + vault + rescued
  BY <1>3 DEF Fund, RescueVault
<1>5. purse' + vault' + rescued' + Len(burns') <= Supply
  BY <1>1, <1>3, <1>4
<1>6. QED  BY <1>1, <1>2, <1>4, <1>5, BridgeTypeSplit, BridgeTypeNext

LEMMA SettingsType ==
  ASSUME BridgeTypeOK,
         \/ \E new_destination \in VaultDestinations : SetDestination(new_destination)
         \/ \E new_accepting \in Accepting : SetAccepting(new_accepting)
  PROVE  BridgeTypeOK'
<1>1. /\ UNCHANGED <<admin, manager, transferTo, balances, used_nonces, forwarded>>
      /\ UNCHANGED <<vault, rescued, burns, purse, txs, process, logged, attested, mempool, faults>>
      /\ destination' \in VaultDestinations /\ accepting' \in Accepting
  BY BridgeTypeSplit DEF SetDestination, SetAccepting, contract, vars, roles, proxy_vault
<1>2. TypeOK' /\ MemoriesFit' /\ TxsFit'
  BY <1>1, BridgeTypeSplit DEF TypeOK, MemoriesFit, TxsFit
<1>3. QED  BY <1>1, <1>2, BridgeTypeSplit, BridgeTypeNext

LEMMA AttestType ==
  ASSUME BridgeTypeOK, NEW k \in DOMAIN burns, Attest(k)
  PROVE  BridgeTypeOK'
<1>1. /\ UNCHANGED <<admin, manager, transferTo, balances, used_nonces, forwarded>>
      /\ UNCHANGED <<vault, rescued, burns, purse, destination, accepting, txs, process, logged,
                    mempool, faults>>
      /\ attested' = attested \union {k}
  BY DEF Attest, contract, vars, roles, solana, proxy_vault
<1>2. TypeOK' /\ TxsFit'
  BY <1>1, BridgeTypeSplit DEF TypeOK, TxsFit
<1>3. MemoriesFit'
  <2>1. MemoriesFit
    BY BridgeTypeSplit
  <2>2. QED  BY <1>1, <2>1 DEF MemoriesFit, Fits
<1>4. QED  BY <1>1, <1>2, <1>3, BridgeTypeSplit, BridgeTypeNext

\* What becomes of the nonces, and of what is in flight to the EVM chain.
LEMMA UsedNonces ==
  ASSUME BridgeTypeOK, [BridgeNext]_bridge_vars
  PROVE  used_nonces' \subseteq used_nonces \union attested
<1>1. \A k \in attested : MessageOf(k).nonce = k
  BY BurnFacts, BridgeTypeSplit
<1>2. ASSUME NEW p \in Processes, NEW k \in attested, MineReceive(p, k)
      PROVE  used_nonces' \subseteq used_nonces \union attested
  BY <1>1, <1>2 DEF MineReceive, receiveMessageAndForward
<1>3. CASE OthersOnEvm
  <2>1. \/ UNCHANGED used_nonces
        \/ \E m \in {MessageOf(k) : k \in attested} : used_nonces' = used_nonces \union {m.nonce}
    BY <1>3 DEF OthersOnEvm, NextBy, setAdmin, setManager, setTransferTo, rescue_transfer, Transfer,
                receiveMessageAndForward, ReceiveDirectly
  <2>2. QED  BY <1>1, <2>1
<1>4. CASE UNCHANGED contract
  BY <1>4 DEF contract, vars
<1>5. QED  BY <1>2, <1>3, <1>4, ContractStep

LEMMA ContractType ==
  ASSUME BridgeTypeOK,
         \/ \E p \in Processes, k \in DOMAIN burns : MineReceive(p, k) \/ MineRevert(p, k)
         \/ OthersOnEvm
  PROVE  BridgeTypeOK'
<1>1. [BridgeNext]_bridge_vars
  BY DEF BridgeNext, ChainNext
<1>2. TypeOK' /\ used_nonces' \subseteq attested
  BY <1>1, BridgeTypeSplit, ContractNext, TypeStep, UsedNonces
<1>3. /\ UNCHANGED <<vault, rescued, burns, purse, destination, accepting, txs, logged, attested,
                    faults>>
      /\ mempool' \subseteq mempool
      /\ UNCHANGED process \/ \E p \in Processes : Finish(p)
  BY DEF MineReceive, MineRevert, Included, OthersOnEvm, solana, proxy_vault
<1>4. MemoriesFit'
  <2>1. MemoriesFit
    BY BridgeTypeSplit
  <2>2. CASE UNCHANGED process
    BY <1>3, <2>1, <2>2 DEF MemoriesFit
  <2>3. QED  BY <1>3, <2>1, <2>2, FinishFits
<1>5. TxsFit'
  BY <1>3, BridgeTypeSplit DEF TxsFit
<1>6. QED  BY <1>2, <1>3, <1>4, <1>5, BridgeTypeSplit, BridgeTypeNext

LEMMA BridgeTypeStep == BridgeTypeOK /\ [BridgeNext]_bridge_vars => BridgeTypeOK'
<1> SUFFICES ASSUME BridgeTypeOK, [BridgeNext]_bridge_vars
             PROVE  BridgeTypeOK'
  OBVIOUS
<1>1. ASSUME NEW p \in Processes, TickReads(p) \/ OperatorNext(p) \/ ScriptNext(p)
      PROVE  BridgeTypeOK'
  BY <1>1, ScriptType
<1>2. CASE ChainNext
  <2>1. ASSUME NEW h \in Hashes, Land(h) \/ Drop(h)
        PROVE  BridgeTypeOK'
    BY <2>1, LandType, DropType
  <2>2. ASSUME NEW amount \in 1..purse, Fund(amount)
        PROVE  BridgeTypeOK'
    BY <2>2, VaultType, BridgeTypeSplit
  <2>3. ASSUME NEW amount \in 1..vault, RescueVault(amount)
        PROVE  BridgeTypeOK'
    BY <2>3, VaultType, BridgeTypeSplit
  <2>4. QED  BY <1>2, <2>1, <2>2, <2>3, SettingsType, AttestType, ContractType DEF ChainNext
<1>3. CASE UNCHANGED bridge_vars
  <2>1. /\ UNCHANGED <<admin, manager, transferTo, balances, used_nonces, forwarded>>
        /\ UNCHANGED <<vault, rescued, burns, purse, destination, accepting, txs, attested>>
        /\ UNCHANGED <<process, logged, mempool, faults>>
    BY <1>3 DEF bridge_vars, contract, vars, roles, solana, proxy_vault
  <2>2. TypeOK' /\ MemoriesFit' /\ TxsFit'
    BY <2>1, BridgeTypeSplit DEF TypeOK, MemoriesFit, TxsFit
  <2>3. QED  BY <2>1, <2>2, BridgeTypeSplit, BridgeTypeNext
<1>4. QED  BY <1>1, <1>2, <1>3 DEF BridgeNext, Processes

\* Whatever is dropped, and whoever still holds or polls its hash: an amount of 0
\* is never burned, a process receives only a burn that is attested, each burn
\* is of one transaction and of its amount, and there are no more burns than
\* tokens.
THEOREM BridgeTypeCorrect == BridgeSpec => []BridgeTypeOK
BY BridgeTypeInit, BridgeTypeStep, PTL DEF BridgeSpec

\* Whatever daemons, operators and others do, the contract makes its own steps:
\* what is proved of it alone holds under the bridge.
THEOREM BridgeRunsContract == BridgeSpec => Spec
<1>1. BridgeInit => Init
  BY DEF BridgeInit
<1>2. BridgeTypeOK /\ [BridgeNext]_bridge_vars => [Next]_vars
  BY ContractNext
<1>3. QED  BY <1>1, <1>2, BridgeTypeCorrect, PTL DEF BridgeSpec, Spec

\* Presenting a message never spends what the contract holds, whoever of the
\* daemons, operators and others presents it, and in whatever order.
THEOREM BridgeNeverSpends == BridgeSpec => ReceivingNeverSpends
BY BridgeRunsContract, NothingSpent, PTL

-----------------------------------------------------------------------------
(***************************************************************************)
(* BridgedInFull.                                                          *)
(***************************************************************************)
\* A nonce is used, and a forward recorded, only by presenting a burn that is
\* attested.
LEMMA BridgeNonceSteps ==
  ASSUME BridgeTypeOK, [BridgeNext]_bridge_vars
  PROVE  \/ UNCHANGED <<used_nonces, forwarded>>
         \/ UNCHANGED burns /\ \E sender \in Accounts, token \in Tokens, k \in attested :
              receiveMessageAndForward(sender, token, MessageOf(k))
         \/ UNCHANGED burns /\ \E sender \in Accounts, k \in attested :
              ReceiveDirectly(sender, MessageOf(k))
<1>1. CASE UNCHANGED contract
  BY <1>1 DEF contract, vars
<1>2. ASSUME NEW p \in Processes, NEW k \in attested, MineReceive(p, k)
      PROVE  UNCHANGED burns /\ receiveMessageAndForward(EvmKey, Usdc, MessageOf(k))
  BY <1>2 DEF MineReceive, Included, solana, proxy_vault
<1>3. CASE OthersOnEvm
  <2>1. UNCHANGED burns /\ NextBy(EvmSenders, {MessageOf(k) : k \in attested})
    BY <1>3 DEF OthersOnEvm, solana, proxy_vault
  <2>2. \/ UNCHANGED <<used_nonces, forwarded>>
        \/ \E sender \in EvmSenders, token \in Tokens, m \in {MessageOf(k) : k \in attested} :
             receiveMessageAndForward(sender, token, m)
        \/ \E sender \in EvmSenders, m \in {MessageOf(k) : k \in attested} :
             ReceiveDirectly(sender, m)
    BY <2>1 DEF NextBy, setAdmin, setManager, setTransferTo, rescue_transfer, Transfer
  <2>3. QED  BY <2>1, <2>2, HashFacts
<1>4. QED  BY <1>1, <1>2, <1>3, ContractStep, HashFacts

\* A burn stays as it was made.
LEMMA BurnSteps ==
  ASSUME BridgeTypeOK, [BridgeNext]_bridge_vars
  PROVE  /\ DOMAIN burns \subseteq DOMAIN burns'
         /\ \A k \in DOMAIN burns : burns'[k] = burns[k]
<1>1. UNCHANGED burns \/ \E h \in Hashes : Land(h)
  <2>1. ASSUME NEW p \in Processes, TickReads(p) \/ OperatorNext(p) \/ ScriptNext(p)
        PROVE  UNCHANGED burns
    BY <2>1, ScriptSteps DEF proxy_vault
  <2>2. CASE ChainNext
    BY <2>2 DEF ChainNext, Drop, Fund, RescueVault, SetDestination, SetAccepting, Attest,
                MineReceive, MineRevert, Included, OthersOnEvm, solana, proxy_vault
  <2>3. CASE UNCHANGED bridge_vars
    BY <2>3 DEF bridge_vars, solana, proxy_vault
  <2>4. QED  BY <2>1, <2>2, <2>3 DEF BridgeNext, Processes
<1>2. QED  BY <1>1, Landed

LEMMA InFullStep ==
  BridgeTypeOK /\ BridgedInFull /\ [BridgeNext]_bridge_vars => BridgedInFull'
<1> SUFFICES ASSUME BridgeTypeOK, BridgedInFull, [BridgeNext]_bridge_vars,
                    NEW k \in DOMAIN burns',
                    burns'[k].destination = [recipient |-> Proxy, caller |-> Proxy],
                    k \in used_nonces'
             PROVE  /\ forwarded'[k] # NotForwarded
                    /\ forwarded'[k].token = Usdc => forwarded'[k].amount = burns'[k].amount
  BY DEF BridgedInFull
<1>1. TypeOK /\ used_nonces' \subseteq attested /\ attested \subseteq DOMAIN burns
  BY UsedNonces, BridgeTypeSplit
<1>2. k \in DOMAIN burns /\ burns'[k] = burns[k] /\ k \in Nonces
  BY <1>1, BurnSteps, BurnFacts
<1>3. k \in used_nonces /\ forwarded'[k] = forwarded[k] =>
        /\ forwarded'[k] # NotForwarded
        /\ forwarded'[k].token = Usdc => forwarded'[k].amount = burns'[k].amount
  BY <1>2 DEF BridgedInFull
<1>4. MessageOf(k).recipient = Proxy /\ MessageOf(k).caller = Proxy
      /\ MessageOf(k).token = Usdc /\ MessageOf(k).amount = burns'[k].amount
  BY <1>2 DEF MessageOf
<1>5. CASE UNCHANGED <<used_nonces, forwarded>>
  BY <1>3, <1>5
<1>6. ASSUME NEW sender \in Accounts, NEW token \in Tokens, NEW j \in attested,
             receiveMessageAndForward(sender, token, MessageOf(j))
      PROVE  /\ forwarded'[k] # NotForwarded
             /\ forwarded'[k].token = Usdc => forwarded'[k].amount = burns'[k].amount
  <2>1. MessageOf(j) \in Messages /\ MessageOf(j).nonce = j
    BY <1>1, BurnFacts
  <2> DEFINE m == MessageOf(j)
  <2>2. m \in Messages /\ receiveMessageAndForward(sender, token, m)
    BY <1>6, <2>1
  <2> HIDE DEF m
  <2>3. PICK amount \in Nat :
          /\ amount = IF token = m.token /\ m.recipient = Proxy THEN m.amount ELSE 0
          /\ forwarded' = [forwarded EXCEPT ![m.nonce] =
               [caller |-> sender, token |-> token, to |-> transferTo, amount |-> amount,
                message |-> m]]
    BY <1>1, <2>2, AmountForwarded
  <2>4. forwarded \in [Nonces -> MessageReceivedAndForwarded \union {NotForwarded}]
        /\ transferTo \in Addresses
    BY <1>1 DEF TypeOK
  <2>5. CASE j = k
    <3>1. forwarded'[k] =
            [caller |-> sender, token |-> token, to |-> transferTo, amount |-> amount,
             message |-> m]
      BY <1>2, <2>1, <2>3, <2>4, <2>5 DEF m
    <3>2. forwarded'[k] \in MessageReceivedAndForwarded
      BY <2>1, <2>4, <3>1, Facts DEF MessageReceivedAndForwarded, m
    <3>3. forwarded'[k].token = Usdc => forwarded'[k].amount = burns'[k].amount
      BY <1>4, <2>3, <2>5, <3>1 DEF m
    <3>4. QED  BY <3>2, <3>3, MessageAssumption
  <2>6. CASE j # k
    <3>1. k \in used_nonces
      BY <1>6, <2>1, <2>6 DEF receiveMessageAndForward
    <3>2. forwarded'[k] = forwarded[k]
      BY <1>2, <2>1, <2>3, <2>4, <2>6 DEF m
    <3>3. QED  BY <1>3, <3>1, <3>2
  <2>7. QED  BY <2>5, <2>6
<1>7. ASSUME NEW sender \in Accounts, NEW j \in attested, ReceiveDirectly(sender, MessageOf(j))
      PROVE  k \in used_nonces /\ forwarded'[k] = forwarded[k]
  <2>1. MessageOf(j).nonce = j
    BY <1>1, BurnFacts
  <2>2. j # k
    BY <1>4, <1>7, Facts DEF ReceiveDirectly, Receivable
  <2>3. QED  BY <1>7, <2>1, <2>2 DEF ReceiveDirectly
<1>8. QED  BY <1>3, <1>5, <1>6, <1>7, BridgeNonceSteps

\* Whoever presents it, and whatever the contract holds by then: a burn that
\* names the contract as recipient and caller is recorded as forwarded once it
\* is received, in full if it was presented with its own token.
THEOREM BurnsAreBridgedInFull == BridgeSpec => []BridgedInFull
<1>1. BridgeInit => BridgedInFull
  BY DEF BridgeInit, BridgedInFull
<1>2. QED  BY <1>1, InFullStep, BridgeTypeCorrect, PTL DEF BridgeSpec

-----------------------------------------------------------------------------
(***************************************************************************)
(* VaultSteps: the daemon's vault behaves as the deposit proxy promises.   *)
(***************************************************************************)
LEMMA VaultCases ==
  ASSUME [BridgeNext]_bridge_vars
  PROVE  \/ UNCHANGED <<vault, destination, burns>>
         \/ \E h \in Hashes : Land(h)
         \/ \E amount \in 1..purse : Fund(amount)
         \/ \E amount \in 1..vault : RescueVault(amount)
         \/ \E new_destination \in VaultDestinations : SetDestination(new_destination)
<1>1. ASSUME NEW p \in Processes, TickReads(p) \/ OperatorNext(p) \/ ScriptNext(p)
      PROVE  UNCHANGED <<vault, destination, burns>>
  BY <1>1, ScriptSteps DEF proxy_vault
<1>2. CASE ChainNext
  BY <1>2 DEF ChainNext, Drop, SetAccepting, Attest, MineReceive, MineRevert, Included,
              OthersOnEvm, solana, proxy_vault
<1>3. CASE UNCHANGED bridge_vars
  BY <1>3 DEF bridge_vars, solana, proxy_vault
<1>4. QED  BY <1>1, <1>2, <1>3 DEF BridgeNext, Processes

\* The burns as the ledger sees them.
LedgerBurns ==
  [k \in DOMAIN burns |->
     [owner |-> Proxy, amount |-> burns[k].amount, destination |-> burns[k].destination]]

LedgerBurn == [owner: {Proxy}, amount: 1..Supply, destination: VaultDestinations]

LEMMA OneMoreLedgerBurn ==
  ASSUME BridgeTypeOK, NEW h \in Hashes, Land(h)
  PROVE  LedgerBurns' = Append(LedgerBurns, [owner |-> Proxy, amount |-> txs[h].amount,
                                             destination |-> destination])
<1> DEFINE made == [amount |-> txs[h].amount, destination |-> destination]
           last == [owner |-> Proxy, amount |-> txs[h].amount, destination |-> destination]
<1>1. /\ burns \in Seq(Burn) /\ Len(burns) \in Nat /\ DOMAIN burns = 1..Len(burns)
      /\ \A k \in DOMAIN burns : burns[k] \in Burn
  BY BurnFacts
<1>2. /\ made \in Burn /\ burns' \in Seq(Burn) /\ Len(burns') = Len(burns) + 1
      /\ burns'[Len(burns) + 1] = made
      /\ \A k \in DOMAIN burns : burns'[k] = burns[k]
  BY Landed
<1>3. last \in LedgerBurn
  BY <1>2 DEF LedgerBurn, Burn
<1>4. LedgerBurns \in Seq(LedgerBurn) /\ Len(LedgerBurns) = Len(burns)
  BY <1>1 DEF LedgerBurns, LedgerBurn, Burn
<1>5. LedgerBurns' = [k \in 1..(Len(burns) + 1) |->
        [owner |-> Proxy, amount |-> burns'[k].amount, destination |-> burns'[k].destination]]
  BY <1>2, LenProperties DEF LedgerBurns
<1>6. /\ \A k \in 1..Len(burns) : LedgerBurns'[k] = LedgerBurns[k]
      /\ LedgerBurns'[Len(burns) + 1] = last
  <2>1. ASSUME NEW k \in 1..Len(burns)
        PROVE  LedgerBurns'[k] = LedgerBurns[k]
    <3>1. k \in 1..(Len(burns) + 1) /\ burns'[k] = burns[k]
      BY <1>1, <1>2
    <3>2. QED  BY <1>1, <1>5, <3>1 DEF LedgerBurns
  <2>2. Len(burns) + 1 \in 1..(Len(burns) + 1)
    BY <1>1
  <2>3. LedgerBurns'[Len(burns) + 1] = last
    BY <1>2, <1>5, <2>2
  <2>4. QED  BY <2>1, <2>3
<1> HIDE DEF last, made
<1>7. LedgerBurns' \in Seq(LedgerBurn) /\ Len(LedgerBurns') = Len(burns) + 1
  <2>1. \A k \in 1..(Len(burns) + 1) : LedgerBurns'[k] \in LedgerBurn
    BY <1>1, <1>3, <1>4, <1>6, ElementOfSeq
  <2>2. QED  BY <1>1, <1>5, <2>1
<1>8. /\ Append(LedgerBurns, last) \in Seq(LedgerBurn)
      /\ Len(Append(LedgerBurns, last)) = Len(burns) + 1
      /\ \A k \in 1..Len(burns) : Append(LedgerBurns, last)[k] = LedgerBurns[k]
      /\ Append(LedgerBurns, last)[Len(burns) + 1] = last
  BY <1>3, <1>4, AppendProperties
<1>9. LedgerBurns' = Append(LedgerBurns, last)
  BY <1>1, <1>6, <1>7, <1>8, SeqEqual
<1>10. QED  BY <1>9 DEF last

LEMMA VaultStep ==
  ASSUME BridgeTypeOK, [BridgeNext]_bridge_vars
  PROVE  [Vault!Next]_<<vault, destination, burns>>
<1>1. /\ destination \in VaultDestinations /\ destination # NotForwarded
      /\ vault \in Nat /\ purse \in Nat
  BY BridgeTypeSplit, BridgeAssumption
<1>2. ASSUME NEW h \in Hashes, Land(h)
      PROVE  Vault!Burn(Proxy)
  <2>1. /\ txs[h].amount \in Nat /\ txs[h].amount > 0 /\ vault' = vault - txs[h].amount /\ UNCHANGED destination
    <3>1. txs[h].amount \in 1..Supply /\ vault' = vault - txs[h].amount
      BY <1>2, Landed
    <3>2. UNCHANGED destination
      BY <1>2 DEF Land
    <3>3. QED  BY <3>1, <3>2, HashFacts
  <2>2. vault' < vault /\ vault - vault' = txs[h].amount
    BY <1>1, <2>1
  <2>3. LedgerBurns' = Append(LedgerBurns, [owner |-> Proxy, amount |-> vault - vault',
                                            destination |-> destination])
    BY <1>2, <2>2, OneMoreLedgerBurn
  <2>4. QED  BY <1>1, <2>1, <2>2, <2>3 DEF Vault!Burn, LedgerBurns
<1>3. ASSUME NEW amount \in 1..purse, Fund(amount)
      PROVE  Vault!Fund
  BY <1>1, <1>3 DEF Fund, Vault!Fund
<1>4. ASSUME NEW amount \in 1..vault, RescueVault(amount)
      PROVE  Vault!Withdraw(Proxy)
  BY <1>1, <1>4 DEF RescueVault, Vault!Withdraw
<1>5. ASSUME NEW new_destination \in VaultDestinations, SetDestination(new_destination)
      PROVE  Vault!SetDestination(Proxy)
  BY <1>1, <1>5, BridgeAssumption DEF SetDestination, Vault!SetDestination, proxy_vault
<1>6. QED  BY <1>2, <1>3, <1>4, <1>5, VaultCases DEF Vault!Next

\* Each step of the bridge is one of the vault's ledger: what leaves the vault
\* is in one burn, to the destination of the moment it lands, or was rescued.
THEOREM KeepsVaultSteps == BridgeSpec => VaultSteps
<1>1. BridgeTypeOK /\ [BridgeNext]_bridge_vars => [Vault!Next]_<<vault, destination, burns>>
  BY VaultStep
<1>2. QED  BY <1>1, BridgeTypeCorrect, PTL DEF BridgeSpec, VaultSteps

-----------------------------------------------------------------------------
(***************************************************************************)
(* BurnsAreLogged.  A burn is forgotten when neither the log nor a process *)
(* that sent its transaction names its hash; so may be a transaction in    *)
(* flight, which has yet to become a burn.  Only a crash or a lost answer  *)
(* forgets one, because a process that waits for the attestation or the    *)
(* receipt of its own burn has logged the hash.                            *)
(***************************************************************************)
Forgotten == {h \in Hashes : txs[h].burn # NoBurn /\ ~Known(h)}

\* What a process may go on with, by the log; redeeming needs no log.
Logs(memory, names) ==
  memory.pc \in {"polling", "receiving", "waiting"} /\ memory.amount # 0
    => memory.hash \in names

PolledAreLogged == \A p \in Processes : Logs(process[p], logged)

LogInv == PolledAreLogged /\ Cardinality(Forgotten) <= faults

LEMMA ForgottenFinite == IsFiniteSet(Forgotten) /\ Cardinality(Forgotten) \in Nat
<1>1. Forgotten \subseteq Hashes
  BY DEF Forgotten
<1>2. QED  BY <1>1, FiniteAssumption, FS_Subset, FS_CardinalityType

\* Forgotten hashes are no more than before, and one more with each fault.
LEMMA ForgottenGrows ==
  ASSUME BridgeTypeOK, LogInv, PolledAreLogged',
         \/ Forgotten' \subseteq Forgotten /\ faults' = faults
         \/ faults' = faults + 1 /\ \E h : Forgotten' \subseteq Forgotten \union {h}
  PROVE  LogInv'
<1> DEFINE count == Cardinality(Forgotten)
           next == Cardinality(Forgotten')
<1>1. count \in Nat /\ count <= faults /\ faults \in Nat
  BY ForgottenFinite, BridgeTypeSplit DEF LogInv
<1>2. CASE Forgotten' \subseteq Forgotten /\ faults' = faults
  <2>1. next \in Nat /\ next <= count
    BY <1>2, ForgottenFinite, FS_Subset, FS_CardinalityType
  <2> HIDE DEF count, next
  <2>2. next <= faults'
    BY <1>1, <1>2, <2>1
  <2>3. QED  BY <2>2 DEF LogInv, next
<1>3. ASSUME NEW h, Forgotten' \subseteq Forgotten \union {h}, faults' = faults + 1
      PROVE  LogInv'
  <2>1. /\ IsFiniteSet(Forgotten \union {h})
        /\ Cardinality(Forgotten \union {h}) \in {count, count + 1}
    BY ForgottenFinite, FS_AddElement
  <2>2. next \in Nat /\ next <= Cardinality(Forgotten \union {h})
    BY <1>3, <2>1, FS_Subset, FS_CardinalityType
  <2> HIDE DEF count, next
  <2>3. next <= faults'
    BY <1>1, <1>3, <2>1, <2>2
  <2>4. QED  BY <2>3 DEF LogInv, next
<1>4. QED  BY <1>2, <1>3

\* What a process does to its memory and to the log.  Without a fault it gives
\* up no hash of its own but one that is logged or has no burn.
Remembers(p, memory) ==
  /\ process' = [process EXCEPT ![p] = memory]
  /\ logged \subseteq logged'
  /\ Logs(memory, logged')
  /\ \/ UNCHANGED txs
     \/ memory.amount # 0 /\ \A g \in Hashes \ {memory.hash} : txs'[g] = txs[g]
  /\ \/ faults' = faults + 1
     \/ /\ faults' = faults
        /\ \/ process[p].hash \in logged' \union {NoHash}
           \/ process[p].amount = 0
           \/ process[p].hash = memory.hash /\ memory.amount # 0
           \/ BurnOf(p) = NoBurn

LEMMA ScriptRemembers ==
  ASSUME BridgeTypeOK, PolledAreLogged, NEW p \in Processes,
         TickReads(p) \/ OperatorNext(p) \/ ScriptNext(p)
  PROVE  \E memory : Remembers(p, memory)
<1>1. /\ process \in [Processes -> Process] /\ process[p] \in Process
      /\ Fits(process[p], txs, attested)
      /\ txs \in [Hashes -> Tx(DOMAIN burns)]
  BY BridgeTypeSplit DEF MemoriesFit, TxsFit
<1>2. /\ Logs(process[p], logged)
      /\ AtRest.pc = "asleep" /\ AtRest.hash = NoHash /\ AtRest.amount = 0
  BY HashFacts DEF PolledAreLogged
<1>3. CASE TickReads(p)
  <2> DEFINE memory == [AtRest EXCEPT !.pc = "burning", !.amount = vault]
  <2>1. memory.pc = "burning" /\ process[p].hash = NoHash
    BY <1>1, <1>2, <1>3, HashFacts DEF TickReads, Fits, Process
  <2>2. process' = [process EXCEPT ![p] = memory]
    BY <1>3 DEF TickReads
  <2> HIDE DEF memory
  <2>3. Remembers(p, memory)
    BY <1>3, <2>1, <2>2 DEF TickReads, Remembers, Logs, solana
  <2>4. QED  BY <2>3
<1>4. ASSUME NEW amount \in OperatorAmounts, StartBridge(p, amount)
      PROVE  \E memory : Remembers(p, memory)
  <2> DEFINE memory == [AtRest EXCEPT !.pc = "burning", !.amount = amount]
  <2>1. memory.pc = "burning" /\ process[p].hash = NoHash
    BY <1>1, <1>2, <1>4, HashFacts DEF StartBridge, Fits, Process
  <2>2. process' = [process EXCEPT ![p] = memory]
    BY <1>4 DEF StartBridge
  <2> HIDE DEF memory
  <2>3. Remembers(p, memory)
    BY <1>4, <2>1, <2>2 DEF StartBridge, Remembers, Logs, solana
  <2>4. QED  BY <2>3
<1>5. ASSUME NEW h, StartRedeem(p, h)
      PROVE  \E memory : Remembers(p, memory)
  <2> DEFINE memory == [AtRest EXCEPT !.pc = "polling", !.hash = h]
  <2>1. memory.amount = 0 /\ process[p].hash = NoHash
    BY <1>1, <1>2, <1>5, HashFacts DEF StartRedeem, Fits, Process, AtRest
  <2>2. process' = [process EXCEPT ![p] = memory]
    BY <1>5 DEF StartRedeem
  <2> HIDE DEF memory
  <2>3. Remembers(p, memory)
    BY <1>5, <2>1, <2>2 DEF StartRedeem, Remembers, Logs, solana
  <2>4. QED  BY <2>3
<1>6. CASE SubmitBurn(p)
  <2> DEFINE memory == [process[p] EXCEPT !.pc = "confirming", !.hash = NewHash]
  <2>1. /\ memory.pc = "confirming" /\ memory.hash = NewHash
        /\ memory.amount = process[p].amount
        /\ process' = [process EXCEPT ![p] = memory]
    BY <1>1, <1>6 DEF Process, SubmitBurn
  <2>2. process[p].amount # 0 /\ process[p].hash = NoHash /\ UNCHANGED <<logged, faults>>
    BY <1>1, <1>6, HashFacts DEF SubmitBurn, CanBurn, Fits, Process
  <2>3. \A g \in Hashes \ {NewHash} : txs'[g] = txs[g]
    BY <1>1, <1>6 DEF SubmitBurn
  <2> HIDE DEF memory
  <2>4. Remembers(p, memory)
    BY <2>1, <2>2, <2>3 DEF Remembers, Logs
  <2>5. QED  BY <2>4
<1>7. CASE Report(p) \/ Fetch(p) \/ SubmitReceive(p)
  <2>1. PICK pc \in {"polling", "receiving", "waiting"} : Become(p, pc)
    BY <1>7 DEF Report, Fetch, SubmitReceive
  <2> DEFINE memory == [process[p] EXCEPT !.pc = pc]
  <2>2. /\ memory.hash = process[p].hash /\ memory.amount = process[p].amount
        /\ process' = [process EXCEPT ![p] = memory]
    BY <1>1, <2>1 DEF Become, Process
  <2> HIDE DEF memory
  <2>3. process[p].amount # 0 => process[p].hash \in logged'
    BY <1>2, <1>7 DEF Report, Fetch, SubmitReceive, Logs
  <2>4. UNCHANGED <<txs, faults>> /\ logged \subseteq logged'
    BY <1>7 DEF Report, Fetch, SubmitReceive, solana
  <2>5. Remembers(p, memory)
    BY <2>2, <2>3, <2>4 DEF Remembers, Logs
  <2>6. QED  BY <2>5
<1>8. CASE BurnRefused(p) \/ BurnFails(p) \/ TimeOut(p) \/ FetchFails(p) \/ ReceiveFails(p)
  <2>1. \/ process[p].hash \in logged \union {NoHash}
        \/ process[p].amount = 0
        \/ BurnOf(p) = NoBurn
    BY <1>1, <1>2, <1>8 DEF BurnRefused, BurnFails, TimeOut, FetchFails, ReceiveFails, Fits, Logs
  <2>2. UNCHANGED <<txs, faults, logged>> /\ Finish(p)
    BY <1>8 DEF BurnRefused, BurnFails, TimeOut, FetchFails, ReceiveFails, solana
  <2>3. Remembers(p, AtRest)
    BY <1>2, <2>1, <2>2 DEF Finish, Remembers, Logs
  <2>4. QED  BY <2>3
<1>9. CASE Halt(p) \/ LoseAnswer(p)
  <2>1. UNCHANGED <<txs, logged>> /\ Finish(p) /\ faults' = faults + 1
    BY <1>9 DEF Halt, LoseAnswer, solana
  <2>2. Remembers(p, AtRest)
    BY <1>2, <2>1 DEF Finish, Remembers, Logs
  <2>3. QED  BY <2>2
<1>10. QED
  BY <1>3, <1>4, <1>5, <1>6, <1>7, <1>8, <1>9 DEF OperatorNext, ScriptNext

LEMMA RemembersKeepsLog ==
  ASSUME BridgeTypeOK, LogInv, NEW p \in Processes, NEW memory, Remembers(p, memory)
  PROVE  LogInv'
<1>1. process \in [Processes -> Process] /\ faults \in Nat
  BY BridgeTypeSplit DEF MemoriesFit
<1>2. /\ process'[p] = memory
      /\ \A q \in Processes \ {p} : process'[q] = process[q]
      /\ logged \subseteq logged'
  BY <1>1 DEF Remembers
<1>3. PolledAreLogged'
  BY <1>2 DEF Remembers, LogInv, PolledAreLogged, Logs
<1>4. ASSUME NEW h, Known(h), ~Known(h)'
      PROVE  /\ h = process[p].hash /\ process[p].amount # 0 /\ h \notin logged'
             /\ ~ (h = memory.hash /\ memory.amount # 0)
  BY <1>2, <1>4 DEF Known, Redeeming
<1>5. memory.amount # 0 => Known(memory.hash)'
  BY <1>2 DEF Known, Redeeming
<1>6. ASSUME NEW h \in Forgotten', h \notin Forgotten
      PROVE  /\ h = process[p].hash /\ process[p].amount # 0 /\ h \notin logged' /\ h # NoHash
             /\ ~ (h = memory.hash /\ memory.amount # 0)
             /\ BurnOf(p) # NoBurn
  <2>1. h \in Hashes /\ txs'[h].burn # NoBurn /\ ~Known(h)'
    BY DEF Forgotten
  <2>2. txs'[h] = txs[h]
    BY <1>5, <2>1 DEF Remembers
  <2>3. Known(h)
    BY <1>6, <2>1, <2>2 DEF Forgotten
  <2>4. QED  BY <1>4, <2>1, <2>2, <2>3, HashFacts DEF BurnOf
<1>7. CASE faults' = faults + 1
  <2>1. Forgotten' \subseteq Forgotten \union {process[p].hash}
    BY <1>6
  <2>2. QED  BY <1>3, <1>7, <2>1, ForgottenGrows
<1>8. CASE /\ faults' = faults
           /\ \/ process[p].hash \in logged' \union {NoHash}
              \/ process[p].amount = 0
              \/ process[p].hash = memory.hash /\ memory.amount # 0
              \/ BurnOf(p) = NoBurn
  <2>1. Forgotten' \subseteq Forgotten
    BY <1>6, <1>8
  <2>2. QED  BY <1>3, <1>8, <2>1, ForgottenGrows
<1>9. QED  BY <1>7, <1>8 DEF Remembers

\* A transaction that lands or is dropped changes nothing of who knows its hash.
LEMMA SettledKeepsLog ==
  ASSUME BridgeTypeOK, LogInv, NEW h \in Hashes, Land(h) \/ Drop(h)
  PROVE  LogInv'
<1>1. /\ UNCHANGED <<process, logged, faults>> /\ txs[h].burn = Pending
      /\ \E tx : txs' = [txs EXCEPT ![h] = tx]
  BY DEF Land, Drop
<1>2. \A g \in Hashes \ {h} : txs'[g] = txs[g]
  BY <1>1, BridgeTypeSplit DEF TxsFit
<1>3. PolledAreLogged' /\ \A g : Known(g)' <=> Known(g)
  BY <1>1 DEF LogInv, PolledAreLogged, Known, Redeeming
<1>4. Forgotten' \subseteq Forgotten
  BY <1>1, <1>2, <1>3, HashFacts DEF Forgotten
<1>5. QED  BY <1>1, <1>3, <1>4, ForgottenGrows

LEMMA LogStep == BridgeTypeOK /\ LogInv /\ [BridgeNext]_bridge_vars => LogInv'
<1> SUFFICES ASSUME BridgeTypeOK, LogInv, [BridgeNext]_bridge_vars
             PROVE  LogInv'
  OBVIOUS
<1>1. ASSUME NEW p \in Processes, TickReads(p) \/ OperatorNext(p) \/ ScriptNext(p)
      PROVE  LogInv'
  BY <1>1, ScriptRemembers, RemembersKeepsLog DEF LogInv
<1>2. CASE UNCHANGED <<process, logged, txs, faults>>
  BY <1>2 DEF LogInv, PolledAreLogged, Forgotten, Known, Redeeming
<1>3. ASSUME NEW p \in Processes, NEW k, MineReceive(p, k) \/ MineRevert(p, k)
      PROVE  LogInv'
  <2>1. UNCHANGED <<logged, txs, faults>>
    BY <1>3 DEF MineReceive, MineRevert, Included, solana
  <2>2. CASE UNCHANGED process
    BY <1>2, <2>1, <2>2
  <2>3. CASE process[p].pc = "waiting" /\ Finish(p)
    <3>1. process[p].amount = 0 \/ process[p].hash \in logged
      BY <2>3 DEF LogInv, PolledAreLogged, Logs
    <3>2. Remembers(p, AtRest)
      BY <2>1, <2>3, <3>1, HashFacts DEF Finish, Remembers, Logs
    <3>3. QED  BY <3>2, RemembersKeepsLog
  <2>4. QED  BY <1>3, <2>2, <2>3 DEF MineReceive, MineRevert, Included
<1>4. CASE ChainNext
  <2>1. \/ UNCHANGED <<process, logged, txs, faults>>
        \/ \E h \in Hashes : Land(h) \/ Drop(h)
        \/ \E p \in Processes, k \in DOMAIN burns : MineReceive(p, k) \/ MineRevert(p, k)
    BY <1>4 DEF ChainNext, Fund, RescueVault, SetDestination, SetAccepting, Attest, OthersOnEvm,
                solana
  <2>2. QED  BY <1>2, <1>3, <2>1, SettledKeepsLog
<1>5. CASE UNCHANGED bridge_vars
  BY <1>2, <1>5 DEF bridge_vars, solana
<1>6. QED  BY <1>1, <1>4, <1>5 DEF BridgeNext, Processes

\* Each burn that nobody knows is of a transaction that nobody knows.
LEMMA LogInvLogs == BridgeTypeOK /\ LogInv => BurnsAreLogged
<1> SUFFICES ASSUME BridgeTypeOK, LogInv
             PROVE  BurnsAreLogged
  OBVIOUS
<1> DEFINE lost == {k \in DOMAIN burns : \A h \in Hashes : txs[h].burn = k => ~Known(h)}
           hash == [k \in lost |-> CHOOSE h \in Hashes : txs[h].burn = k]
<1>1. ASSUME NEW k \in lost
      PROVE  hash[k] \in Forgotten /\ txs[hash[k]].burn = k
  <2>1. \E h \in Hashes : txs[h].burn = k
    <3>1. PICK h \in Hashes : txs[h] = [amount |-> burns[k].amount, burn |-> k]
      BY BridgeTypeSplit DEF TxsFit
    <3>2. QED  BY <3>1
  <2>2. hash[k] \in Hashes /\ txs[hash[k]].burn = k
    BY <2>1
  <2>3. k # NoBurn
    BY BurnFacts
  <2>4. QED  BY <2>2, <2>3 DEF Forgotten
<1> HIDE DEF hash
<1>2. hash \in Injection(lost, Forgotten)
  <2>1. hash \in [lost -> Forgotten]
    BY <1>1 DEF hash
  <2>2. \A j, k \in lost : hash[j] = hash[k] => j = k
    BY <1>1
  <2>3. QED  BY <2>1, <2>2 DEF Injection, IsInjective
<1>3. /\ Cardinality(lost) \in Nat /\ Cardinality(lost) <= Cardinality(Forgotten)
      /\ Cardinality(Forgotten) \in Nat /\ Cardinality(Forgotten) <= faults /\ faults \in Nat
  BY <1>2, ForgottenFinite, FS_Injection, FS_CardinalityType, BridgeTypeSplit DEF LogInv
<1> HIDE DEF lost
<1>4. Cardinality(lost) <= faults
  BY <1>3
<1>5. QED  BY <1>4 DEF BurnsAreLogged, lost

\* However the steps of the processes and of the chains interleave, and however
\* many transactions are dropped: no more burns are lost from the log and from
\* the memory of those that sent them than there were crashes and lost answers.
THEOREM NoBurnIsForgotten == BridgeSpec => []BurnsAreLogged
<1>1. BridgeInit => LogInv
  <2> SUFFICES ASSUME BridgeInit
               PROVE  LogInv
    OBVIOUS
  <2>1. PolledAreLogged
    BY HashFacts DEF BridgeInit, PolledAreLogged, Logs
  <2>2. Forgotten = {}
    BY HashFacts DEF BridgeInit, Forgotten
  <2>3. Cardinality(Forgotten) = 0
    BY <2>2, FS_EmptySet
  <2>4. QED  BY <2>1, <2>3 DEF BridgeInit, LogInv
<1>2. QED  BY <1>1, LogInvLogs, LogStep, BridgeTypeCorrect, PTL DEF BridgeSpec

-----------------------------------------------------------------------------
(***************************************************************************)
(* TokensConserved.                                                        *)
(***************************************************************************)
Unreceived == DOMAIN burns \ used_nonces

LEMMA SumFacts ==
  ASSUME BridgeTypeOK
  PROVE  /\ IsFiniteSet(Addresses)
         /\ balances \in Balances
         /\ \A a \in Addresses : balances[Usdc][a] \in Nat
         /\ SumFunctionOnSet(balances[Usdc], Addresses) \in Nat
         /\ IsFiniteSet(Unreceived)
         /\ \A k \in DOMAIN burns : BurnAmounts[k] = burns[k].amount /\ BurnAmounts[k] \in Nat
         /\ SumFunctionOnSet(BurnAmounts, Unreceived) \in Nat
         /\ {purse, vault, rescued} \subseteq Nat
<1>1. IsFiniteSet(Addresses)
  BY FiniteAssumption, FS_AddElement DEF Addresses
<1>2. balances \in Balances
  BY BridgeTypeSplit DEF TypeOK, Balances
<1>3. \A a \in Addresses : balances[Usdc][a] \in Nat
  BY <1>2, HashFacts DEF Balances
<1>4. SumFunctionOnSet(balances[Usdc], Addresses) \in Nat
  BY <1>1, <1>3, SumType
<1>5. IsFiniteSet(Unreceived)
  <2>1. IsFiniteSet(DOMAIN burns)
    BY BurnFacts, FS_Interval
  <2>2. QED  BY <2>1, FS_Subset DEF Unreceived
<1>6. \A k \in DOMAIN burns : BurnAmounts[k] = burns[k].amount /\ BurnAmounts[k] \in Nat
  BY BurnFacts, HashFacts DEF BurnAmounts, Burn
<1>7. \A k \in Unreceived : BurnAmounts[k] \in Nat
  BY <1>6 DEF Unreceived
<1>8. SumFunctionOnSet(BurnAmounts, Unreceived) \in Nat
  BY <1>5, <1>7, SumType
<1>9. QED  BY <1>1, <1>2, <1>3, <1>4, <1>5, <1>6, <1>8, BridgeTypeSplit

\* A transfer moves tokens and makes none.
LEMMA TransferConserves ==
  ASSUME IsFiniteSet(Addresses), NEW held \in Balances, NEW token \in Tokens,
         NEW from \in Addresses, NEW to \in Addresses, NEW amount \in Nat,
         amount <= held[token][from]
  PROVE  SumFunctionOnSet(Transferred(token, from, to, amount, held)[Usdc], Addresses)
           = SumFunctionOnSet(held[Usdc], Addresses)
<1> DEFINE f == held[Usdc]
           h == Transferred(token, from, to, amount, held)[Usdc]
           g == [a \in Addresses |-> IF a = from THEN f[a] - amount ELSE f[a]]
<1>1. \A a \in Addresses : f[a] \in Nat
  BY HashFacts DEF Balances
<1>2. \A a \in Addresses :
        h[a] = (f[a] - (IF Usdc = token /\ a = from THEN amount ELSE 0))
                 + (IF Usdc = token /\ a = to THEN amount ELSE 0)
  BY TransferredType, HashFacts
<1>3. Usdc = token => amount <= f[from]
  OBVIOUS
<1> HIDE DEF f, h
<1>4. CASE Usdc # token \/ from = to
  <2>1. \A a \in Addresses : h[a] = f[a]
    BY <1>1, <1>2, <1>4
  <2>2. SumFunctionOnSet(h, Addresses) = SumFunctionOnSet(f, Addresses)
    BY <2>1, SumSame
  <2>3. QED  BY <2>2 DEF f, h
<1>5. CASE Usdc = token /\ from # to
  <2>1. /\ \A a \in Addresses : g[a] \in Nat
        /\ g[from] = f[from] - amount
        /\ \A a \in Addresses \ {from} : g[a] = f[a]
    BY <1>1, <1>3, <1>5
  <2>2. /\ h[to] = g[to] + amount /\ h[to] \in Nat
        /\ \A a \in Addresses \ {to} : h[a] = g[a]
    BY <1>1, <1>2, <1>5
  <2> HIDE DEF g
  <2>3. SumFunctionOnSet(g, Addresses) = (SumFunctionOnSet(f, Addresses) - f[from]) + g[from]
    BY <1>1, <2>1, SumChanges
  <2>4. SumFunctionOnSet(h, Addresses) = (SumFunctionOnSet(g, Addresses) - g[to]) + h[to]
    BY <2>1, <2>2, SumChanges
  <2>5. f[from] \in Nat /\ g[to] \in Nat /\ SumFunctionOnSet(f, Addresses) \in Nat
    BY <1>1, <2>1, SumType
  <2>6. SumFunctionOnSet(h, Addresses) = SumFunctionOnSet(f, Addresses)
    BY <2>1, <2>2, <2>3, <2>4, <2>5
  <2>7. QED  BY <2>6 DEF f, h
<1>6. QED  BY <1>4, <1>5

\* Receiving a burn mints what it burned.
LEMMA MintAdds ==
  ASSUME BridgeTypeOK, NEW k \in DOMAIN burns
  PROVE  SumFunctionOnSet(Minted(MessageOf(k))[Usdc], Addresses)
           = SumFunctionOnSet(balances[Usdc], Addresses) + BurnAmounts[k]
<1> DEFINE m == MessageOf(k)
           f == balances[Usdc]
           h == Minted(m)[Usdc]
<1>1. /\ m \in Messages /\ m.token = Usdc /\ m.amount = BurnAmounts[k]
      /\ m.recipient \in Addresses /\ BurnAmounts[k] \in Nat
  BY BurnFacts, SumFacts, Facts DEF MessageOf
<1> HIDE DEF m
<1>2. \A a \in Addresses : h[a] = f[a] + (IF a = m.recipient THEN m.amount ELSE 0)
  BY <1>1, SumFacts, MintedType, HashFacts
<1>3. IsFiniteSet(Addresses) /\ \A a \in Addresses : f[a] \in Nat
  BY SumFacts
<1> HIDE DEF f, h
<1> DEFINE to == m.recipient
<1>4. h[to] = f[to] + BurnAmounts[k] /\ h[to] \in Nat /\ \A a \in Addresses \ {to} : h[a] = f[a]
  BY <1>1, <1>2, <1>3
<1>5. to \in Addresses
  BY <1>1
<1> HIDE DEF to
<1>6. SumFunctionOnSet(h, Addresses) = (SumFunctionOnSet(f, Addresses) - f[to]) + h[to]
  BY <1>3, <1>4, <1>5, SumChanges
<1>7. f[to] \in Nat /\ SumFunctionOnSet(f, Addresses) \in Nat
  BY <1>3, <1>5, SumType
<1>8. SumFunctionOnSet(h, Addresses) = SumFunctionOnSet(f, Addresses) + BurnAmounts[k]
  BY <1>1, <1>4, <1>6, <1>7
<1>9. QED  BY <1>8 DEF f, h, m

\* A burn that is received is no longer counted as one.
LEMMA ReceivedLeaves ==
  ASSUME BridgeTypeOK, NEW k \in Unreceived, used_nonces' = used_nonces \union {k},
         UNCHANGED burns
  PROVE  SumFunctionOnSet(BurnAmounts, Unreceived)
           = BurnAmounts[k] + SumFunctionOnSet(BurnAmounts', Unreceived')
<1>1. Unreceived' = Unreceived \ {k} /\ BurnAmounts' = BurnAmounts
  BY DEF Unreceived, BurnAmounts
<1>2. IsFiniteSet(Unreceived) /\ \A j \in Unreceived : BurnAmounts[j] \in Nat
  BY SumFacts DEF Unreceived
<1>3. SumFunctionOnSet(BurnAmounts, Unreceived)
        = BurnAmounts[k] + SumFunctionOnSet(BurnAmounts, Unreceived \ {k})
  BY <1>2, SumTakes
<1>4. QED  BY <1>1, <1>3

LEMMA LandedAdds ==
  ASSUME BridgeTypeOK, NEW h \in Hashes, Land(h)
  PROVE  SumFunctionOnSet(BurnAmounts', Unreceived')
           = SumFunctionOnSet(BurnAmounts, Unreceived) + txs[h].amount
<1> DEFINE k == Len(burns')
<1>1. /\ DOMAIN burns' = DOMAIN burns \union {k} /\ k \notin DOMAIN burns
      /\ burns'[k].amount = txs[h].amount
      /\ \A j \in DOMAIN burns : burns'[j] = burns[j]
      /\ txs[h].amount \in Nat
  <2>1. /\ DOMAIN burns' = DOMAIN burns \union {k} /\ k \notin DOMAIN burns
        /\ burns'[k] = [amount |-> txs[h].amount, destination |-> destination]
        /\ \A j \in DOMAIN burns : burns'[j] = burns[j]
        /\ txs[h].amount \in 1..Supply
    BY Landed
  <2> HIDE DEF k
  <2>2. QED  BY <2>1, HashFacts
<1> HIDE DEF k
<1>2. used_nonces' = used_nonces /\ k \notin used_nonces
  BY <1>1, BridgeTypeSplit DEF Land, contract, vars
<1>3. Unreceived' = Unreceived \union {k} /\ k \notin Unreceived
  BY <1>1, <1>2 DEF Unreceived
<1> DEFINE f == BurnAmounts'
<1>4. /\ f[k] = txs[h].amount
      /\ \A j \in DOMAIN burns : f[j] = BurnAmounts[j]
  BY <1>1 DEF BurnAmounts
<1>5. IsFiniteSet(Unreceived) /\ \A j \in Unreceived : f[j] = BurnAmounts[j] /\ f[j] \in Nat
  BY <1>4, SumFacts DEF Unreceived
<1> HIDE DEF f
<1>6. SumFunctionOnSet(f, Unreceived \union {k}) = SumFunctionOnSet(f, Unreceived) + f[k]
  BY <1>1, <1>3, <1>4, <1>5, SumAdds
<1>7. SumFunctionOnSet(f, Unreceived) = SumFunctionOnSet(BurnAmounts, Unreceived)
  BY <1>5, SumSame
<1>8. QED  BY <1>3, <1>4, <1>6, <1>7 DEF f

\* Where tokens move in a step.
LEMMA TokenCases ==
  ASSUME BridgeTypeOK, [BridgeNext]_bridge_vars
  PROVE  \/ UNCHANGED <<purse, vault, rescued, burns, used_nonces, balances>>
         \/ \E h \in Hashes : Land(h)
         \/ \E amount \in 1..purse : Fund(amount)
         \/ \E amount \in 1..vault : RescueVault(amount)
         \/ /\ UNCHANGED <<purse, vault, rescued, burns>>
            /\ \/ \E sender \in Accounts, token \in Tokens, k \in attested :
                    receiveMessageAndForward(sender, token, MessageOf(k))
               \/ \E sender \in Accounts, k \in attested : ReceiveDirectly(sender, MessageOf(k))
               \/ \E sender \in Accounts, token \in Tokens, to \in Addresses \union {Zero} :
                    \E amount \in 0..balances[token][Proxy] :
                      rescue_transfer(sender, token, to, amount)
               \/ \E sender \in Accounts, token \in Tokens, to \in Addresses :
                    \E amount \in 1..balances[token][sender] : Transfer(token, sender, to, amount)
<1>1. ASSUME NEW p \in Processes, TickReads(p) \/ OperatorNext(p) \/ ScriptNext(p)
      PROVE  UNCHANGED <<purse, vault, rescued, burns, used_nonces, balances>>
  BY <1>1, ScriptSteps DEF proxy_vault, contract, vars
<1>2. ASSUME NEW p \in Processes, NEW k, MineReceive(p, k)
      PROVE  /\ UNCHANGED <<purse, vault, rescued, burns>> /\ k \in attested
             /\ receiveMessageAndForward(EvmKey, Usdc, MessageOf(k))
  BY <1>2, BridgeTypeSplit DEF MineReceive, Included, solana, proxy_vault
<1>3. CASE OthersOnEvm
  <2>1. /\ UNCHANGED <<purse, vault, rescued, burns>>
        /\ NextBy(EvmSenders, {MessageOf(k) : k \in attested})
    BY <1>3 DEF OthersOnEvm, solana, proxy_vault
  <2>2. \/ UNCHANGED <<used_nonces, balances>>
        \/ \E sender \in EvmSenders, token \in Tokens, k \in attested :
             receiveMessageAndForward(sender, token, MessageOf(k))
        \/ \E sender \in EvmSenders, k \in attested : ReceiveDirectly(sender, MessageOf(k))
        \/ \E sender \in EvmSenders, token \in Tokens, to \in Addresses \union {Zero} :
             \E amount \in 0..balances[token][Proxy] : rescue_transfer(sender, token, to, amount)
        \/ \E sender \in EvmSenders, token \in Tokens, to \in Addresses :
             \E amount \in 1..balances[token][sender] : Transfer(token, sender, to, amount)
    BY <2>1 DEF NextBy, setAdmin, setManager, setTransferTo
  <2>3. QED  BY <2>1, <2>2, HashFacts
<1>4. CASE ChainNext
  <2>1. \/ UNCHANGED <<purse, vault, rescued, burns, used_nonces, balances>>
        \/ \E h \in Hashes : Land(h)
        \/ \E amount \in 1..purse : Fund(amount)
        \/ \E amount \in 1..vault : RescueVault(amount)
        \/ \E p \in Processes, k \in DOMAIN burns : MineReceive(p, k)
        \/ OthersOnEvm
    BY <1>4 DEF ChainNext, Drop, SetDestination, SetAccepting, Attest, MineRevert, Included,
                contract, vars, solana, proxy_vault
  <2>2. QED  BY <1>2, <1>3, <2>1, HashFacts
<1>5. CASE UNCHANGED bridge_vars
  BY <1>5 DEF bridge_vars, contract, vars, solana, proxy_vault
<1>6. QED  BY <1>1, <1>4, <1>5 DEF BridgeNext, Processes

LEMMA ConservedStep ==
  BridgeTypeOK /\ TokensConserved /\ [BridgeNext]_bridge_vars => TokensConserved'
<1> SUFFICES ASSUME BridgeTypeOK, TokensConserved, [BridgeNext]_bridge_vars
             PROVE  TokensConserved'
  OBVIOUS
<1> DEFINE unreceived == SumFunctionOnSet(BurnAmounts, Unreceived)
           minted == SumFunctionOnSet(balances[Usdc], Addresses)
<1>1. /\ unreceived \in Nat /\ minted \in Nat
      /\ purse \in Nat /\ vault \in Nat /\ rescued \in Nat
      /\ Supply = purse + vault + rescued + unreceived + minted
  BY SumFacts DEF TokensConserved, Unreceived
<1>2. TypeOK /\ balances \in Balances /\ IsFiniteSet(Addresses)
      /\ attested \subseteq DOMAIN burns
  BY SumFacts, BridgeTypeSplit
<1>3. ASSUME Supply = purse' + vault' + rescued' + unreceived' + minted'
      PROVE  TokensConserved'
  BY <1>3 DEF TokensConserved, Unreceived
<1>4. UNCHANGED <<burns, used_nonces>> => unreceived' = unreceived
  BY DEF Unreceived, BurnAmounts
<1>5. UNCHANGED balances => minted' = minted
  OBVIOUS
<1>6. CASE UNCHANGED <<purse, vault, rescued, burns, used_nonces, balances>>
  BY <1>1, <1>3, <1>4, <1>5, <1>6
<1>7. ASSUME NEW h \in Hashes, Land(h)
      PROVE  TokensConserved'
  <2>1. unreceived' = unreceived + txs[h].amount
    BY <1>7, LandedAdds
  <2>2. vault' = vault - txs[h].amount /\ txs[h].amount \in 1..Supply
    BY <1>7, Landed
  <2>3. txs[h].amount \in Nat
    BY <2>2, HashFacts
  <2>4. UNCHANGED <<purse, rescued, balances>>
    BY <1>7 DEF Land, contract, vars
  <2> HIDE DEF unreceived, minted
  <2>5. Supply = purse' + vault' + rescued' + unreceived' + minted'
    BY <1>1, <1>5, <2>1, <2>2, <2>3, <2>4
  <2>6. QED  BY <1>3, <2>5
<1>8. ASSUME NEW amount \in Nat, Fund(amount) \/ RescueVault(amount)
      PROVE  TokensConserved'
  <2>1. UNCHANGED <<burns, used_nonces, balances>>
    BY <1>8 DEF Fund, RescueVault, contract, vars
  <2>2. purse' + vault' + rescued' = purse + vault + rescued
    BY <1>1, <1>8 DEF Fund, RescueVault
  <2>3. unreceived' = unreceived /\ minted' = minted
    BY <1>4, <1>5, <2>1
  <2> HIDE DEF unreceived, minted
  <2>4. Supply = purse' + vault' + rescued' + unreceived' + minted'
    BY <1>1, <2>2, <2>3
  <2>5. QED  BY <1>3, <2>4
<1>9. ASSUME UNCHANGED <<purse, vault, rescued, burns>>, NEW k \in attested,
             k \notin used_nonces, used_nonces' = used_nonces \union {k},
             minted' = SumFunctionOnSet(Minted(MessageOf(k))[Usdc], Addresses)
      PROVE  TokensConserved'
  <2>1. k \in Unreceived /\ k \in DOMAIN burns
    BY <1>2, <1>9 DEF Unreceived
  <2>2. unreceived = BurnAmounts[k] + unreceived'
    BY <1>9, <2>1, ReceivedLeaves
  <2>3. minted' = minted + BurnAmounts[k]
    BY <1>9, <2>1, MintAdds
  <2>4. BurnAmounts[k] \in Nat
    BY <2>1, SumFacts
  <2>5. unreceived' \in Nat
    <3>1. \A j \in Unreceived' : BurnAmounts'[j] \in Nat
      BY <1>9, SumFacts DEF Unreceived, BurnAmounts
    <3>2. IsFiniteSet(Unreceived')
      BY <1>9, SumFacts, FS_Subset DEF Unreceived
    <3>3. QED  BY <3>1, <3>2, SumType
  <2> HIDE DEF unreceived, minted
  <2>6. Supply = purse' + vault' + rescued' + unreceived' + minted'
    BY <1>1, <1>9, <2>2, <2>3, <2>4, <2>5
  <2>7. QED  BY <1>3, <2>6
<1>10. ASSUME UNCHANGED <<purse, vault, rescued, burns>>, NEW sender \in Accounts,
              NEW token \in Tokens, NEW k \in attested,
              receiveMessageAndForward(sender, token, MessageOf(k))
       PROVE  TokensConserved'
  <2> DEFINE m == MessageOf(k)
  <2>1. m \in Messages /\ m.nonce = k
    BY <1>2, BurnFacts
  <2>2. k \notin used_nonces /\ used_nonces' = used_nonces \union {k}
    BY <1>10, <2>1 DEF receiveMessageAndForward, Receivable
  <2>3. receiveMessageAndForward(sender, token, m)
    BY <1>10
  <2> HIDE DEF m
  <2>4. PICK amount \in Nat :
          /\ amount <= Minted(m)[token][Proxy]
          /\ balances' = Transferred(token, Proxy, transferTo, amount, Minted(m))
    BY <1>2, <2>1, <2>3, AmountForwarded
  <2>5. Minted(m) \in Balances /\ Proxy \in Addresses /\ transferTo \in Addresses
    BY <1>2, <2>1, MintedType, Facts DEF TypeOK
  <2>6. minted' = SumFunctionOnSet(Minted(m)[Usdc], Addresses)
    BY <1>2, <2>4, <2>5, TransferConserves
  <2>7. QED  BY <1>9, <1>10, <2>2, <2>6 DEF m
<1>11. ASSUME UNCHANGED <<purse, vault, rescued, burns>>, NEW sender \in Accounts,
              NEW k \in attested, ReceiveDirectly(sender, MessageOf(k))
       PROVE  TokensConserved'
  <2>1. MessageOf(k).nonce = k
    BY <1>2, BurnFacts
  <2>2. /\ k \notin used_nonces /\ used_nonces' = used_nonces \union {k}
        /\ balances' = Minted(MessageOf(k))
    BY <1>11, <2>1 DEF ReceiveDirectly, Receivable
  <2>3. QED  BY <1>9, <1>11, <2>2
<1>12. ASSUME UNCHANGED <<purse, vault, rescued, burns, used_nonces>>, NEW token \in Tokens,
              NEW from \in Addresses, NEW to \in Addresses, NEW amount \in Nat,
              amount <= balances[token][from],
              balances' = Transferred(token, from, to, amount, balances)
       PROVE  TokensConserved'
  <2>1. minted' = minted
    BY <1>2, <1>12, TransferConserves
  <2>2. unreceived' = unreceived
    BY <1>4, <1>12
  <2> HIDE DEF unreceived, minted
  <2>3. QED  BY <1>1, <1>3, <1>12, <2>1, <2>2
<1>13. ASSUME UNCHANGED <<purse, vault, rescued, burns>>, NEW sender \in Accounts,
              NEW token \in Tokens, NEW to \in Addresses \union {Zero},
              NEW amount \in 0..balances[token][Proxy],
              rescue_transfer(sender, token, to, amount)
       PROVE  TokensConserved'
  <2>1. balances[token][Proxy] \in Nat /\ Proxy \in Addresses
    BY <1>2, Facts DEF Balances
  <2>2. amount \in Nat /\ amount <= balances[token][Proxy] /\ to \in Addresses
    BY <1>13, <2>1 DEF rescue_transfer
  <2>3. QED  BY <1>12, <1>13, <2>1, <2>2 DEF rescue_transfer
<1>14. ASSUME UNCHANGED <<purse, vault, rescued, burns>>, NEW sender \in Accounts,
              NEW token \in Tokens, NEW to \in Addresses,
              NEW amount \in 1..balances[token][sender], Transfer(token, sender, to, amount)
       PROVE  TokensConserved'
  <2>1. balances[token][sender] \in Nat /\ sender \in Addresses
    BY <1>2, Facts DEF Balances
  <2>2. amount \in Nat /\ amount <= balances[token][sender]
    BY <2>1
  <2>3. QED  BY <1>12, <1>14, <2>1, <2>2 DEF Transfer
<1>15. \A amount \in 1..purse : amount \in Nat
  BY <1>1
<1>16. \A amount \in 1..vault : amount \in Nat
  BY <1>1
<1> HIDE DEF unreceived, minted
<1>17. QED
  BY <1>6, <1>7, <1>8, <1>10, <1>11, <1>13, <1>14, <1>15, <1>16, TokenCases

\* Each token is in one place, through every interleaving, crash and retry:
\* outside the vault, in it, in a burn that has not been received, or with an
\* address of the EVM chain.  None is minted twice and none is lost.
THEOREM NoTokenIsLost == BridgeSpec => []TokensConserved
<1>1. BridgeInit => TokensConserved
  <2> SUFFICES ASSUME BridgeInit
               PROVE  TokensConserved
    OBVIOUS
  <2>1. BridgeTypeOK /\ Supply \in Nat
    BY BridgeTypeInit, HashFacts
  <2>2. /\ purse = Supply /\ vault = 0 /\ rescued = 0
        /\ burns = << >> /\ balances = InitialBalances
    BY DEF BridgeInit, Init
  <2>3. SumFunctionOnSet(BurnAmounts, DOMAIN burns \ used_nonces) = 0
    <3>1. DOMAIN burns \ used_nonces = {}
      BY <2>2
    <3>2. QED  BY <3>1, SumEmpty
  <2>4. SumFunctionOnSet(balances[Usdc], Addresses) = 0
    <3>1. \A a \in Addresses : balances[Usdc][a] = 0
      BY <2>2, HashFacts, BridgeAssumption
    <3>2. QED  BY <2>1, <3>1, SumFacts, SumOfZeros
  <2>5. QED  BY <2>1, <2>2, <2>3, <2>4 DEF TokensConserved
<1>2. QED  BY <1>1, ConservedStep, BridgeTypeCorrect, PTL DEF BridgeSpec
=============================================================================
