---------------------- MODULE EthCctpReceiveProxyProofs ----------------------
(***************************************************************************)
(* Proofs about EthCctpReceiveProxy, for any addresses, tokens, messages   *)
(* and initial balances.                                                   *)
(***************************************************************************)
EXTENDS EthCctpReceiveProxy, TLAPS

Balances == [Tokens -> [Addresses -> Nat]]

\* The parts of the properties' assumptions that most steps need.
LEMMA Facts ==
  /\ Zero \notin Addresses
  /\ Proxy \in Addresses /\ Proxy \notin Accounts
  /\ Accounts \subseteq Addresses
  /\ \A m \in Messages :
       /\ m.nonce \in Nonces
       /\ m.token \in Tokens
       /\ m.recipient \in Addresses
       /\ m.caller \in Addresses \union {Zero}
       /\ m.amount \in Nat
BY AddressAssumption, MessageAssumption DEF Addresses, Nonces, Message

\* A transfer of an amount that is held changes two balances of one token.
LEMMA TransferredType ==
  ASSUME NEW held \in Balances, NEW token \in Tokens, NEW from \in Addresses,
         NEW to \in Addresses, NEW amount \in Nat, amount <= held[token][from]
  PROVE  /\ Transferred(token, from, to, amount, held) \in Balances
         /\ \A t \in Tokens, a \in Addresses :
              Transferred(token, from, to, amount, held)[t][a] =
                (held[t][a] - (IF t = token /\ a = from THEN amount ELSE 0))
                  + (IF t = token /\ a = to THEN amount ELSE 0)
<1> DEFINE taken == [held EXCEPT ![token][from] = @ - amount]
           moved == [taken EXCEPT ![token][to] = @ + amount]
<1>1. \A t \in Tokens, a \in Addresses : held[t][a] \in Nat
  BY DEF Balances
<1>2. \A t \in Tokens, a \in Addresses :
        /\ taken[t][a] = held[t][a] - (IF t = token /\ a = from THEN amount ELSE 0)
        /\ taken[t][a] \in Nat
  BY <1>1 DEF Balances
<1>3. taken \in Balances
  BY <1>1, <1>2 DEF Balances
<1>4. \A t \in Tokens, a \in Addresses :
        moved[t][a] = taken[t][a] + (IF t = token /\ a = to THEN amount ELSE 0)
  BY <1>2, <1>3 DEF Balances
<1>5. moved \in Balances
  BY <1>2, <1>3 DEF Balances
<1>6. moved = Transferred(token, from, to, amount, held)
  BY DEF Transferred
<1> HIDE DEF moved, taken
<1>7. QED  BY <1>2, <1>4, <1>5, <1>6

\* Minting a message adds its amount to one balance.
LEMMA MintedType ==
  ASSUME balances \in Balances, NEW m \in Messages
  PROVE  /\ Minted(m) \in Balances
         /\ \A t \in Tokens, a \in Addresses :
              Minted(m)[t][a] =
                balances[t][a] + (IF t = m.token /\ a = m.recipient THEN m.amount ELSE 0)
BY Facts DEF Balances, Minted

\* What is passed on is what this message minted to the contract in the token
\* the sender chose; it is held, and leaves what was there before.
LEMMA AmountForwarded ==
  ASSUME TypeOK, NEW sender \in Accounts, NEW token \in Tokens, NEW m \in Messages,
         receiveMessageAndForward(sender, token, m)
  PROVE  \E amount \in Nat :
           /\ amount = IF token = m.token /\ m.recipient = Proxy THEN m.amount ELSE 0
           /\ amount <= Minted(m)[token][Proxy]
           /\ balances' = Transferred(token, Proxy, transferTo, amount, Minted(m))
           /\ forwarded' = [forwarded EXCEPT ![m.nonce] =
                [caller |-> sender, token |-> token, to |-> transferTo, amount |-> amount,
                 message |-> m]]
<1> DEFINE amount == ForwardedAmount(balances[token][Proxy], Minted(m)[token][Proxy])
<1>1. balances \in Balances
  BY DEF TypeOK, Balances
<1>2. balances[token][Proxy] \in Nat /\ m.amount \in Nat
  BY <1>1, Facts DEF Balances
<1>3. Minted(m)[token][Proxy] = balances[token][Proxy]
        + (IF token = m.token /\ m.recipient = Proxy THEN m.amount ELSE 0)
  BY <1>1, Facts, MintedType
<1>4. /\ amount = IF token = m.token /\ m.recipient = Proxy THEN m.amount ELSE 0
      /\ amount \in Nat
      /\ amount <= Minted(m)[token][Proxy]
  BY <1>2, <1>3 DEF ForwardedAmount
<1>5. QED  BY <1>4 DEF receiveMessageAndForward

LEMMA TypeInit == Init => TypeOK
BY Facts, AddressAssumption DEF Init, TypeOK

LEMMA TypeStep == TypeOK /\ [Next]_vars => TypeOK'
<1> SUFFICES ASSUME TypeOK, [Next]_vars
             PROVE  TypeOK'
  OBVIOUS
<1> USE Facts
<1>1. balances \in Balances
  BY DEF TypeOK, Balances
<1>2. ASSUME NEW sender \in Accounts, NEW account \in RoleAddresses \union {Zero},
             setAdmin(sender, account) \/ setManager(sender, account)
      PROVE  TypeOK'
  BY <1>2, AddressAssumption DEF TypeOK, setAdmin, setManager
<1>3. ASSUME NEW sender \in Accounts, NEW account \in ForwardAddresses \union {Zero},
             setTransferTo(sender, account)
      PROVE  TypeOK'
  BY <1>3, AddressAssumption DEF TypeOK, setTransferTo
<1>4. ASSUME NEW sender \in Accounts, NEW token \in Tokens, NEW m \in Messages,
             receiveMessageAndForward(sender, token, m)
      PROVE  TypeOK'
  <2>1. PICK amount \in Nat :
          /\ amount <= Minted(m)[token][Proxy]
          /\ balances' = Transferred(token, Proxy, transferTo, amount, Minted(m))
          /\ forwarded' = [forwarded EXCEPT ![m.nonce] =
               [caller |-> sender, token |-> token, to |-> transferTo, amount |-> amount,
                message |-> m]]
    BY <1>4, AmountForwarded
  <2>2. Minted(m) \in Balances /\ transferTo \in Addresses
    BY <1>1, MintedType DEF TypeOK
  <2>3. balances' \in Balances
    BY <2>1, <2>2, TransferredType
  <2>4. [caller |-> sender, token |-> token, to |-> transferTo, amount |-> amount,
         message |-> m] \in MessageReceivedAndForwarded
    BY <2>2 DEF MessageReceivedAndForwarded
  <2>5. forwarded' \in [Nonces -> MessageReceivedAndForwarded \union {NotForwarded}]
    BY <2>1, <2>4 DEF TypeOK
  <2>6. used_nonces' \subseteq Nonces /\ UNCHANGED roles
    BY <1>4 DEF TypeOK, receiveMessageAndForward
  <2>7. QED  BY <2>3, <2>5, <2>6 DEF TypeOK, Balances, roles
<1>5. ASSUME NEW sender \in Accounts, NEW token \in Tokens,
             NEW to \in Addresses \union {Zero}, NEW amount \in 0..balances[token][Proxy],
             rescue_transfer(sender, token, to, amount)
      PROVE  TypeOK'
  <2>1. balances[token][Proxy] \in Nat
    BY <1>1 DEF Balances
  <2>2. to \in Addresses /\ amount \in Nat /\ amount <= balances[token][Proxy]
    BY <1>5, <2>1 DEF rescue_transfer
  <2>3. balances' \in Balances
    BY <1>1, <1>5, <2>2, TransferredType DEF rescue_transfer
  <2>4. QED  BY <1>5, <2>3 DEF TypeOK, Balances, rescue_transfer, roles
<1>6. ASSUME NEW sender \in Accounts, NEW m \in Messages, ReceiveDirectly(sender, m)
      PROVE  TypeOK'
  <2>1. balances' \in Balances
    BY <1>1, <1>6, MintedType DEF ReceiveDirectly
  <2>2. QED  BY <1>6, <2>1 DEF TypeOK, Balances, ReceiveDirectly, roles
<1>7. ASSUME NEW sender \in Accounts, NEW token \in Tokens, NEW to \in Addresses,
             NEW amount \in 1..balances[token][sender], Transfer(token, sender, to, amount)
      PROVE  TypeOK'
  <2>1. balances[token][sender] \in Nat
    BY <1>1 DEF Balances
  <2>2. balances' \in Balances
    BY <1>1, <1>7, <2>1, TransferredType DEF Transfer
  <2>3. QED  BY <1>7, <2>2 DEF TypeOK, Balances, Transfer, roles
<1>8. CASE UNCHANGED vars
  BY <1>8 DEF TypeOK, vars, roles
<1>9. QED  BY <1>2, <1>3, <1>4, <1>5, <1>6, <1>7, <1>8 DEF Next, NextBy

\* Every variable keeps its type; no balance is overdrawn.
THEOREM TypeCorrect == Spec => []TypeOK
BY TypeInit, TypeStep, PTL DEF Spec

\* Only the two ways of receiving a message use a nonce.
LEMMA NonceSteps ==
  ASSUME [Next]_vars
  PROVE  \/ UNCHANGED <<used_nonces, forwarded>>
         \/ \E sender \in Accounts, token \in Tokens, m \in Messages :
              receiveMessageAndForward(sender, token, m)
         \/ \E sender \in Accounts, m \in Messages : ReceiveDirectly(sender, m)
BY DEF Next, NextBy, vars, setAdmin, setManager, setTransferTo, rescue_transfer, Transfer

LEMMA SpendStep ==
  TypeOK /\ [Next]_vars =>
    (used_nonces' # used_nonces =>
       \A t \in Tokens : balances'[t][Proxy] >= balances[t][Proxy])
<1> SUFFICES ASSUME TypeOK, [Next]_vars, used_nonces' # used_nonces, NEW t \in Tokens
             PROVE  balances'[t][Proxy] >= balances[t][Proxy]
  OBVIOUS
<1>1. balances \in Balances /\ balances[t][Proxy] \in Nat
  BY Facts DEF TypeOK, Balances
<1>2. ASSUME NEW sender \in Accounts, NEW token \in Tokens, NEW m \in Messages,
             receiveMessageAndForward(sender, token, m)
      PROVE  balances'[t][Proxy] >= balances[t][Proxy]
  <2>1. PICK amount \in Nat :
          /\ amount = IF token = m.token /\ m.recipient = Proxy THEN m.amount ELSE 0
          /\ amount <= Minted(m)[token][Proxy]
          /\ balances' = Transferred(token, Proxy, transferTo, amount, Minted(m))
    BY <1>2, AmountForwarded
  <2>2. /\ Minted(m) \in Balances
        /\ Minted(m)[t][Proxy] =
             balances[t][Proxy] + (IF t = m.token /\ Proxy = m.recipient THEN m.amount ELSE 0)
    BY <1>1, Facts, MintedType
  <2>3. balances'[t][Proxy] = (Minted(m)[t][Proxy] - (IF t = token THEN amount ELSE 0))
          + (IF t = token /\ Proxy = transferTo THEN amount ELSE 0)
    <3>1. transferTo \in Addresses /\ Proxy \in Addresses
      BY Facts DEF TypeOK
    <3>2. \A t2 \in Tokens, a \in Addresses :
            balances'[t2][a] =
              (Minted(m)[t2][a] - (IF t2 = token /\ a = Proxy THEN amount ELSE 0))
                + (IF t2 = token /\ a = transferTo THEN amount ELSE 0)
      BY <2>1, <2>2, <3>1, TransferredType
    <3>3. QED  BY <3>1, <3>2
  <2>4. m.amount \in Nat
    BY Facts
  <2>5. QED  BY <1>1, <2>1, <2>2, <2>3, <2>4
<1>3. ASSUME NEW sender \in Accounts, NEW m \in Messages, ReceiveDirectly(sender, m)
      PROVE  balances'[t][Proxy] >= balances[t][Proxy]
  <2>1. balances'[t][Proxy] =
          balances[t][Proxy] + (IF t = m.token /\ Proxy = m.recipient THEN m.amount ELSE 0)
    BY <1>1, <1>3, Facts, MintedType DEF ReceiveDirectly
  <2>2. QED  BY <1>1, <2>1, Facts
<1>4. QED  BY <1>2, <1>3, NonceSteps

\* Receiving a message never spends what the contract already holds.
THEOREM NothingSpent == Spec => ReceivingNeverSpends
<1>1. TypeOK /\ [Next]_vars => [used_nonces' # used_nonces =>
        \A t \in Tokens : balances'[t][Proxy] >= balances[t][Proxy]]_vars
  BY SpendStep
<1>2. QED  BY <1>1, TypeCorrect, PTL DEF Spec, ReceivingNeverSpends

LEMMA ForwardStep ==
  TypeOK /\ NamedCallerForwards /\ [Next]_vars => NamedCallerForwards'
<1> SUFFICES ASSUME TypeOK, NamedCallerForwards, [Next]_vars, NEW m \in Messages,
                    m.caller = Proxy, m.recipient = Proxy,
                    \A m2 \in Messages : m2.nonce = m.nonce => m2 = m,
                    m.nonce \in used_nonces'
             PROVE  /\ forwarded'[m.nonce] # NotForwarded
                    /\ forwarded'[m.nonce].token = m.token =>
                         forwarded'[m.nonce].amount = m.amount
  BY DEF NamedCallerForwards
<1>1. m.nonce \in Nonces /\ forwarded \in [Nonces -> MessageReceivedAndForwarded \union {NotForwarded}]
  BY Facts DEF TypeOK
<1>2. CASE UNCHANGED <<used_nonces, forwarded>>
  BY <1>2 DEF NamedCallerForwards
<1>3. ASSUME NEW sender \in Accounts, NEW token \in Tokens, NEW m2 \in Messages,
             receiveMessageAndForward(sender, token, m2)
      PROVE  /\ forwarded'[m.nonce] # NotForwarded
             /\ forwarded'[m.nonce].token = m.token => forwarded'[m.nonce].amount = m.amount
  <2>1. PICK amount \in Nat :
          /\ amount = IF token = m2.token /\ m2.recipient = Proxy THEN m2.amount ELSE 0
          /\ forwarded' = [forwarded EXCEPT ![m2.nonce] =
               [caller |-> sender, token |-> token, to |-> transferTo, amount |-> amount,
                message |-> m2]]
    BY <1>3, AmountForwarded
  <2>2. CASE m2.nonce = m.nonce
    <3>1. m2 = m
      BY <2>2
    <3>2. forwarded'[m.nonce] =
            [caller |-> sender, token |-> token, to |-> transferTo, amount |-> amount,
             message |-> m]
      BY <1>1, <2>1, <3>1
    <3>3. forwarded'[m.nonce] \in MessageReceivedAndForwarded
      BY <3>2, Facts DEF TypeOK, MessageReceivedAndForwarded
    <3>4. QED  BY <2>1, <3>1, <3>2, <3>3, MessageAssumption
  <2>3. CASE m2.nonce # m.nonce
    <3>1. m.nonce \in used_nonces /\ forwarded'[m.nonce] = forwarded[m.nonce]
      BY <1>1, <1>3, <2>1, <2>3 DEF receiveMessageAndForward
    <3>2. QED  BY <3>1 DEF NamedCallerForwards
  <2>4. QED  BY <2>2, <2>3
<1>4. ASSUME NEW sender \in Accounts, NEW m2 \in Messages, ReceiveDirectly(sender, m2)
      PROVE  /\ forwarded'[m.nonce] # NotForwarded
             /\ forwarded'[m.nonce].token = m.token => forwarded'[m.nonce].amount = m.amount
  <2>1. m2 # m
    BY <1>4, Facts DEF ReceiveDirectly, Receivable
  <2>2. m.nonce \in used_nonces
    BY <1>4, <2>1 DEF ReceiveDirectly
  <2>3. QED  BY <1>4, <2>2 DEF ReceiveDirectly, NamedCallerForwards
<1>5. QED  BY <1>2, <1>3, <1>4, NonceSteps

\* A message for the contract that names it as the caller is forwarded, in
\* full when it is presented with its own token.
THEOREM AllNamedAreForwarded == Spec => []NamedCallerForwards
<1>1. Init => NamedCallerForwards
  BY DEF Init, NamedCallerForwards
<1>2. TypeOK /\ NamedCallerForwards /\ [Next]_vars => NamedCallerForwards'
  BY ForwardStep
<1>3. QED  BY <1>1, <1>2, TypeCorrect, PTL DEF Spec
=============================================================================
