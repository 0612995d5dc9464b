------------------------- MODULE EthCctpReceiveProxy -------------------------
(***************************************************************************)
(* The EthCctpReceiveProxy contract: it presents a message to Circle's     *)
(* message transmitter of the EVM chain and passes on what its own balance *)
(* grew by.                                                                *)
(*                                                                         *)
(* Every action is one transaction; one that reverts changes nothing.  The *)
(* message transmitter and the tokens are external: the transmitter mints  *)
(* to the message's recipient, once for a nonce, and only for the caller a *)
(* message names.                                                          *)
(***************************************************************************)
EXTENDS Integers

CONSTANTS
  Accounts,         \* addresses other than the contract's
  Proxy,            \* the address of the contract
  RoleAddresses,    \* addresses that the roles are given to
  ForwardAddresses, \* addresses that transferTo is set to
  Tokens,           \* ERC-20 tokens
  InitialBalances,  \* what the addresses hold of each token at first
  Messages,         \* attested messages of other domains
  NotForwarded      \* what is recorded for a nonce the contract has not presented

VARIABLES
  admin, manager, transferTo,
  balances,      \* of each token and address
  used_nonces,   \* external: nonces the transmitter has received
  forwarded      \* history: the MessageReceivedAndForwarded event of each nonce

roles == <<admin, manager, transferTo>>
vars == <<roles, balances, used_nonces, forwarded>>

\* address(0), and the caller named by a message anyone may present
Zero == 0

Addresses == Accounts \union {Proxy}

Nonces == {m.nonce : m \in Messages}

Message ==
  [nonce: Nat, token: Tokens, recipient: Addresses, caller: Addresses \union {Zero},
   amount: Nat]

MessageReceivedAndForwarded ==
  [caller: Accounts, token: Tokens, to: Addresses, amount: Nat, message: Messages]

ASSUME AddressAssumption ==
  /\ Zero \notin Addresses
  /\ Proxy \notin Accounts
  /\ RoleAddresses \union ForwardAddresses \subseteq Addresses
  /\ InitialBalances \in [Tokens -> [Addresses -> Nat]]

ASSUME MessageAssumption ==
  /\ Messages \subseteq Message
  /\ NotForwarded \notin MessageReceivedAndForwarded

-----------------------------------------------------------------------------
\* The constructor.
Init ==
  /\ admin \in Accounts
  /\ manager \in Accounts
  /\ transferTo \in Accounts
  /\ balances = InitialBalances
  /\ used_nonces = {}
  /\ forwarded = [n \in Nonces |-> NotForwarded]

setAdmin(sender, newAdmin) ==
  /\ sender = admin
  /\ newAdmin # Zero
  /\ admin' = newAdmin
  /\ UNCHANGED <<manager, transferTo, balances, used_nonces, forwarded>>

setManager(sender, newManager) ==
  /\ sender = admin
  /\ newManager # Zero
  /\ manager' = newManager
  /\ UNCHANGED <<admin, transferTo, balances, used_nonces, forwarded>>

setTransferToUnchecked(sender, newTransferTo) ==
  /\ sender = admin
  /\ transferTo' = newTransferTo
  /\ UNCHANGED <<admin, manager, balances, used_nonces, forwarded>>

setTransferTo(sender, newTransferTo) ==
  /\ sender = admin
  /\ newTransferTo # Zero
  /\ transferTo' = newTransferTo
  /\ UNCHANGED <<admin, manager, balances, used_nonces, forwarded>>

\* ERC-20 transfer
Transferred(token, from, to, amount, held) ==
  LET taken == [held EXCEPT ![token][from] = @ - amount]
  IN  [taken EXCEPT ![token][to] = @ + amount]

\* The transmitter's receiveMessage, called by "caller".
ReceivableAgain(m, caller) == m.caller \in {Zero, caller}

Receivable(m, caller) == m.nonce \notin used_nonces /\ m.caller \in {Zero, caller}

Minted(m) == [balances EXCEPT ![m.token][m.recipient] = @ + m.amount]

ForwardedAmountOfAll(beforeBal, afterBal) == afterBal

ForwardedAmountReadAfter(beforeBal, afterBal) == afterBal - afterBal

ForwardedAmount(beforeBal, afterBal) ==
  IF afterBal > beforeBal THEN afterBal - beforeBal ELSE 0

\* The token is the sender's choice; it need not be the one the message mints.
\* The messageTransmitter, also the sender's choice, is Circle's here.
receiveMessageAndForward(sender, token, m) ==
  LET received == Minted(m)
      amount == ForwardedAmount(balances[token][Proxy], received[token][Proxy])
  IN  /\ sender \in {admin, manager}
      /\ Receivable(m, Proxy)
      /\ used_nonces' = used_nonces \union {m.nonce}
      /\ balances' = Transferred(token, Proxy, transferTo, amount, received)
      /\ forwarded' = [forwarded EXCEPT ![m.nonce] =
           [caller |-> sender, token |-> token, to |-> transferTo, amount |-> amount,
            message |-> m]]
      /\ UNCHANGED roles

rescue_transfer(sender, token, to, amount) ==
  /\ sender = admin
  /\ to # Zero
  /\ amount <= balances[token][Proxy]
  /\ balances' = Transferred(token, Proxy, to, amount, balances)
  /\ UNCHANGED <<roles, used_nonces, forwarded>>

-----------------------------------------------------------------------------
(***************************************************************************)
(* Other addresses present messages to the transmitter themselves, and     *)
(* move their own tokens.                                                  *)
(***************************************************************************)
ReceiveDirectly(caller, m) ==
  /\ Receivable(m, caller)
  /\ used_nonces' = used_nonces \union {m.nonce}
  /\ balances' = Minted(m)
  /\ UNCHANGED <<roles, forwarded>>

Transfer(token, from, to, amount) ==
  /\ from # to
  /\ amount <= balances[token][from]
  /\ balances' = Transferred(token, from, to, amount, balances)
  /\ UNCHANGED <<roles, used_nonces, forwarded>>

\* What these addresses can do once these messages are attested.
NextBy(senders, messages) ==
  \E sender \in senders :
    \/ \E account \in RoleAddresses \union {Zero} :
         \/ setAdmin(sender, account)
         \/ setManager(sender, account)
    \/ \E account \in ForwardAddresses \union {Zero} : setTransferTo(sender, account)
    \/ \E token \in Tokens, m \in messages : receiveMessageAndForward(sender, token, m)
    \/ \E token \in Tokens, to \in Addresses \union {Zero} :
         \E amount \in 0..balances[token][Proxy] : rescue_transfer(sender, token, to, amount)
    \/ \E m \in messages : ReceiveDirectly(sender, m)
    \/ \E token \in Tokens, to \in Addresses : \E amount \in 1..balances[token][sender] :
         Transfer(token, sender, to, amount)

Next == NextBy(Accounts, Messages)

Spec == Init /\ [][Next]_vars

-----------------------------------------------------------------------------
(***************************************************************************)
(* Properties.                                                             *)
(***************************************************************************)
\* The type of every variable.
TypeOK ==
  /\ admin \in Addresses
  /\ manager \in Addresses
  /\ transferTo \in Addresses
  /\ balances \in [Tokens -> [Addresses -> Nat]]
  /\ used_nonces \subseteq Nonces
  /\ forwarded \in [Nonces -> MessageReceivedAndForwarded \union {NotForwarded}]

\* What the contract already holds (tokens received for it by somebody else,
\* or sent to it by mistake) is never passed on with a later message: while a
\* message comes in, its balance of no token falls.
ReceivingNeverSpends ==
  [][used_nonces' # used_nonces =>
       \A t \in Tokens : balances'[t][Proxy] >= balances[t][Proxy]]_vars

\* A message for the contract that names it as the caller cannot come in any
\* other way than through it, and is passed on in full when it is presented
\* with its own token.
NamedCallerForwards ==
  \A m \in Messages :
    /\ m.caller = Proxy
    /\ m.recipient = Proxy
    /\ \A m2 \in Messages : m2.nonce = m.nonce => m2 = m
    /\ m.nonce \in used_nonces
    => /\ forwarded[m.nonce] # NotForwarded
       /\ forwarded[m.nonce].token = m.token => forwarded[m.nonce].amount = m.amount
=============================================================================
