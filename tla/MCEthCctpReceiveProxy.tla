------------------------ MODULE MCEthCctpReceiveProxy ------------------------
(***************************************************************************)
(* The instance of EthCctpReceiveProxy that TLC checks.                    *)
(***************************************************************************)
EXTENDS EthCctpReceiveProxy, TLC

\* Address 2 may send its one token to the contract.
MCInitialBalances ==
  [t \in Tokens |-> [a \in Addresses |-> IF t = "usdc" /\ a = 2 THEN 1 ELSE 0]]

Burned(nonce, recipient, caller, amount) ==
  [nonce |-> nonce, token |-> "usdc", recipient |-> recipient, caller |-> caller,
   amount |-> amount]

\* Two messages for the contract, one of which only it may present, and one
\* for another address.
MCMessages ==
  {Burned(1, Proxy, Proxy, 2), Burned(2, Proxy, Zero, 1), Burned(3, 1, Zero, 1)}
=============================================================================
