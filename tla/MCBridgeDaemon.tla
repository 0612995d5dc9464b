---------------------------- MODULE MCBridgeDaemon ----------------------------
(***************************************************************************)
(* The instances of BridgeDaemon that TLC checks.                          *)
(***************************************************************************)
EXTENDS BridgeDaemon, TLC

MCInitialBalances == [t \in Tokens |-> [a \in Addresses |-> 0]]

\* Only the contract may present a burn, or anybody.
MCDestinations ==
  {[recipient |-> Proxy, caller |-> Proxy], [recipient |-> Proxy, caller |-> Zero]}

MCNamedDestinations == {[recipient |-> Proxy, caller |-> Proxy]}

MCMessages ==
  {[nonce |-> k, token |-> Usdc, recipient |-> d.recipient, caller |-> d.caller,
    amount |-> amount] : k \in 1..Supply, d \in VaultDestinations, amount \in 1..Supply}

\* A hash is only compared with others, and whichever is fresh is taken.
HashSymmetry == Permutations(Hashes)
=============================================================================
