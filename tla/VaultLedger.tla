----------------------------- MODULE VaultLedger -----------------------------
(***************************************************************************)
(* What the deposit proxy promises about its vaults, to those who fill     *)
(* them and to those who bridge what is in them: tokens that leave a vault *)
(* are in exactly one burn, which goes to the destination the vault had    *)
(* then, or were withdrawn without a burn.  An address with no vault holds *)
(* nothing, and nobody burns in a vault's name.                            *)
(***************************************************************************)
EXTENDS Integers, Sequences

CONSTANTS
  Vaults,
  Authority,       \* the account in whose name each vault burns
  NoDestination    \* the destination of a vault that does not exist

VARIABLES
  held,          \* tokens in each vault
  destination,   \* where its next burn goes
  burns          \* every burn: its owner, its amount and where it goes

Init ==
  /\ held = [v \in Vaults |-> 0]
  /\ destination = [v \in Vaults |-> NoDestination]
  /\ burns = << >>

SetDestination(v) ==
  /\ destination'[v] # NoDestination
  /\ destination' = [destination EXCEPT ![v] = destination'[v]]
  /\ UNCHANGED <<held, burns>>

Fund ==
  /\ \A v \in Vaults :
       /\ held'[v] >= held[v]
       /\ held'[v] > held[v] => destination[v] # NoDestination
  /\ UNCHANGED <<destination, burns>>

Burn(v) ==
  /\ destination[v] # NoDestination
  /\ held'[v] < held[v]
  /\ held' = [held EXCEPT ![v] = held'[v]]
  /\ burns' = Append(burns, [owner |-> Authority[v], amount |-> held[v] - held'[v],
                             destination |-> destination[v]])
  /\ UNCHANGED destination

BurnElsewhere ==
  /\ Len(burns') = Len(burns) + 1
  /\ burns' = Append(burns, burns'[Len(burns')])
  /\ \A v \in Vaults : burns'[Len(burns')].owner # Authority[v]
  /\ UNCHANGED <<held, destination>>

\* A withdrawal from one vault may end in another.
Withdraw(v) ==
  /\ destination[v] # NoDestination
  /\ held'[v] < held[v]
  /\ \A w \in Vaults \ {v} : held'[w] >= held[w]
  /\ UNCHANGED <<destination, burns>>

Next ==
  \/ Fund
  \/ BurnElsewhere
  \/ \E v \in Vaults : SetDestination(v) \/ Burn(v) \/ Withdraw(v)

Spec == Init /\ [][Next]_<<held, destination, burns>>
=============================================================================
