---------------------------- MODULE MessageChannel ----------------------------
(***************************************************************************)
(* What the message transmitter promises the programs that receive from    *)
(* it: a channel that hands over each attested message at most once, by    *)
(* nonce, in no particular order, each to the program it is addressed to.  *)
(* A message may be attested several times, under one nonce.               *)
(***************************************************************************)
EXTENDS Integers, Sequences

CONSTANTS
  Keys,         \* who may present a message
  Nonces,
  LocalDomain,  \* the domain of the channel's end
  Version,      \* the version of messages it carries
  Receivers,    \* the programs it hands messages to
  Default       \* the caller named by a message anyone may present

VARIABLES
  attested,    \* the messages attested so far
  deliveries   \* the hand-overs of each nonce

Init ==
  /\ attested = {}
  /\ deliveries = [n \in Nonces |-> << >>]

\* More messages are attested; none is ever withdrawn.
Attest ==
  /\ attested \subseteq attested'
  /\ UNCHANGED deliveries

Handler(m) == IF m.finality_threshold_executed < 2000 THEN "unfinalized" ELSE "finalized"

Deliver(m, caller) ==
  /\ deliveries[m.nonce] = << >>
  /\ m.version = Version
  /\ m.destination_domain = LocalDomain
  /\ m.recipient \in Receivers
  /\ m.destination_caller # Default => m.destination_caller = caller
  /\ deliveries' = [deliveries EXCEPT ![m.nonce] =
       <<[caller |-> caller, message |-> m, handler |-> Handler(m)]>>]
  /\ UNCHANGED attested

Next ==
  \/ Attest
  \/ \E m \in attested, caller \in Keys : Deliver(m, caller)

Spec == Init /\ [][Next]_<<attested, deliveries>>
=============================================================================
