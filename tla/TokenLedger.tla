----------------------------- MODULE TokenLedger -----------------------------
(***************************************************************************)
(* What the token messenger and minter promises about tokens, seen from    *)
(* the custody accounts: every message it sends can be paid on the other   *)
(* side, every message of another domain is paid at most once, and paying  *)
(* it takes from custody no more than the amount of the message, of which  *)
(* no more than the depositor agreed to is a fee.                          *)
(***************************************************************************)
EXTENDS Integers, Sequences

CONSTANTS
  Mints,
  Nonces,
  Unpaid   \* what is recorded for a nonce that has not been paid

VARIABLES
  custody,   \* tokens held for each mint
  sent,      \* the messages sent
  paid       \* what was paid for each nonce

Init ==
  /\ custody = [m \in Mints |-> 0]
  /\ sent = << >>
  /\ paid = [n \in Nonces |-> Unpaid]

\* Whatever fee up to the agreed maximum is taken on the other side, there is
\* something left for the recipient.
Payable(message_body) ==
  /\ message_body.max_fee < message_body.amount
  /\ message_body.fee_executed = 0

Send ==
  /\ Len(sent') = Len(sent) + 1
  /\ sent' = Append(sent, sent'[Len(sent')])
  /\ Payable(sent'[Len(sent')].message_body)
  /\ UNCHANGED <<custody, paid>>

Total(p) == p.amount + p.fee_collected

Pay(n, p) ==
  /\ paid[n] = Unpaid
  /\ p # Unpaid
  /\ p.amount > 0
  /\ p.fee_collected <= p.max_fee
  /\ custody[p.mint] >= Total(p)
  /\ \E left \in (custody[p.mint] - Total(p)) .. custody[p.mint] :
       custody' = [custody EXCEPT ![p.mint] = left]
  /\ paid' = [paid EXCEPT ![n] = p]
  /\ UNCHANGED sent

Fund(m) ==
  /\ custody'[m] > custody[m]
  /\ custody' = [custody EXCEPT ![m] = custody'[m]]
  /\ UNCHANGED <<sent, paid>>

Destroy(m) ==
  /\ custody'[m] \in 0 .. custody[m]
  /\ custody' = [custody EXCEPT ![m] = custody'[m]]
  /\ UNCHANGED <<sent, paid>>

Next ==
  \/ Send
  \/ \E n \in Nonces : Pay(n, paid'[n])
  \/ \E m \in Mints : Fund(m) \/ Destroy(m)

Spec == Init /\ [][Next]_<<custody, sent, paid>>
=============================================================================
