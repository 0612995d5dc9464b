-------------------------- MODULE MessageTransmitter --------------------------
(***************************************************************************)
(* The MessageTransmitterV2 program: the state account, the attesters that *)
(* vouch for messages, the accounts that hold the messages sent from this  *)
(* domain, and the used-nonce accounts of the messages received in it.     *)
(*                                                                         *)
(* Every action below is one instruction.  A Solana transaction is atomic: *)
(* an instruction whose checks fail, or whose CPI into the receiver fails, *)
(* changes nothing, so a failing call is simply a step not taken.          *)
(*                                                                         *)
(* The attestation service (Iris), the attesters' signing keys and the     *)
(* clock are external; they are modelled from how the program uses them.   *)
(***************************************************************************)
EXTENDS Integers, Sequences, FiniteSets, Functions

CONSTANTS
  Keys,            \* wallets that pay rent, call receive or hold a role
  RoleKeys,        \* the wallets that roles are given to
  Attesters,       \* addresses an attester manager may enable
  Programs,        \* executable accounts
  Self,            \* the id of this program
  Domains,         \* chains
  LocalDomain,     \* the domain this program is deployed in
  Version,         \* the message version it accepts
  Bodies,          \* message bodies
  BodyLen,         \* the length of each body
  BodySizes,       \* values max_message_body_size may be given
  SendParams,      \* calls of send_message: its parameters and the calling program
  Finalities,      \* finality thresholds
  Nonces,          \* nonces the attestation service assigns
  RemoteMessages,  \* attested messages whose source is another domain
  EventAccounts,   \* addresses of MessageSent accounts
  NoAccount,       \* the content of an address that holds no account
  EventWindow,     \* EVENT_ACCOUNT_WINDOW_SECONDS, in ticks of the clock
  MaxTime          \* bound on the clock

VARIABLES
  initialized,           \* the state account exists
  owner, pending_owner, attester_manager, pauser,
  paused,
  signature_threshold,
  enabled_attesters,     \* a Vec: the order of enabling is kept
  attester_slots,        \* attesters the allocated account space can hold
  max_message_body_size,
  used_nonces,           \* nonces that have a UsedNonce account
  event_accounts,        \* MessageSent accounts
  deliveries,            \* history: the MessageReceived events of each nonce
  attested,              \* external: messages the service has attested
  signed,                \* external: <<attester, message>> signatures made
  now                    \* external: the clock

roles == <<owner, pending_owner, attester_manager, pauser>>
attesters == <<signature_threshold, enabled_attesters, attester_slots>>
messages == <<used_nonces, event_accounts, deliveries>>
service == <<attested, signed>>
vars == <<initialized, roles, paused, attesters, max_message_body_size,
          messages, service, now>>

\* A Pubkey is its 32 bytes read as a number, so that comparing Pubkeys is
\* comparing numbers and Pubkey::default() is 0.
Default == 0

\* The nonce of a message the attestation service has not seen yet.
EMPTY_NONCE == 0

FINALITY_THRESHOLD_FINALIZED == 2000
EMPTY_FINALITY_THRESHOLD_EXECUTED == 0

Pubkeys == Keys \union Programs \union {Default}

Message ==
  [version: Nat, source_domain: Domains, destination_domain: Domains,
   nonce: Nonces \union {EMPTY_NONCE}, sender: Pubkeys, recipient: Pubkeys,
   destination_caller: Pubkeys, min_finality_threshold: Finalities,
   finality_threshold_executed: Finalities \union {EMPTY_FINALITY_THRESHOLD_EXECUTED},
   message_body: Bodies]

SendMessageParams ==
  [sender: Programs, destination_domain: Domains, recipient: Pubkeys,
   destination_caller: Pubkeys, min_finality_threshold: Finalities,
   message_body: Bodies]

\* The service fills in the nonce and the finality it waited for.
AttestedMessage == {m \in Message : m.nonce \in Nonces}

\* "read" is not in the account: it records that the service has seen it.
MessageSent ==
  [rent_payer: Keys, created_at: Nat, message: Message, read: BOOLEAN]

MessageReceived ==
  [caller: Keys, message: AttestedMessage, handler: {"finalized", "unfinalized"}]

ASSUME KeysAssumption ==
  /\ Keys \subseteq Nat \ {Default}
  /\ RoleKeys \subseteq Keys
  /\ Attesters \subseteq Nat \ {Default}
  /\ IsFiniteSet(Attesters)
  /\ Programs \subseteq Nat \ {Default}

ASSUME DomainAssumption == LocalDomain \in Domains /\ Version \in Nat

ASSUME BodyAssumption ==
  /\ BodyLen \in [Bodies -> Nat]
  /\ BodySizes \subseteq Nat
  /\ Finalities \subseteq Nat

ASSUME NonceAssumption == Nonces \subseteq Nat \ {EMPTY_NONCE}

ASSUME RemoteAssumption ==
  /\ RemoteMessages \subseteq AttestedMessage
  /\ \A m \in RemoteMessages : m.source_domain # LocalDomain

ASSUME SendAssumption == SendParams \subseteq SendMessageParams

ASSUME NoAccountAssumption == NoAccount \notin MessageSent

ASSUME ClockAssumption == EventWindow \in Nat \ {0} /\ MaxTime \in Nat

-----------------------------------------------------------------------------
(***************************************************************************)
(* The state account.                                                      *)
(***************************************************************************)
EnabledAttesters == Range(enabled_attesters)

IsEnabledAttester(a) == a \in EnabledAttesters

\* MessageTransmitter::validate
Validate ==
  /\ owner # Default
  /\ attester_manager # Default
  /\ pauser # Default
  /\ signature_threshold # 0
  /\ signature_threshold <= Len(enabled_attesters)
  /\ enabled_attesters # << >>

Init ==
  /\ initialized = FALSE
  /\ owner = Default
  /\ pending_owner = Default
  /\ attester_manager = Default
  /\ pauser = Default
  /\ paused = FALSE
  /\ signature_threshold = 0
  /\ enabled_attesters = << >>
  /\ attester_slots = 0
  /\ max_message_body_size = 0
  /\ used_nonces = {}
  /\ event_accounts = [e \in EventAccounts |-> NoAccount]
  /\ deliveries = [n \in Nonces |-> << >>]
  /\ attested = {}
  /\ signed = {}
  /\ now = 0

\* has_one: the state account exists and the signer holds the role.
HasOne(role, signer) == initialized /\ role = signer

\* The attester parameter is not compared with Pubkey::default() here, as
\* enable_attester does.
Initialize(authority, attester, size) ==
  /\ ~initialized
  /\ initialized' = TRUE
  /\ owner' = authority
  /\ pending_owner' = Default
  /\ attester_manager' = authority
  /\ pauser' = authority
  /\ paused' = FALSE
  /\ signature_threshold' = 1
  /\ enabled_attesters' = <<attester>>
  /\ attester_slots' = 1
  /\ max_message_body_size' = size
  /\ Validate'
  /\ UNCHANGED <<messages, service, now>>

TransferOwnership(signer, new_owner) ==
  /\ HasOne(owner, signer)
  /\ new_owner \notin {Default, owner, pending_owner}
  /\ pending_owner' = new_owner
  /\ UNCHANGED <<initialized, owner, attester_manager, pauser, paused, attesters,
                 max_message_body_size, messages, service, now>>

AcceptOwnershipKeepingNominee(signer) ==
  /\ HasOne(pending_owner, signer)
  /\ owner' = pending_owner
  /\ UNCHANGED <<initialized, pending_owner, attester_manager, pauser, paused, attesters,
                 max_message_body_size, messages, service, now>>

AcceptOwnership(signer) ==
  /\ HasOne(pending_owner, signer)
  /\ owner' = pending_owner
  /\ pending_owner' = Default
  /\ UNCHANGED <<initialized, attester_manager, pauser, paused, attesters,
                 max_message_body_size, messages, service, now>>

UpdatePauser(signer, new_pauser) ==
  /\ HasOne(owner, signer)
  /\ new_pauser \notin {Default, pauser}
  /\ pauser' = new_pauser
  /\ UNCHANGED <<initialized, owner, pending_owner, attester_manager, paused, attesters,
                 max_message_body_size, messages, service, now>>

UpdateAttesterManager(signer, new_attester_manager) ==
  /\ HasOne(owner, signer)
  /\ new_attester_manager \notin {Default, attester_manager}
  /\ attester_manager' = new_attester_manager
  /\ UNCHANGED <<initialized, owner, pending_owner, pauser, paused, attesters,
                 max_message_body_size, messages, service, now>>

Pause(signer) ==
  /\ HasOne(pauser, signer)
  /\ ~paused
  /\ paused' = TRUE
  /\ UNCHANGED <<initialized, roles, attesters, max_message_body_size, messages, service, now>>

Unpause(signer) ==
  /\ HasOne(pauser, signer)
  /\ paused
  /\ paused' = FALSE
  /\ UNCHANGED <<initialized, roles, attesters, max_message_body_size, messages, service, now>>

SetMaxMessageBodySize(signer, size) ==
  /\ HasOne(owner, signer)
  /\ max_message_body_size' = size
  /\ UNCHANGED <<initialized, roles, paused, attesters, messages, service, now>>

-----------------------------------------------------------------------------
(***************************************************************************)
(* Attesters.  The account is reallocated while the instruction's accounts *)
(* are checked, before the handler runs, from the length the Vec still     *)
(* has; INIT_SPACE already holds one attester.                             *)
(***************************************************************************)
SlotsToEnable == 1 + Len(enabled_attesters)

SlotsToDisableFromNewLength ==
  1 + (IF Len(enabled_attesters) < 1 THEN 0 ELSE Len(enabled_attesters) - 1)

SlotsToDisable ==
  1 + (IF Len(enabled_attesters) < 2 THEN 0 ELSE Len(enabled_attesters) - 2)

EnableAttester(signer, new_attester) ==
  /\ HasOne(attester_manager, signer)
  /\ new_attester # Default
  /\ ~IsEnabledAttester(new_attester)
  /\ enabled_attesters' = Append(enabled_attesters, new_attester)
  /\ attester_slots' = SlotsToEnable
  /\ UNCHANGED <<initialized, roles, paused, signature_threshold,
                 max_message_body_size, messages, service, now>>

\* Vec::remove
RemovePosition(seq, pos) ==
  SubSeq(seq, 1, pos - 1) \o SubSeq(seq, pos + 1, Len(seq))

CanSpareAttesterAtThreshold ==
  /\ Len(enabled_attesters) > 1
  /\ Len(enabled_attesters) >= signature_threshold

CanSpareAttester ==
  /\ Len(enabled_attesters) > 1
  /\ Len(enabled_attesters) > signature_threshold

DisableAttester(signer, attester) ==
  /\ HasOne(attester_manager, signer)
  /\ CanSpareAttester
  /\ \E pos \in 1..Len(enabled_attesters) :
       /\ enabled_attesters[pos] = attester
       /\ \A i \in 1..(pos - 1) : enabled_attesters[i] # attester
       /\ enabled_attesters' = RemovePosition(enabled_attesters, pos)
  /\ attester_slots' = SlotsToDisable
  /\ UNCHANGED <<initialized, roles, paused, signature_threshold,
                 max_message_body_size, messages, service, now>>

SetSignatureThreshold(signer, new_threshold) ==
  /\ HasOne(attester_manager, signer)
  /\ new_threshold > 0
  /\ Len(enabled_attesters) >= new_threshold
  /\ signature_threshold # new_threshold
  /\ signature_threshold' = new_threshold
  /\ UNCHANGED <<initialized, roles, paused, enabled_attesters, attester_slots,
                 max_message_body_size, messages, service, now>>

(***************************************************************************)
(* An attestation is a sequence of signatures; attestation[i] is the       *)
(* address the i-th one recovers to for this message.  A signature made    *)
(* over other bytes recovers to an address nobody enabled, so only the     *)
(* signatures in "signed" are worth presenting.                            *)
(***************************************************************************)
Attestations ==
  UNION {[1..n -> Attesters] : n \in 0..Cardinality(Attesters)}

MadeBySigners(m, attestation) ==
  \A i \in DOMAIN attestation : <<attestation[i], m>> \in signed

LastAttester(attestation, i) == IF i = 1 THEN Default ELSE attestation[i - 1]

VerifyAttestationAllowingRepeats(attestation) ==
  /\ Len(attestation) = signature_threshold
  /\ \A i \in 1..signature_threshold :
       /\ attestation[i] >= LastAttester(attestation, i)
       /\ IsEnabledAttester(attestation[i])

VerifyAttestationSignatures(attestation) ==
  /\ Len(attestation) = signature_threshold
  /\ \A i \in 1..signature_threshold :
       /\ attestation[i] > LastAttester(attestation, i)
       /\ IsEnabledAttester(attestation[i])

-----------------------------------------------------------------------------
(***************************************************************************)
(* Messages out of this domain.                                            *)
(***************************************************************************)
FormatMessage(params) ==
  [version |-> Version,
   source_domain |-> LocalDomain,
   destination_domain |-> params.destination_domain,
   nonce |-> EMPTY_NONCE,
   sender |-> params.sender,
   recipient |-> params.recipient,
   destination_caller |-> params.destination_caller,
   min_finality_threshold |-> params.min_finality_threshold,
   finality_threshold_executed |-> EMPTY_FINALITY_THRESHOLD_EXECUTED,
   message_body |-> params.message_body]

\* Everything the source chain sets, except that only the length of the body
\* enters the hash.
SourceFields(m) ==
  <<m.version, m.source_domain, m.destination_domain, m.sender, m.recipient,
    m.destination_caller, m.min_finality_threshold, BodyLen[m.message_body]>>

CanSendWhilePaused(params) ==
  /\ params.destination_domain # LocalDomain
  /\ max_message_body_size >= BodyLen[params.message_body]
  /\ params.recipient # Default

CanSend(params) ==
  /\ ~paused
  /\ params.destination_domain # LocalDomain
  /\ max_message_body_size >= BodyLen[params.message_body]
  /\ params.recipient # Default

\* params.sender is the program whose sender_authority PDA signed the call.
SendMessage(event, rent_payer, params) ==
  /\ initialized
  /\ event_accounts[event] = NoAccount
  /\ CanSend(params)
  /\ event_accounts' = [event_accounts EXCEPT ![event] =
       [rent_payer |-> rent_payer, created_at |-> now,
        message |-> FormatMessage(params), read |-> FALSE]]
  /\ UNCHANGED <<initialized, roles, paused, attesters, max_message_body_size,
                 used_nonces, deliveries, service, now>>

WindowExpiredOneTickEarly(event) ==
  now + 1 >= event_accounts[event].created_at + EventWindow

WindowExpired(event) ==
  now >= event_accounts[event].created_at + EventWindow

\* The destination message the payee presents is any attested one.
ReclaimEventAccount(event, payee, m, attestation) ==
  /\ initialized
  /\ event_accounts[event] # NoAccount
  /\ event_accounts[event].rent_payer = payee
  /\ ~paused
  /\ WindowExpired(event)
  /\ event_accounts[event].message.version = Version
  /\ m.version = Version
  /\ SourceFields(event_accounts[event].message) = SourceFields(m)
  /\ MadeBySigners(m, attestation)
  /\ VerifyAttestationSignatures(attestation)
  /\ event_accounts[event].message.source_domain = LocalDomain
  /\ event_accounts' = [event_accounts EXCEPT ![event] = NoAccount]
  /\ UNCHANGED <<initialized, roles, paused, attesters, max_message_body_size,
                 used_nonces, deliveries, service, now>>

-----------------------------------------------------------------------------
(***************************************************************************)
(* Messages into this domain.                                              *)
(***************************************************************************)
HandlerName(finality_executed) ==
  IF finality_executed < FINALITY_THRESHOLD_FINALIZED THEN "unfinalized" ELSE "finalized"

NonceUnusedByMessage(m) ==
  \A i \in DOMAIN deliveries[m.nonce] : deliveries[m.nonce][i].message # m

\* The UsedNonce account is created at an address derived from the nonce
\* alone, so that creating it fails when the nonce has been used before.
NonceUnused(m) == m.nonce \notin used_nonces

MayReceiveWhilePaused(m) == m.version = Version

MayReceive(m) == ~paused /\ m.version = Version

AddressedAnywhereElse(m) == m.source_domain # LocalDomain

AddressedHere(m) == m.destination_domain = LocalDomain

ReceiveMessage(caller, m, attestation) ==
  /\ initialized
  /\ NonceUnused(m)
  /\ m.recipient \in Programs \ {Self}
  /\ MayReceive(m)
  /\ MadeBySigners(m, attestation)
  /\ VerifyAttestationSignatures(attestation)
  /\ AddressedHere(m)
  /\ m.destination_caller \in {Default, caller}
  /\ used_nonces' = used_nonces \union {m.nonce}
  /\ deliveries' = [deliveries EXCEPT ![m.nonce] =
       Append(@, [caller |-> caller, message |-> m,
                  handler |-> HandlerName(m.finality_threshold_executed)])]
  /\ UNCHANGED <<initialized, roles, paused, attesters, max_message_body_size,
                 event_accounts, service, now>>

\* What is_nonce_used answers: FALSE when the account does not exist.
IsNonceUsed(nonce) == nonce \in used_nonces

-----------------------------------------------------------------------------
(***************************************************************************)
(* The attestation service, the signers and the clock.                     *)
(***************************************************************************)
\* The service gives each source message a nonce of its own.
FreshNonces ==
  Nonces \ ({m.nonce : m \in attested} \union {m.nonce : m \in RemoteMessages})

AttestedWithoutNonce(m, nonce, finality) ==
  [m EXCEPT !.finality_threshold_executed = finality]

Attested(m, nonce, finality) ==
  [m EXCEPT !.nonce = nonce, !.finality_threshold_executed = finality]

AttestSent(event, nonce, finality) ==
  /\ event_accounts[event] # NoAccount
  /\ ~event_accounts[event].read
  /\ event_accounts' = [event_accounts EXCEPT ![event].read = TRUE]
  /\ attested' = attested \union {Attested(event_accounts[event].message, nonce, finality)}
  /\ UNCHANGED <<initialized, roles, paused, attesters, max_message_body_size,
                 used_nonces, deliveries, signed, now>>

\* A remote message may be attested twice, at two finalities, under its nonce.
AttestRemote(m) ==
  /\ m \notin attested
  /\ attested' = attested \union {m}
  /\ UNCHANGED <<initialized, roles, paused, attesters, max_message_body_size,
                 messages, signed, now>>

Sign(attester, m) ==
  /\ <<attester, m>> \notin signed
  /\ signed' = signed \union {<<attester, m>>}
  /\ UNCHANGED <<initialized, roles, paused, attesters, max_message_body_size,
                 messages, attested, now>>

\* The service reads an account within EventWindow of its creation: the clock
\* does not move past the window of an account it has not read.
Tick ==
  /\ now < MaxTime
  /\ \A e \in EventAccounts :
       event_accounts[e] # NoAccount /\ ~event_accounts[e].read
         => now + 1 < event_accounts[e].created_at + EventWindow
  /\ now' = now + 1
  /\ UNCHANGED <<initialized, roles, paused, attesters, max_message_body_size,
                 messages, service>>

-----------------------------------------------------------------------------
AdminNext ==
  \E signer \in RoleKeys :
    \/ \E attester \in Attesters \union {Default}, size \in BodySizes :
         Initialize(signer, attester, size)
    \/ \E key \in RoleKeys : TransferOwnership(signer, key)
    \/ AcceptOwnership(signer)
    \/ \E key \in RoleKeys : UpdatePauser(signer, key)
    \/ \E key \in RoleKeys : UpdateAttesterManager(signer, key)
    \/ Pause(signer)
    \/ Unpause(signer)
    \/ \E size \in BodySizes : SetMaxMessageBodySize(signer, size)
    \/ \E a \in Attesters : EnableAttester(signer, a)
    \/ \E a \in Attesters \union {Default} : DisableAttester(signer, a)
    \/ \E t \in 0..(Cardinality(Attesters) + 1) : SetSignatureThreshold(signer, t)

\* What callers present: attested messages, and some that are not attested yet.
Presentable == attested \union RemoteMessages

MessageNext ==
  \/ \E event \in EventAccounts, payer \in Keys, params \in SendParams :
       SendMessage(event, payer, params)
  \/ \E m \in Presentable, attestation \in Attestations, key \in Keys :
       \/ \E event \in EventAccounts : ReclaimEventAccount(event, key, m, attestation)
       \/ ReceiveMessage(key, m, attestation)

ServiceNext ==
  \/ \E event \in EventAccounts, nonce \in FreshNonces, finality \in Finalities :
       AttestSent(event, nonce, finality)
  \/ \E m \in RemoteMessages : AttestRemote(m)
  \/ \E attester \in Attesters, m \in attested : Sign(attester, m)
  \/ Tick

Next == AdminNext \/ MessageNext \/ ServiceNext

Spec == Init /\ [][Next]_vars

-----------------------------------------------------------------------------
(***************************************************************************)
(* Properties.                                                             *)
(***************************************************************************)
\* The type of every variable.
TypeOK ==
  /\ initialized \in BOOLEAN
  /\ owner \in Keys \union {Default}
  /\ pending_owner \in Keys \union {Default}
  /\ attester_manager \in Keys \union {Default}
  /\ pauser \in Keys \union {Default}
  /\ paused \in BOOLEAN
  /\ signature_threshold \in Nat
  /\ enabled_attesters \in Seq(Attesters \union {Default})
  /\ attester_slots \in Nat
  /\ max_message_body_size \in Nat
  /\ used_nonces \subseteq Nonces
  /\ event_accounts \in [EventAccounts -> MessageSent \union {NoAccount}]
  /\ deliveries \in [Nonces -> Seq(MessageReceived)]
  /\ attested \subseteq AttestedMessage
  /\ signed \subseteq Attesters \X AttestedMessage
  /\ now \in Nat

\* What validate() checks when the account is created stays true whatever is
\* called later, although no later instruction calls it: no role is ever
\* lost, and the owner is never its own nominee.
StateStaysValid == initialized => Validate /\ pending_owner # owner

\* However attesters are enabled and disabled and the threshold moved, some
\* set of enabled attesters can sign an attestation that verifies.  The one
\* exception is a threshold that counts on Pubkey::default(): initialize
\* admits it as the first attester, verify_attestation_signatures never does,
\* and with every other attester needed too nothing can be received.
ThresholdCanBeMet ==
  initialized =>
    \/ \E attestation \in Attestations : VerifyAttestationSignatures(attestation)
    \/ Default \in EnabledAttesters /\ signature_threshold = Len(enabled_attesters)

\* The space each realloc computes from the length before the change is the
\* space the Vec needs after it, so that the account always serializes.
SlotsFitAttesters == attester_slots = Len(enabled_attesters)

\* is_nonce_used tells exactly whether the receiver has been called for the
\* message with that nonce, and it has been called at most once.
NonceUsedIffDelivered ==
  \A n \in Nonces : Len(deliveries[n]) = IF IsNonceUsed(n) THEN 1 ELSE 0

Attesting(m) == {a \in EnabledAttesters : <<a, m>> \in signed}

\* A message is handed to its receiver only when at least signature_threshold
\* distinct attesters, all of them enabled at that moment, have signed it.
QuorumBehindDelivery ==
  [][\A n \in Nonces : deliveries'[n] # deliveries[n] =>
       Cardinality(Attesting(deliveries'[n][Len(deliveries'[n])].message)) >= signature_threshold]_vars

\* No event account is closed before the attestation service has read it,
\* even with the attestation of another message with the same source fields.
ClosedOnlyOnceRead ==
  [][\A e \in EventAccounts :
       event_accounts[e] # NoAccount /\ event_accounts'[e] = NoAccount
         => event_accounts[e].read]_vars

\* While the program is paused no message goes out or comes in and no event
\* account is closed; only the service goes on reading the accounts.
PausedIsQuiet ==
  [][paused => /\ UNCHANGED <<used_nonces, deliveries>>
               /\ \A e \in EventAccounts :
                    (event_accounts'[e] = NoAccount) = (event_accounts[e] = NoAccount)]_vars

\* Signatures are made over attested messages only, so an attestation that
\* verifies vouches for an attested message; strengthens the proofs.
SignedAreAttested == \A s \in signed : s[2] \in attested

\* An account the service has not read is still inside its window, because
\* the service keeps up with the clock; strengthens the proofs.
UnreadAreRecent ==
  \A e \in EventAccounts :
    event_accounts[e] # NoAccount /\ ~event_accounts[e].read
      => now < event_accounts[e].created_at + EventWindow

\* The program implements the abstract channel: every message is handed over
\* at most once, only if it is attested, addressed to this domain and
\* presented by the caller it names.
Channel == INSTANCE MessageChannel WITH Receivers <- Programs \ {Self}
ChannelSpec == Channel!Spec
=============================================================================
