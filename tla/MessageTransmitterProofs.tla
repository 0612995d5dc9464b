----------------------- MODULE MessageTransmitterProofs -----------------------
(***************************************************************************)
(* Proofs about MessageTransmitter, for every value of its constants.      *)
(***************************************************************************)
EXTENDS MessageTransmitter, TLAPS, SequenceTheorems, FiniteSetTheorems, WellFoundedInduction

(***************************************************************************)
(* Vec::remove of one position: what the rest of the sequence is.          *)
(***************************************************************************)
LEMMA RemovePositionProperties ==
  ASSUME NEW S, NEW seq \in Seq(S), NEW pos \in 1..Len(seq)
  PROVE  /\ RemovePosition(seq, pos) \in Seq(S)
         /\ Len(RemovePosition(seq, pos)) = Len(seq) - 1
         /\ \A i \in 1..(Len(seq) - 1) :
              RemovePosition(seq, pos)[i] = IF i < pos THEN seq[i] ELSE seq[i + 1]
<1> DEFINE front == SubSeq(seq, 1, pos - 1)
           back == SubSeq(seq, pos + 1, Len(seq))
           joined == front \o back
<1>1. front \in Seq(S) /\ Len(front) = pos - 1
  <2>1. \A i \in 1..(pos - 1) : seq[i] \in S
    BY ElementOfSeq
  <2>2. QED  BY <2>1, SubSeqProperties
<1>2. back \in Seq(S) /\ Len(back) = Len(seq) - pos
  BY SubSeqProperties
<1>3. \A i \in 1..(pos - 1) : front[i] = seq[i]
  BY SubSeqProperties
<1>4. \A i \in 1..(Len(seq) - pos) : back[i] = seq[pos + i]
  BY SubSeqProperties
<1>5. RemovePosition(seq, pos) = joined
  BY DEF RemovePosition
<1>6. /\ joined \in Seq(S)
      /\ Len(joined) = Len(seq) - 1
      /\ \A i \in 1..(Len(seq) - 1) :
           joined[i] = IF i <= pos - 1 THEN front[i] ELSE back[i - (pos - 1)]
  <2>1. Len(seq) \in Nat /\ pos - 1 + (Len(seq) - pos) = Len(seq) - 1
    BY LenProperties
  <2> HIDE DEF front, back
  <2>2. /\ joined \in Seq(S)
        /\ Len(joined) = Len(front) + Len(back)
        /\ \A i \in 1..(Len(front) + Len(back)) :
             joined[i] = IF i <= Len(front) THEN front[i] ELSE back[i - Len(front)]
    BY <1>1, <1>2, ConcatProperties
  <2> HIDE DEF joined
  <2>3. QED  BY <1>1, <1>2, <2>1, <2>2
<1> HIDE DEF front, back, joined
<1>7. pos \in Int /\ Len(seq) \in Nat
  BY LenProperties
<1>8. ASSUME NEW i \in 1..(Len(seq) - 1)
      PROVE  joined[i] = IF i < pos THEN seq[i] ELSE seq[i + 1]
  <2>1. CASE i < pos
    BY <1>3, <1>6, <1>7, <2>1
  <2>2. CASE i >= pos
    <3> DEFINE j == i - (pos - 1)
    <3>1. j \in 1..(Len(seq) - pos) /\ pos + j = i + 1 /\ i \in Int /\ ~(i <= pos - 1)
      BY <1>7, <2>2
    <3>2. joined[i] = back[j]
      BY <1>6, <3>1
    <3> HIDE DEF j
    <3>3. back[j] = seq[pos + j]
      BY <1>4, <3>1
    <3>4. QED  BY <2>2, <1>7, <3>1, <3>2, <3>3
  <2>3. QED  BY <1>7, <2>1, <2>2
<1>9. QED  BY <1>5, <1>6, <1>8

-----------------------------------------------------------------------------
(***************************************************************************)
(* Typing.                                                                 *)
(***************************************************************************)
LEMMA FormatMessageType ==
  ASSUME NEW params \in SendParams, EMPTY_FINALITY_THRESHOLD_EXECUTED \in Nat
  PROVE  FormatMessage(params) \in Message
BY SendAssumption, DomainAssumption
   DEF FormatMessage, Message, SendMessageParams, Pubkeys

\* The service's copy of a source message is an attested message.
LEMMA AttestedType ==
  ASSUME NEW m \in Message, NEW nonce \in Nonces, NEW finality \in Finalities
  PROVE  Attested(m, nonce, finality) \in AttestedMessage
BY DEF Attested, Message, AttestedMessage

LEMMA TypeInit == Init => TypeOK
<1> SUFFICES ASSUME Init PROVE TypeOK
  OBVIOUS
<1>1. enabled_attesters \in Seq(Attesters \union {Default})
  BY EmptySeq DEF Init
<1>2. deliveries \in [Nonces -> Seq(MessageReceived)]
  BY EmptySeq DEF Init
<1>3. QED  BY <1>1, <1>2 DEF Init, TypeOK, Default

LEMMA TypeStep == TypeOK /\ [Next]_vars => TypeOK'
<1> SUFFICES ASSUME TypeOK, [Next]_vars PROVE TypeOK'
  OBVIOUS
<1> USE DEF TypeOK
<1>1. ASSUME NEW signer \in RoleKeys, NEW attester \in Attesters \union {Default},
             NEW size \in BodySizes, Initialize(signer, attester, size)
      PROVE  TypeOK'
  <2>1. enabled_attesters' \in Seq(Attesters \union {Default})
    BY <1>1 DEF Initialize
  <2>2. QED
    BY <1>1, <2>1, BodyAssumption, KeysAssumption DEF Initialize, messages, service
<1>2. ASSUME NEW signer \in RoleKeys, NEW key \in RoleKeys, TransferOwnership(signer, key)
      PROVE  TypeOK'
  BY <1>2, KeysAssumption DEF TransferOwnership, attesters, messages, service
<1>3. ASSUME NEW signer \in RoleKeys, AcceptOwnership(signer)
      PROVE  TypeOK'
  BY <1>3 DEF AcceptOwnership, HasOne, attesters, messages, service
<1>4. ASSUME NEW signer \in RoleKeys, NEW key \in RoleKeys, UpdatePauser(signer, key)
      PROVE  TypeOK'
  BY <1>4, KeysAssumption DEF UpdatePauser, attesters, messages, service
<1>5. ASSUME NEW signer \in RoleKeys, NEW key \in RoleKeys, UpdateAttesterManager(signer, key)
      PROVE  TypeOK'
  BY <1>5, KeysAssumption DEF UpdateAttesterManager, attesters, messages, service
<1>6. ASSUME NEW signer \in RoleKeys, Pause(signer) \/ Unpause(signer)
      PROVE  TypeOK'
  BY <1>6 DEF Pause, Unpause, roles, attesters, messages, service
<1>7. ASSUME NEW signer \in RoleKeys, NEW size \in BodySizes, SetMaxMessageBodySize(signer, size)
      PROVE  TypeOK'
  BY <1>7, BodyAssumption DEF SetMaxMessageBodySize, roles, attesters, messages, service
<1>8. ASSUME NEW signer \in RoleKeys, NEW a \in Attesters, EnableAttester(signer, a)
      PROVE  TypeOK'
  <2>1. enabled_attesters' \in Seq(Attesters \union {Default})
    BY <1>8, AppendProperties DEF EnableAttester
  <2>2. attester_slots' \in Nat
    BY <1>8, LenProperties DEF EnableAttester, SlotsToEnable
  <2>3. QED
    BY <1>8, <2>1, <2>2 DEF EnableAttester, roles, messages, service
<1>9. ASSUME NEW signer \in RoleKeys, NEW a \in Attesters \union {Default}, DisableAttester(signer, a)
      PROVE  TypeOK'
  <2>1. enabled_attesters' \in Seq(Attesters \union {Default})
    BY <1>9, RemovePositionProperties DEF DisableAttester
  <2>2. attester_slots' \in Nat
    BY <1>9, LenProperties DEF DisableAttester, SlotsToDisable
  <2>3. QED
    BY <1>9, <2>1, <2>2 DEF DisableAttester, roles, messages, service
<1>10. ASSUME NEW signer \in RoleKeys, NEW t \in 0..(Cardinality(Attesters) + 1),
              SetSignatureThreshold(signer, t)
       PROVE  TypeOK'
  <2>1. t \in Nat
    BY <1>10, LenProperties DEF SetSignatureThreshold
  <2>2. QED
    BY <1>10, <2>1 DEF SetSignatureThreshold, roles, messages, service
<1>11. ASSUME NEW event \in EventAccounts, NEW payer \in Keys, NEW params \in SendParams,
              SendMessage(event, payer, params)
       PROVE  TypeOK'
  <2>1. FormatMessage(params) \in Message
    BY FormatMessageType DEF EMPTY_FINALITY_THRESHOLD_EXECUTED
  <2>2. event_accounts' \in [EventAccounts -> MessageSent \union {NoAccount}]
    BY <1>11, <2>1 DEF SendMessage, MessageSent
  <2>3. QED
    BY <1>11, <2>2 DEF SendMessage, roles, attesters, service
<1>12. ASSUME NEW m \in Presentable, NEW attestation \in Attestations, NEW key \in Keys,
              NEW event \in EventAccounts, ReclaimEventAccount(event, key, m, attestation)
       PROVE  TypeOK'
  BY <1>12 DEF ReclaimEventAccount, roles, attesters, service
<1>13. ASSUME NEW m \in Presentable, NEW attestation \in Attestations, NEW key \in Keys,
              ReceiveMessage(key, m, attestation)
       PROVE  TypeOK'
  <2>1. m \in AttestedMessage /\ m.nonce \in Nonces
    BY RemoteAssumption DEF AttestedMessage, Presentable
  <2>2. [caller |-> key, message |-> m,
         handler |-> HandlerName(m.finality_threshold_executed)] \in MessageReceived
    BY <2>1 DEF MessageReceived, HandlerName
  <2>3. deliveries' \in [Nonces -> Seq(MessageReceived)]
    BY <1>13, <2>1, <2>2, AppendProperties DEF ReceiveMessage
  <2>4. QED
    BY <1>13, <2>1, <2>3 DEF ReceiveMessage, roles, attesters, service
<1>14. ASSUME NEW event \in EventAccounts, NEW nonce \in FreshNonces,
              NEW finality \in Finalities, AttestSent(event, nonce, finality)
       PROVE  TypeOK'
  <2>1. event_accounts[event] \in MessageSent
    BY <1>14 DEF AttestSent
  <2>2. event_accounts[event].message \in Message
    BY <2>1 DEF MessageSent
  <2>3. attested' \subseteq AttestedMessage
    BY <1>14, <2>2, AttestedType DEF AttestSent, FreshNonces
  <2>4. event_accounts' \in [EventAccounts -> MessageSent \union {NoAccount}]
    BY <1>14, <2>1 DEF AttestSent, MessageSent
  <2>5. QED
    BY <1>14, <2>3, <2>4 DEF AttestSent, roles, attesters
<1>15. ASSUME NEW m \in RemoteMessages, AttestRemote(m)
       PROVE  TypeOK'
  BY <1>15, RemoteAssumption DEF AttestRemote, roles, attesters, messages
<1>16. ASSUME NEW attester \in Attesters, NEW m \in attested, Sign(attester, m)
       PROVE  TypeOK'
  BY <1>16 DEF Sign, roles, attesters, messages
<1>17. CASE Tick
  BY <1>17 DEF Tick, roles, attesters, messages, service
<1>18. CASE UNCHANGED vars
  BY <1>18 DEF vars, roles, attesters, messages, service
<1>19. QED
  BY <1>1, <1>2, <1>3, <1>4, <1>5, <1>6, <1>7, <1>8, <1>9, <1>10, <1>11, <1>12, <1>13,
     <1>14, <1>15, <1>16, <1>17, <1>18
     DEF Next, AdminNext, MessageNext, ServiceNext

(***************************************************************************)
(* Every variable keeps its type.                                          *)
(***************************************************************************)
THEOREM TypeCorrect == Spec => []TypeOK
BY TypeInit, TypeStep, PTL DEF Spec

-----------------------------------------------------------------------------
(***************************************************************************)
(* The state account: roles, threshold and attesters.  The conjuncts are   *)
(* inductive together: disabling keeps the threshold in range only because *)
(* the Vec has no duplicates to hide, and a role can only be given away by *)
(* a signer, which Pubkey::default() never is.                             *)
(***************************************************************************)
ThresholdInRange ==
  initialized =>
    /\ signature_threshold \in 1..Len(enabled_attesters)
    /\ IsInjective(enabled_attesters)

AccountInv == StateStaysValid /\ ThresholdInRange /\ SlotsFitAttesters

LEMMA AccountInit == Init => AccountInv
BY EmptySeq DEF Init, AccountInv, StateStaysValid, ThresholdInRange, SlotsFitAttesters

\* No message instruction writes the program's account.
LEMMA MessagesKeepAccount == MessageNext => UNCHANGED <<initialized, roles, attesters>>
<1>1. ASSUME NEW event \in EventAccounts, NEW payer \in Keys, NEW params \in SendParams,
             SendMessage(event, payer, params)
      PROVE  UNCHANGED <<initialized, roles, attesters>>
  BY <1>1 DEF SendMessage
<1>2. ASSUME NEW m \in Presentable, NEW attestation \in Attestations, NEW key \in Keys,
             NEW event \in EventAccounts, ReclaimEventAccount(event, key, m, attestation)
      PROVE  UNCHANGED <<initialized, roles, attesters>>
  BY <1>2 DEF ReclaimEventAccount
<1>3. ASSUME NEW m \in Presentable, NEW attestation \in Attestations, NEW key \in Keys,
             ReceiveMessage(key, m, attestation)
      PROVE  UNCHANGED <<initialized, roles, attesters>>
  BY <1>3 DEF ReceiveMessage
<1>4. QED  BY <1>1, <1>2, <1>3 DEF MessageNext

LEMMA AccountStep == TypeOK /\ AccountInv /\ [Next]_vars => AccountInv'
<1> SUFFICES ASSUME TypeOK, AccountInv, [Next]_vars PROVE AccountInv'
  OBVIOUS
<1> USE DEF AccountInv, StateStaysValid, ThresholdInRange, SlotsFitAttesters, Validate
<1>0. Default \notin RoleKeys
  BY KeysAssumption
<1>1. ASSUME NEW signer \in RoleKeys, NEW attester \in Attesters \union {Default},
             NEW size \in BodySizes, Initialize(signer, attester, size)
      PROVE  AccountInv'
  BY <1>0, <1>1 DEF Initialize, IsInjective
<1>2. ASSUME NEW signer \in RoleKeys, NEW key \in RoleKeys, TransferOwnership(signer, key)
      PROVE  AccountInv'
  BY <1>2 DEF TransferOwnership, HasOne, attesters
<1>3. ASSUME NEW signer \in RoleKeys, AcceptOwnership(signer)
      PROVE  AccountInv'
  BY <1>0, <1>3 DEF AcceptOwnership, HasOne, attesters
<1>4. ASSUME NEW signer \in RoleKeys, NEW key \in RoleKeys, UpdatePauser(signer, key)
      PROVE  AccountInv'
  BY <1>4 DEF UpdatePauser, attesters
<1>5. ASSUME NEW signer \in RoleKeys, NEW key \in RoleKeys, UpdateAttesterManager(signer, key)
      PROVE  AccountInv'
  BY <1>5 DEF UpdateAttesterManager, attesters
<1>6. ASSUME NEW signer \in RoleKeys, NEW a \in Attesters, EnableAttester(signer, a)
      PROVE  AccountInv'
  <2>1. /\ Len(enabled_attesters) \in Nat
        /\ DOMAIN enabled_attesters = 1..Len(enabled_attesters)
    BY LenProperties DEF TypeOK
  <2>2. /\ enabled_attesters' = Append(enabled_attesters, a)
        /\ enabled_attesters' \in Seq(Attesters \union {Default})
        /\ Len(enabled_attesters') = Len(enabled_attesters) + 1
        /\ \A i \in 1..Len(enabled_attesters) : enabled_attesters'[i] = enabled_attesters[i]
        /\ enabled_attesters'[Len(enabled_attesters) + 1] = a
    BY <1>6, AppendProperties DEF EnableAttester, TypeOK
  <2>3. DOMAIN enabled_attesters' = 1..(Len(enabled_attesters) + 1)
    BY <2>2, LenProperties
  <2>4. \A i \in 1..Len(enabled_attesters) : enabled_attesters[i] # a
    BY <1>6, <2>1 DEF EnableAttester, IsEnabledAttester, EnabledAttesters, Range
  <2>5. initialized => IsInjective(enabled_attesters')
    BY <2>1, <2>2, <2>3, <2>4 DEF IsInjective
  <2>6. enabled_attesters' # << >>
    BY <2>1, <2>2
  <2>7. SlotsFitAttesters'
    BY <1>6, <2>1, <2>2 DEF EnableAttester, SlotsToEnable
  <2>8. QED
    BY <1>6, <2>1, <2>2, <2>5, <2>6, <2>7 DEF EnableAttester, roles, TypeOK
<1>7. ASSUME NEW signer \in RoleKeys, NEW a \in Attesters \union {Default}, DisableAttester(signer, a)
      PROVE  AccountInv'
  <2>1. /\ Len(enabled_attesters) \in Nat
        /\ Len(enabled_attesters) > 1
        /\ Len(enabled_attesters) > signature_threshold
        /\ DOMAIN enabled_attesters = 1..Len(enabled_attesters)
    BY <1>7, LenProperties DEF TypeOK, DisableAttester, CanSpareAttester
  <2>2. PICK pos \in 1..Len(enabled_attesters) :
          enabled_attesters' = RemovePosition(enabled_attesters, pos)
    BY <1>7 DEF DisableAttester
  <2>3. /\ enabled_attesters' \in Seq(Attesters \union {Default})
        /\ Len(enabled_attesters') = Len(enabled_attesters) - 1
        /\ \A i \in 1..(Len(enabled_attesters) - 1) :
             enabled_attesters'[i] = IF i < pos THEN enabled_attesters[i]
                                     ELSE enabled_attesters[i + 1]
    BY <2>2, RemovePositionProperties DEF TypeOK
  <2>4. DOMAIN enabled_attesters' = 1..(Len(enabled_attesters) - 1)
    BY <2>3, LenProperties
  <2>5. initialized => IsInjective(enabled_attesters')
    <3> DEFINE old(i) == IF i < pos THEN i ELSE i + 1
    <3> SUFFICES ASSUME initialized,
                        NEW i \in 1..(Len(enabled_attesters) - 1),
                        NEW j \in 1..(Len(enabled_attesters) - 1),
                        enabled_attesters'[i] = enabled_attesters'[j]
                 PROVE  i = j
      BY <2>4 DEF IsInjective
    <3>1. /\ old(i) \in 1..Len(enabled_attesters)
          /\ old(j) \in 1..Len(enabled_attesters)
      BY <2>1
    <3>2. /\ enabled_attesters'[i] = enabled_attesters[old(i)]
          /\ enabled_attesters'[j] = enabled_attesters[old(j)]
      BY <2>3
    <3>3. old(i) = old(j)
      BY <2>1, <3>1, <3>2 DEF IsInjective
    <3>4. QED  BY <2>1, <3>3
  <2>6. enabled_attesters' # << >>
    BY <2>1, <2>3
  <2>7. SlotsFitAttesters'
    BY <1>7, <2>1, <2>3 DEF DisableAttester, SlotsToDisable
  <2>8. QED
    BY <1>7, <2>1, <2>3, <2>5, <2>6, <2>7 DEF DisableAttester, roles, TypeOK
<1>8. ASSUME NEW signer \in RoleKeys, NEW t \in 0..(Cardinality(Attesters) + 1),
              SetSignatureThreshold(signer, t)
       PROVE  AccountInv'
  <2>1. Len(enabled_attesters) \in Nat
    BY LenProperties DEF TypeOK
  <2>2. QED
    BY <1>8, <2>1 DEF SetSignatureThreshold, HasOne, roles
<1>9. CASE UNCHANGED <<initialized, roles, attesters>>
  BY <1>9 DEF roles, attesters
<1>10. CASE AdminNext
  <2>1. PICK signer \in RoleKeys :
          \/ \E attester \in Attesters \union {Default}, size \in BodySizes :
               Initialize(signer, attester, size)
          \/ \E key \in RoleKeys : TransferOwnership(signer, key)
          \/ AcceptOwnership(signer)
          \/ \E key \in RoleKeys : UpdatePauser(signer, key)
          \/ \E key \in RoleKeys : UpdateAttesterManager(signer, key)
          \/ \E a \in Attesters : EnableAttester(signer, a)
          \/ \E a \in Attesters \union {Default} : DisableAttester(signer, a)
          \/ \E t \in 0..(Cardinality(Attesters) + 1) : SetSignatureThreshold(signer, t)
          \/ UNCHANGED <<initialized, roles, attesters>>
    BY <1>10 DEF AdminNext, Pause, Unpause, SetMaxMessageBodySize
  <2> HIDE DEF AccountInv
  <2>2. QED
    BY <1>1, <1>2, <1>3, <1>4, <1>5, <1>6, <1>7, <1>8, <1>9, <2>1
<1>11. CASE MessageNext
  BY <1>9, <1>11, MessagesKeepAccount
<1>12. CASE ServiceNext
  <2> HIDE DEF AccountInv
  <2>1. UNCHANGED <<initialized, roles, attesters>>
    BY <1>12 DEF ServiceNext, AttestSent, AttestRemote, Sign, Tick
  <2>2. QED  BY <1>9, <2>1
<1>13. CASE UNCHANGED vars
  BY <1>9, <1>13 DEF vars
<1>14. QED  BY <1>10, <1>11, <1>12, <1>13 DEF Next

LEMMA AccountInvariant == Spec => []AccountInv
<1>1. Init => TypeOK /\ AccountInv
  BY TypeInit, AccountInit
<1>2. TypeOK /\ AccountInv /\ [Next]_vars => (TypeOK /\ AccountInv)'
  BY TypeStep, AccountStep
<1>3. QED  BY <1>1, <1>2, PTL DEF Spec

(***************************************************************************)
(* What validate() checks at initialization is never lost: no role is ever *)
(* Pubkey::default() and the owner is never its own nominee.               *)
(***************************************************************************)
THEOREM ValidityPreserved == Spec => []StateStaysValid
<1>1. AccountInv => StateStaysValid
  BY DEF AccountInv
<1>2. QED  BY <1>1, AccountInvariant, PTL

(***************************************************************************)
(* The reallocated account always has exactly the space its Vec needs.     *)
(***************************************************************************)
THEOREM AccountSpaceFits == Spec => []SlotsFitAttesters
<1>1. AccountInv => SlotsFitAttesters
  BY DEF AccountInv
<1>2. QED  BY <1>1, AccountInvariant, PTL

-----------------------------------------------------------------------------
(***************************************************************************)
(* Deliveries, signatures and the event account window.                    *)
(***************************************************************************)
DeliveryInv == NonceUsedIffDelivered /\ SignedAreAttested /\ UnreadAreRecent

LEMMA DeliveryInit == Init => DeliveryInv
BY EmptySeq
   DEF Init, DeliveryInv, NonceUsedIffDelivered, IsNonceUsed, SignedAreAttested, UnreadAreRecent

LEMMA DeliveryStep == TypeOK /\ DeliveryInv /\ [Next]_vars => DeliveryInv'
<1> SUFFICES ASSUME TypeOK, DeliveryInv, [Next]_vars PROVE DeliveryInv'
  OBVIOUS
<1> USE DEF DeliveryInv
<1>1. ASSUME NEW event \in EventAccounts, NEW payer \in Keys, NEW params \in SendParams,
             SendMessage(event, payer, params)
      PROVE  DeliveryInv'
  <2>1. UnreadAreRecent'
    BY <1>1, ClockAssumption DEF SendMessage, UnreadAreRecent, TypeOK
  <2>2. QED
    BY <1>1, <2>1 DEF SendMessage, service, NonceUsedIffDelivered, IsNonceUsed, SignedAreAttested
<1>2. ASSUME NEW m \in Presentable, NEW attestation \in Attestations, NEW key \in Keys,
             NEW event \in EventAccounts, ReclaimEventAccount(event, key, m, attestation)
      PROVE  DeliveryInv'
  BY <1>2 DEF ReclaimEventAccount, service, NonceUsedIffDelivered, IsNonceUsed,
              SignedAreAttested, UnreadAreRecent, TypeOK
<1>3. ASSUME NEW m \in Presentable, NEW attestation \in Attestations, NEW key \in Keys,
             ReceiveMessage(key, m, attestation)
      PROVE  DeliveryInv'
  <2>1. m \in AttestedMessage /\ m.nonce \in Nonces
    BY RemoteAssumption DEF AttestedMessage, Presentable, TypeOK
  <2> DEFINE event == [caller |-> key, message |-> m,
                       handler |-> HandlerName(m.finality_threshold_executed)]
  <2>2. event \in MessageReceived
    BY <2>1 DEF MessageReceived, HandlerName
  <2> HIDE DEF event
  <2>3. /\ deliveries[m.nonce] \in Seq(MessageReceived)
        /\ Len(deliveries[m.nonce]) = 0
    BY <1>3, <2>1 DEF ReceiveMessage, NonceUnused, NonceUsedIffDelivered, IsNonceUsed, TypeOK
  <2>4. Len(Append(deliveries[m.nonce], event)) = 1
    BY <2>2, <2>3, AppendProperties
  <2>5. deliveries' = [deliveries EXCEPT ![m.nonce] = Append(deliveries[m.nonce], event)]
    BY <1>3 DEF ReceiveMessage, event
  <2>6. NonceUsedIffDelivered'
    BY <1>3, <2>1, <2>4, <2>5 DEF ReceiveMessage, NonceUsedIffDelivered, IsNonceUsed, TypeOK
  <2>7. QED
    BY <1>3, <2>6 DEF ReceiveMessage, service, SignedAreAttested, UnreadAreRecent
<1>4. ASSUME NEW event \in EventAccounts, NEW nonce \in FreshNonces,
             NEW finality \in Finalities, AttestSent(event, nonce, finality)
      PROVE  DeliveryInv'
  <2>1. event_accounts[event] \in MessageSent /\ event_accounts'[event].read
    BY <1>4 DEF AttestSent, TypeOK, MessageSent
  <2>2. QED
    BY <1>4, <2>1 DEF AttestSent, NonceUsedIffDelivered, IsNonceUsed, SignedAreAttested,
                      UnreadAreRecent, TypeOK
<1>5. ASSUME NEW m \in RemoteMessages, AttestRemote(m)
      PROVE  DeliveryInv'
  BY <1>5 DEF AttestRemote, messages, NonceUsedIffDelivered, IsNonceUsed, SignedAreAttested,
              UnreadAreRecent
<1>6. ASSUME NEW attester \in Attesters, NEW m \in attested, Sign(attester, m)
      PROVE  DeliveryInv'
  BY <1>6 DEF Sign, messages, NonceUsedIffDelivered, IsNonceUsed, SignedAreAttested,
              UnreadAreRecent
<1>7. CASE Tick
  BY <1>7 DEF Tick, messages, service, NonceUsedIffDelivered, IsNonceUsed, SignedAreAttested,
              UnreadAreRecent
<1>8. CASE UNCHANGED <<messages, service, now>>
  BY <1>8 DEF messages, service, NonceUsedIffDelivered, IsNonceUsed, SignedAreAttested,
              UnreadAreRecent
<1>9. QED
  BY <1>1, <1>2, <1>3, <1>4, <1>5, <1>6, <1>7, <1>8
     DEF Next, AdminNext, MessageNext, ServiceNext, vars, Initialize, TransferOwnership,
         AcceptOwnership, UpdatePauser, UpdateAttesterManager, Pause, Unpause,
         SetMaxMessageBodySize, EnableAttester, DisableAttester, SetSignatureThreshold

IInv == TypeOK /\ AccountInv /\ DeliveryInv

LEMMA InductiveInvariant == Spec => []IInv
<1>1. Init => IInv
  BY TypeInit, AccountInit, DeliveryInit DEF IInv
<1>2. IInv /\ [Next]_vars => IInv'
  BY TypeStep, AccountStep, DeliveryStep DEF IInv
<1>3. QED  BY <1>1, <1>2, PTL DEF Spec

(***************************************************************************)
(* is_nonce_used answers whether the receiver was called with that nonce,  *)
(* which happens at most once.                                             *)
(***************************************************************************)
THEOREM NonceUsedOnce == Spec => []NonceUsedIffDelivered
<1>1. IInv => NonceUsedIffDelivered
  BY DEF IInv, DeliveryInv
<1>2. QED  BY <1>1, InductiveInvariant, PTL

(***************************************************************************)
(* No event account is closed before the attestation service has read it,  *)
(* provided the service reads accounts within their window.                *)
(***************************************************************************)
THEOREM NoAccountMissed == Spec => ClosedOnlyOnceRead
<1> DEFINE OnlyOnceRead ==
      \A e \in EventAccounts :
        event_accounts[e] # NoAccount /\ event_accounts'[e] = NoAccount
          => event_accounts[e].read
<1>1. IInv /\ [Next]_vars => [OnlyOnceRead]_vars
  <2> SUFFICES ASSUME IInv, Next PROVE OnlyOnceRead
    OBVIOUS
  <2> USE DEF IInv, DeliveryInv, UnreadAreRecent
  <2>1. ASSUME NEW m \in Presentable, NEW attestation \in Attestations, NEW key \in Keys,
               NEW event \in EventAccounts, ReclaimEventAccount(event, key, m, attestation)
        PROVE  OnlyOnceRead
    <3>1. event_accounts[event] \in MessageSent
      BY <2>1 DEF ReclaimEventAccount, TypeOK
    <3>2. event_accounts[event].created_at \in Nat /\ now \in Nat
      BY <3>1 DEF MessageSent, TypeOK
    <3>3. event_accounts[event].read
      BY <2>1, <3>2, ClockAssumption DEF ReclaimEventAccount, WindowExpired
    <3>4. QED
      BY <2>1, <3>3 DEF ReclaimEventAccount, TypeOK
  <2>2. ASSUME NEW event \in EventAccounts, NEW payer \in Keys, NEW params \in SendParams,
               SendMessage(event, payer, params)
        PROVE  OnlyOnceRead
    BY <2>2 DEF SendMessage, TypeOK
  <2>3. ASSUME NEW event \in EventAccounts, NEW nonce \in FreshNonces,
               NEW finality \in Finalities, AttestSent(event, nonce, finality)
        PROVE  OnlyOnceRead
    <3>1. event_accounts[event] \in MessageSent
      BY <2>3 DEF AttestSent, TypeOK
    <3>2. event_accounts'[event] \in MessageSent
      BY <2>3, <3>1 DEF AttestSent, TypeOK, MessageSent
    <3>3. QED
      BY <2>3, <3>2, NoAccountAssumption DEF AttestSent, TypeOK
  <2>4. CASE UNCHANGED event_accounts
    BY <2>4
  <2>5. QED
    BY <2>1, <2>2, <2>3, <2>4
       DEF Next, AdminNext, MessageNext, ServiceNext, messages, Initialize, TransferOwnership,
           AcceptOwnership, UpdatePauser, UpdateAttesterManager, Pause, Unpause,
           SetMaxMessageBodySize, EnableAttester, DisableAttester, SetSignatureThreshold,
           ReceiveMessage, AttestRemote, Sign, Tick
<1>2. QED
  BY <1>1, InductiveInvariant, PTL DEF Spec, ClosedOnlyOnceRead

-----------------------------------------------------------------------------
(***************************************************************************)
(* The program implements the channel.                                     *)
(***************************************************************************)
\* An attestation that verifies has a first signature, because the threshold
\* is positive, and a signature is made over an attested message only.
LEMMA VerifiedIsAttested ==
  ASSUME IInv, initialized, NEW m, NEW attestation \in Attestations,
         MadeBySigners(m, attestation), VerifyAttestationSignatures(attestation)
  PROVE  m \in attested
<1>1. signature_threshold \in Nat \ {0}
  BY DEF IInv, TypeOK, AccountInv, StateStaysValid, Validate
<1>2. PICK n \in 0..Cardinality(Attesters) : attestation \in [1..n -> Attesters]
  BY DEF Attestations
<1>3. n \in Nat
  OBVIOUS
<1>4. Len(attestation) = n
  BY <1>2, <1>3
<1>5. 1 \in DOMAIN attestation
  BY <1>1, <1>2, <1>3, <1>4 DEF VerifyAttestationSignatures
<1>6. <<attestation[1], m>> \in signed
  BY <1>5 DEF MadeBySigners
<1>7. QED
  BY <1>6 DEF IInv, DeliveryInv, SignedAreAttested

(***************************************************************************)
(* MessageTransmitter implements MessageChannel: each attested message is  *)
(* handed over at most once, to the program it is addressed to, presented  *)
(* by the caller it names.                                                 *)
(***************************************************************************)
THEOREM ImplementsChannel == Spec => ChannelSpec
<1>1. Init => Channel!Init
  BY DEF Init, Channel!Init
<1>2. IInv /\ [Next]_vars => [Channel!Next]_<<attested, deliveries>>
  <2> SUFFICES ASSUME IInv, Next
               PROVE  Channel!Next \/ UNCHANGED <<attested, deliveries>>
    BY DEF vars, messages, service
  <2>1. ASSUME NEW m \in Presentable, NEW attestation \in Attestations, NEW key \in Keys,
               ReceiveMessage(key, m, attestation)
        PROVE  Channel!Next
    <3>1. m \in attested
      BY <2>1, VerifiedIsAttested DEF ReceiveMessage
    <3>2. m \in AttestedMessage /\ m.nonce \in Nonces
      BY <3>1 DEF IInv, TypeOK, AttestedMessage
    <3> DEFINE event == [caller |-> key, message |-> m,
                         handler |-> HandlerName(m.finality_threshold_executed)]
    <3>3. event = [caller |-> key, message |-> m, handler |-> Channel!Handler(m)]
      BY DEF HandlerName, Channel!Handler, FINALITY_THRESHOLD_FINALIZED
    <3>4. /\ deliveries[m.nonce] \in Seq(MessageReceived)
          /\ Len(deliveries[m.nonce]) = 0
      BY <2>1, <3>2
         DEF ReceiveMessage, NonceUnused, IInv, TypeOK, DeliveryInv, NonceUsedIffDelivered, IsNonceUsed
    <3>5. deliveries[m.nonce] = << >>
      BY <3>4, EmptySeq
    <3>6. deliveries' = [deliveries EXCEPT ![m.nonce] = <<event>>]
      BY <2>1, <3>5 DEF ReceiveMessage
    <3>7. Channel!Deliver(m, key)
      BY <2>1, <3>3, <3>5, <3>6 DEF ReceiveMessage, MayReceive, AddressedHere, Channel!Deliver, service
    <3>8. QED  BY <3>1, <3>7 DEF Channel!Next
  <2>2. ASSUME NEW event \in EventAccounts, NEW nonce \in FreshNonces,
               NEW finality \in Finalities, AttestSent(event, nonce, finality)
        PROVE  Channel!Next
    BY <2>2 DEF AttestSent, Channel!Next, Channel!Attest
  <2>3. ASSUME NEW m \in RemoteMessages, AttestRemote(m)
        PROVE  Channel!Next
    BY <2>3 DEF AttestRemote, messages, Channel!Next, Channel!Attest
  <2>4. CASE UNCHANGED <<attested, deliveries>>
    BY <2>4
  <2>5. QED
    BY <2>1, <2>2, <2>3, <2>4
       DEF Next, AdminNext, MessageNext, ServiceNext, messages, service, Initialize,
           TransferOwnership, AcceptOwnership, UpdatePauser, UpdateAttesterManager, Pause,
           Unpause, SetMaxMessageBodySize, EnableAttester, DisableAttester,
           SetSignatureThreshold, SendMessage, ReclaimEventAccount, Sign, Tick
<1>3. QED
  BY <1>1, <1>2, InductiveInvariant, PTL DEF Spec, ChannelSpec, Channel!Spec

(***************************************************************************)
(* While the program is paused nothing is sent, received or closed.        *)
(***************************************************************************)
THEOREM PauseStopsMessages == Spec => PausedIsQuiet
<1> DEFINE Quiet ==
      paused => /\ UNCHANGED <<used_nonces, deliveries>>
                /\ \A e \in EventAccounts :
                     (event_accounts'[e] = NoAccount) = (event_accounts[e] = NoAccount)
<1>1. IInv /\ [Next]_vars => [Quiet]_vars
  <2> SUFFICES ASSUME IInv, Next, paused PROVE Quiet
    BY DEF vars, messages
  <2>1. ASSUME NEW event \in EventAccounts, NEW nonce \in FreshNonces,
               NEW finality \in Finalities, AttestSent(event, nonce, finality)
        PROVE  Quiet
    <3>1. event_accounts[event] \in MessageSent
      BY <2>1 DEF AttestSent, IInv, TypeOK
    <3>2. event_accounts'[event] \in MessageSent
      BY <2>1, <3>1 DEF AttestSent, IInv, TypeOK, MessageSent
    <3>3. QED
      BY <2>1, <3>1, <3>2, NoAccountAssumption DEF AttestSent, IInv, TypeOK
  <2>2. CASE UNCHANGED messages
    BY <2>2 DEF messages
  <2>3. CASE AdminNext
    <3>1. UNCHANGED messages
      BY <2>3 DEF AdminNext, Initialize, TransferOwnership, AcceptOwnership, UpdatePauser,
                  UpdateAttesterManager, Pause, Unpause, SetMaxMessageBodySize,
                  EnableAttester, DisableAttester, SetSignatureThreshold
    <3>2. QED  BY <2>2, <3>1
  <2>4. ~MessageNext
    BY DEF MessageNext, SendMessage, CanSend, ReclaimEventAccount, ReceiveMessage, MayReceive
  <2>5. CASE ServiceNext
    <3>1. UNCHANGED messages \/ \E event \in EventAccounts, nonce \in FreshNonces,
                                   finality \in Finalities : AttestSent(event, nonce, finality)
      BY <2>5 DEF ServiceNext, AttestRemote, Sign, Tick
    <3>2. QED  BY <2>1, <2>2, <3>1
  <2>6. QED  BY <2>3, <2>4, <2>5 DEF Next
<1>2. QED
  BY <1>1, InductiveInvariant, PTL DEF Spec, PausedIsQuiet

-----------------------------------------------------------------------------
(***************************************************************************)
(* Attestations carry distinct signatures.                                 *)
(***************************************************************************)
\* Induction over the naturals, as a least element of a set: the induction
\* theorems of the library take an operator, this takes a set.
LEMMA LeastNatural ==
  ASSUME NEW S \in SUBSET Nat, S # {}
  PROVE  \E n \in S : \A k \in S : n <= k
<1>1. PICK n \in S : \A k \in S : <<k, n>> \notin OpToRel(<, Nat)
  BY WFMin, NatLessThanWellFounded
<1>2. \A k \in S : ~(k < n)
  BY <1>1 DEF OpToRel
<1>3. QED  BY <1>2

\* The comparison with the previous address only makes all of them distinct.
LEMMA VerifiedIsIncreasing ==
  ASSUME NEW n \in Nat, NEW att \in [1..n -> Nat],
         \A i \in 1..n : i > 1 => att[i] > att[i - 1],
         NEW i \in 1..n, NEW j \in 1..n, i < j
  PROVE  att[i] < att[j]
<1> DEFINE Bad == {k \in Nat : k \in (i + 1)..n /\ att[k] <= att[i]}
<1>1. \A k \in 1..n : att[k] \in Nat
  OBVIOUS
<1>2. ASSUME Bad # {} PROVE FALSE
  <2>1. PICK k \in Bad : \A l \in Bad : k <= l
    BY <1>2, LeastNatural
  <2>2. k \in (i + 1)..n /\ att[k] <= att[i] /\ k - 1 \in i..n /\ k - 1 \in Nat
    BY <2>1
  <2>3. k - 1 \notin Bad
    BY <2>1, <2>2
  <2>4. CASE k - 1 = i
    BY <1>1, <2>2, <2>4
  <2>5. CASE k - 1 # i
    <3>1. att[k - 1] > att[i]
      BY <1>1, <2>2, <2>3, <2>5
    <3>2. att[k] > att[k - 1]
      BY <2>2
    <3>3. att[k] \in Nat /\ att[k - 1] \in Nat /\ att[i] \in Nat
      BY <1>1, <2>2
    <3>4. QED  BY <2>2, <3>1, <3>2, <3>3
  <2>6. QED  BY <2>4, <2>5
<1>3. j \in Nat /\ j \in (i + 1)..n /\ att[i] \in Nat /\ att[j] \in Nat
  OBVIOUS
<1>4. j \notin Bad
  BY <1>2
<1>5. ~(att[j] <= att[i])
  BY <1>3, <1>4
<1> HIDE DEF Bad
<1>6. QED  BY <1>3, <1>5

(***************************************************************************)
(* An attestation that verifies carries the signatures of at least         *)
(* signature_threshold different attesters that are enabled.               *)
(***************************************************************************)
LEMMA VerifiedHasQuorum ==
  ASSUME TypeOK, NEW m, NEW attestation \in Attestations,
         MadeBySigners(m, attestation), VerifyAttestationSignatures(attestation)
  PROVE  Cardinality(Attesting(m)) >= signature_threshold
<1> DEFINE t == signature_threshold
<1>1. t \in Nat
  BY DEF TypeOK
<1>2. attestation \in [1..t -> Attesters]
  <2>1. PICK n \in 0..Cardinality(Attesters) : attestation \in [1..n -> Attesters]
    BY DEF Attestations
  <2>2. Len(attestation) = n
    BY <2>1
  <2>3. QED  BY <2>1, <2>2 DEF VerifyAttestationSignatures
<1> HIDE DEF t
<1>3. attestation \in [1..t -> Nat]
  BY <1>2, KeysAssumption
<1>4. \A i \in 1..t : i > 1 => attestation[i] > attestation[i - 1]
  BY <1>1 DEF VerifyAttestationSignatures, LastAttester, t
<1>5. ASSUME NEW i \in 1..t, NEW j \in 1..t, attestation[i] = attestation[j]
      PROVE  i = j
  <2>1. ~(i < j) /\ ~(j < i)
    <3>1. ASSUME i < j PROVE attestation[i] < attestation[j]
      BY <1>1, <1>3, <1>4, <3>1, VerifiedIsIncreasing
    <3>2. ASSUME j < i PROVE attestation[j] < attestation[i]
      BY <1>1, <1>3, <1>4, <3>2, VerifiedIsIncreasing
    <3>3. attestation[i] \in Nat /\ attestation[j] \in Nat
      BY <1>3
    <3>4. QED  BY <1>5, <3>1, <3>2, <3>3
  <2>2. QED  BY <1>1, <2>1
<1>6. \A i \in 1..t : attestation[i] \in Attesting(m)
  BY <1>2 DEF VerifyAttestationSignatures, IsEnabledAttester, MadeBySigners, Attesting, t
<1>7. attestation \in Injection(1..t, Attesting(m))
  BY <1>2, <1>5, <1>6 DEF Injection, IsInjective
<1>8. IsFiniteSet(Attesting(m))
  <2>1. Len(enabled_attesters) \in Nat /\ DOMAIN enabled_attesters = 1..Len(enabled_attesters)
    BY LenProperties DEF TypeOK
  <2>2. IsFiniteSet(1..Len(enabled_attesters))
    BY <2>1, FS_Interval
  <2>3. enabled_attesters \in Surjection(1..Len(enabled_attesters), EnabledAttesters)
    BY <2>1, SeqDef DEF TypeOK, Surjection, EnabledAttesters, Range
  <2>4. IsFiniteSet(EnabledAttesters)
    BY <2>2, <2>3, FS_Surjection
  <2>5. QED  BY <2>4, FS_Subset DEF Attesting
<1>9. Cardinality(1..t) <= Cardinality(Attesting(m))
  BY <1>7, <1>8, FS_Injection
<1>10. Cardinality(1..t) = t
  BY <1>1, FS_Interval
<1>11. QED
  BY <1>1, <1>8, <1>9, <1>10, FS_CardinalityType DEF t

(***************************************************************************)
(* A message is handed to its receiver only when at least                  *)
(* signature_threshold distinct attesters that are enabled at that moment  *)
(* have signed it, for any number of attesters and any threshold.          *)
(***************************************************************************)
THEOREM DeliveryNeedsQuorum == Spec => QuorumBehindDelivery
<1> DEFINE Quorum ==
      \A n \in Nonces : deliveries'[n] # deliveries[n] =>
        Cardinality(Attesting(deliveries'[n][Len(deliveries'[n])].message))
          >= signature_threshold
<1>1. IInv /\ [Next]_vars => [Quorum]_vars
  <2> SUFFICES ASSUME IInv, Next PROVE Quorum
    OBVIOUS
  <2>1. ASSUME NEW m \in Presentable, NEW attestation \in Attestations, NEW key \in Keys,
               ReceiveMessage(key, m, attestation), NEW n \in Nonces,
               deliveries'[n] # deliveries[n]
        PROVE  Cardinality(Attesting(deliveries'[n][Len(deliveries'[n])].message))
                 >= signature_threshold
    <3> DEFINE event == [caller |-> key, message |-> m,
                         handler |-> HandlerName(m.finality_threshold_executed)]
    <3>1. m \in AttestedMessage /\ m.nonce \in Nonces
      BY RemoteAssumption DEF AttestedMessage, Presentable, IInv, TypeOK
    <3>2. event \in MessageReceived
      BY <3>1 DEF MessageReceived, HandlerName
    <3> HIDE DEF event
    <3>3. deliveries' = [deliveries EXCEPT ![m.nonce] = Append(deliveries[m.nonce], event)]
      BY <2>1 DEF ReceiveMessage, event
    <3>4. n = m.nonce /\ deliveries[n] \in Seq(MessageReceived)
      BY <2>1, <3>1, <3>3 DEF IInv, TypeOK
    <3>5. deliveries'[n] = Append(deliveries[n], event)
      BY <3>3, <3>4 DEF IInv, TypeOK
    <3>6. deliveries'[n][Len(deliveries'[n])] = event
      BY <3>2, <3>4, <3>5, AppendProperties
    <3>7. event.message = m
      BY DEF event
    <3>8. QED
      BY <2>1, <3>6, <3>7, VerifiedHasQuorum DEF ReceiveMessage, IInv
  <2>2. CASE UNCHANGED deliveries
    BY <2>2
  <2>3. QED
    BY <2>1, <2>2
       DEF Next, AdminNext, MessageNext, ServiceNext, messages, Initialize,
           TransferOwnership, AcceptOwnership, UpdatePauser, UpdateAttesterManager, Pause,
           Unpause, SetMaxMessageBodySize, EnableAttester, DisableAttester,
           SetSignatureThreshold, SendMessage, ReclaimEventAccount, AttestSent,
           AttestRemote, Sign, Tick
<1>2. QED
  BY <1>1, InductiveInvariant, PTL DEF Spec, QuorumBehindDelivery

-----------------------------------------------------------------------------
(***************************************************************************)
(* The threshold can be met.                                               *)
(***************************************************************************)
\* The first t elements of a set of numbers, in order.
LEMMA AscendingExists ==
  ASSUME NEW S \in SUBSET Nat, IsFiniteSet(S), NEW t \in Nat, t <= Cardinality(S)
  PROVE  \E att \in [1..t -> S] : \A i \in 1..t : i > 1 => att[i] > att[i - 1]
<1> DEFINE
      Ascends(n, att) == \A i \in 1..n : i > 1 => att[i] > att[i - 1]
      \* No element of S was passed over.
      IsFirst(n, att) ==
        \A x \in S : \/ \E i \in 1..n : att[i] = x
                     \/ \A i \in 1..n : x > att[i]
      Reached(n) == \E att \in [1..n -> S] : Ascends(n, att) /\ IsFirst(n, att)
      Bad == {n \in Nat : n <= Cardinality(S) /\ ~Reached(n)}
<1>1. Cardinality(S) \in Nat
  BY FS_CardinalityType
<1>2. Reached(0)
  <2>1. [i \in 1..0 |-> i] \in [1..0 -> S]
    OBVIOUS
  <2>2. Ascends(0, [i \in 1..0 |-> i]) /\ IsFirst(0, [i \in 1..0 |-> i])
    OBVIOUS
  <2> HIDE DEF Ascends, IsFirst
  <2>3. QED  BY <2>1, <2>2
<1>3. ASSUME NEW n \in Nat, n + 1 <= Cardinality(S), Reached(n)
      PROVE  Reached(n + 1)
  <2>1. PICK att \in [1..n -> S] : Ascends(n, att) /\ IsFirst(n, att)
    BY <1>3
  <2> DEFINE taken == {att[i] : i \in 1..n}
             rest == S \ taken
  <2>2. rest # {}
    <3>1. att \in Surjection(1..n, taken)
      BY DEF Surjection
    <3>2. IsFiniteSet(1..n) /\ Cardinality(1..n) = n
      BY FS_Interval
    <3>3. Cardinality(taken) <= n
      BY <3>1, <3>2, FS_Surjection
    <3>4. ASSUME rest = {} PROVE FALSE
      <4>1. taken = S
        BY <3>4
      <4> HIDE DEF taken
      <4>2. QED  BY <1>1, <1>3, <3>3, <4>1
    <3>5. QED  BY <3>4
  <2>3. PICK next \in rest : \A x \in rest : next <= x
    BY <2>2, LeastNatural
  <2>4. /\ next \in S
        /\ \A i \in 1..n : next > att[i]
    BY <2>1, <2>3
  <2> DEFINE longer == [i \in 1..(n + 1) |-> IF i = n + 1 THEN next ELSE att[i]]
  <2>5. /\ longer \in [1..(n + 1) -> S]
        /\ longer[n + 1] = next
        /\ \A i \in 1..n : longer[i] = att[i]
    BY <2>4
  <2>6. \A i \in 1..(n + 1) : i \in 1..n \/ i = n + 1
    OBVIOUS
  <2> HIDE DEF longer
  <2>7. Ascends(n + 1, longer)
    <3> SUFFICES ASSUME NEW i \in 1..(n + 1), i > 1 PROVE longer[i] > longer[i - 1]
      OBVIOUS
    <3>1. i - 1 \in 1..n
      OBVIOUS
    <3>2. QED  BY <2>1, <2>4, <2>5, <2>6, <3>1
  <2>8. IsFirst(n + 1, longer)
    <3> SUFFICES ASSUME NEW x \in S,
                        \A i \in 1..(n + 1) : longer[i] # x,
                        NEW i \in 1..(n + 1)
                 PROVE  x > longer[i]
      OBVIOUS
    <3>1. \A k \in 1..n : att[k] # x
      BY <2>5
    <3>2. x \in rest /\ x # next
      BY <2>5, <3>1
    <3>3. x \in Nat /\ next \in Nat
      BY <2>4
    <3>4. x > next
      BY <2>3, <3>2, <3>3
    <3>5. \A k \in 1..n : x > att[k]
      BY <2>1, <3>1
    <3>6. QED  BY <2>5, <2>6, <3>4, <3>5
  <2> HIDE DEF Ascends, IsFirst
  <2>9. QED  BY <2>5, <2>7, <2>8
<1> HIDE DEF Reached
<1>4. ASSUME Bad # {} PROVE FALSE
  <2>1. PICK n \in Bad : \A k \in Bad : n <= k
    BY <1>4, LeastNatural
  <2>2. n \in Nat /\ n # 0 /\ n <= Cardinality(S) /\ ~Reached(n)
    BY <1>2, <2>1
  <2>3. n - 1 \in Nat /\ n - 1 <= Cardinality(S) /\ n - 1 \notin Bad /\ (n - 1) + 1 = n
    BY <1>1, <2>1, <2>2
  <2>4. Reached(n - 1)
    BY <2>3
  <2>5. QED  BY <1>3, <2>2, <2>3, <2>4
<1>5. Reached(t)
  BY <1>4
<1>6. QED  BY <1>5 DEF Reached

\* Attesters other than Pubkey::default(), in ascending order, verify.
LEMMA EnoughCanSign ==
  ASSUME TypeOK, ThresholdInRange
  PROVE  ThresholdCanBeMet
<1> SUFFICES ASSUME initialized,
                    ~(Default \in EnabledAttesters /\ signature_threshold = Len(enabled_attesters))
             PROVE  \E attestation \in Attestations : VerifyAttestationSignatures(attestation)
  BY DEF ThresholdCanBeMet
<1> DEFINE t == signature_threshold
           len == Len(enabled_attesters)
           usable == EnabledAttesters \ {Default}
<1>1. /\ len \in Nat /\ t \in 1..len
      /\ enabled_attesters \in [1..len -> Attesters \union {Default}]
      /\ IsInjective(enabled_attesters)
  BY LenProperties, SeqDef DEF TypeOK, ThresholdInRange
<1>2. EnabledAttesters \subseteq Attesters \union {Default}
  BY <1>1 DEF EnabledAttesters, Range
<1>3. enabled_attesters \in Bijection(1..len, EnabledAttesters)
  BY <1>1 DEF Bijection, Injection, Surjection, EnabledAttesters, Range
<1> HIDE DEF len
<1>4. IsFiniteSet(EnabledAttesters) /\ Cardinality(EnabledAttesters) = len
  <2>1. IsFiniteSet(1..len) /\ Cardinality(1..len) = len
    BY <1>1, FS_Interval
  <2> DEFINE enabled == EnabledAttesters
  <2>2. enabled_attesters \in Bijection(1..len, enabled)
    BY <1>3
  <2> HIDE DEF enabled
  <2>3. IsFiniteSet(enabled) /\ Cardinality(enabled) = Cardinality(1..len)
    BY <2>1, <2>2, FS_Bijection DEF ExistsBijection
  <2>4. QED  BY <2>1, <2>3 DEF enabled
<1>5. IsFiniteSet(usable)
  BY <1>4, FS_RemoveElement
<1>6. t <= Cardinality(usable)
  <2>1. CASE Default \in EnabledAttesters
    <3>1. Cardinality(usable) = len - 1
      BY <1>4, <2>1, FS_RemoveElement
    <3>2. t # len
      BY <2>1 DEF len
    <3> HIDE DEF usable, t
    <3>3. QED  BY <1>1, <3>1, <3>2
  <2>2. CASE Default \notin EnabledAttesters
    <3>1. usable = EnabledAttesters
      BY <2>2
    <3> HIDE DEF usable, t
    <3>2. QED  BY <1>1, <1>4, <3>1
  <2>3. QED  BY <2>1, <2>2
<1>7. usable \subseteq Attesters /\ usable \in SUBSET Nat
  BY <1>2, KeysAssumption
<1>8. t \in Nat
  BY <1>1
<1> HIDE DEF usable, t
<1>9. PICK attestation \in [1..t -> usable] :
        \A i \in 1..t : i > 1 => attestation[i] > attestation[i - 1]
  BY <1>5, <1>6, <1>7, <1>8, AscendingExists
<1>10. attestation \in Attestations
  <2>1. Cardinality(usable) <= Cardinality(Attesters) /\ Cardinality(Attesters) \in Nat
    BY <1>7, KeysAssumption, FS_Subset, FS_CardinalityType
  <2>2. Cardinality(usable) \in Nat
    BY <1>5, FS_CardinalityType
  <2>3. t \in 0..Cardinality(Attesters)
    BY <1>6, <1>8, <2>1, <2>2
  <2>4. attestation \in [1..t -> Attesters]
    BY <1>7, <1>9
  <2>5. QED  BY <2>3, <2>4 DEF Attestations
<1>11. Len(attestation) = t
  BY <1>8, <1>9
<1>12. ASSUME NEW i \in 1..t
       PROVE  /\ attestation[i] > LastAttester(attestation, i)
              /\ IsEnabledAttester(attestation[i])
  <2>1. attestation[i] \in usable
    BY <1>9
  <2>2. attestation[i] \in Attesters /\ attestation[i] \in EnabledAttesters
    BY <1>7, <2>1 DEF usable
  <2>3. attestation[i] > Default
    <3>1. attestation[i] \in Nat \ {0}
      BY <2>2, KeysAssumption DEF Default
    <3>2. QED  BY <3>1 DEF Default
  <2>4. QED  BY <1>8, <1>9, <2>2, <2>3 DEF LastAttester, IsEnabledAttester
<1>13. QED
  BY <1>10, <1>11, <1>12 DEF VerifyAttestationSignatures, t

(***************************************************************************)
(* For any number of attesters and any threshold, some enabled attesters   *)
(* can sign an attestation that verifies, unless the threshold needs every *)
(* attester and Pubkey::default() is one of them.                          *)
(***************************************************************************)
THEOREM ThresholdAlwaysMeetable == Spec => []ThresholdCanBeMet
<1>1. IInv => ThresholdCanBeMet
  BY EnoughCanSign DEF IInv, AccountInv
<1>2. QED  BY <1>1, InductiveInvariant, PTL
=============================================================================
