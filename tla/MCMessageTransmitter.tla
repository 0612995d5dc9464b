------------------------- MODULE MCMessageTransmitter -------------------------
(***************************************************************************)
(* The instances of MessageTransmitter that TLC checks.                    *)
(***************************************************************************)
EXTENDS MessageTransmitter

MCSelf == 30
MCReceiver == 31
MCPrograms == {MCSelf, MCReceiver}

MCBodies == {"burn1", "burn2", "long"}
MCBodyLen == [b \in MCBodies |-> IF b = "long" THEN 2 ELSE 1]

SendTo(domain, recipient, body) ==
  [sender |-> MCReceiver, destination_domain |-> domain, recipient |-> recipient,
   destination_caller |-> Default, min_finality_threshold |-> 2000, message_body |-> body]

\* Two burns that differ only in their body, one message too long for the
\* smaller limit, and two calls the handler rejects.
MCSendParams ==
  {SendTo("evm", MCReceiver, b) : b \in MCBodies}
    \union {SendTo("sol", MCReceiver, "burn1"), SendTo("evm", Default, "burn1")}

Remote(nonce, caller, executed) ==
  [version |-> 1, source_domain |-> "evm", destination_domain |-> "sol", nonce |-> nonce,
   sender |-> MCReceiver, recipient |-> MCReceiver, destination_caller |-> caller,
   min_finality_threshold |-> 1000, finality_threshold_executed |-> executed,
   message_body |-> "burn1"]

\* One message attested at two finalities, one that only key 12 may deliver,
\* one for another domain and one for the transmitter itself.
MCRemoteMessages ==
  {Remote(1, Default, 1000), Remote(1, Default, 2000), Remote(2, 12, 2000),
   [Remote(3, Default, 2000) EXCEPT !.destination_domain = "evm2"],
   [Remote(4, Default, 2000) EXCEPT !.recipient = MCSelf]}
=============================================================================
