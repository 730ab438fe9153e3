------------------------------ MODULE RpcCalls ------------------------------
(***************************************************************************)
(* rpc-broker with the conversion of its websocket clients' calls, which   *)
(* shares no state with the other parts.                                   *)
(***************************************************************************)
EXTENDS RpcBroker, JsonCalls

Calls(A) == scene = "calls" /\ A /\ UNCHANGED allVars

BrokerInit == SystemInit /\ JsonInit

BrokerNext ==
    \/ SystemNext /\ UNCHANGED jsonVars
    \/ Calls(JsonNext)

BrokerSpec == BrokerInit /\ [][BrokerNext]_<<allVars, jsonVars>>

FairBroker == BrokerSpec /\ Fairness

(* Nothing is lost between JSON and D-Bus: calls reach their services, and *)
(* replies the clients, with the types and values they were made with.     *)
ConversionsKeep == CallAsDeclared /\ ReplyKept
=============================================================================
