----------------------------- MODULE RpcBroker -----------------------------
(***************************************************************************)
(* rpc-broker as a whole: its main loop with the policy, the websocket     *)
(* clients, the raw connections, and the reading of rules.  One thread     *)
(* runs one callback at a time and the parts share no state beyond what    *)
(* their modules say, so a behaviour is about one of them, chosen at the   *)
(* start; the others stand still.  The conversion of calls, the fifth, is  *)
(* added by RpcCalls.                                                      *)
(***************************************************************************)
EXTENDS Broker, WsClients, RawProxy, RulesFile

VARIABLE scene    \* which part moves: "loop", "websockets", "calls", "raw" or "rules"

allVars == <<vars, wsVars, rawVars, rulesVars, scene>>

Loop(A) == scene = "loop" /\ A /\ UNCHANGED <<wsVars, rawVars, rulesVars, scene>>
Websockets(A) == scene = "websockets" /\ A /\ UNCHANGED <<vars, rawVars, rulesVars, scene>>
Raw(A) == scene = "raw" /\ A /\ UNCHANGED <<vars, wsVars, rulesVars, scene>>
Rules(A) == scene = "rules" /\ A /\ UNCHANGED <<vars, wsVars, rawVars, scene>>

SystemInit ==
    /\ scene \in {"loop", "websockets", "calls", "raw", "rules"}
    /\ IF scene = "loop" THEN Init
       ELSE /\ mode = (CHOOSE m \in Modes : TRUE) /\ queue = <<>>
            /\ file = (CHOOSE f \in EtcFiles : TRUE)
            /\ db = [u \in Uuids |-> CHOOSE r \in DbRules : TRUE] /\ vms = {}
            /\ Init
    /\ WsInit /\ RawInit
    /\ IF scene = "rules" THEN RulesInit(Files)
       ELSE RulesInit({[db |-> FALSE, texts |-> <<>>, newline |-> TRUE]})

SystemNext ==
    \/ Loop(Next)
    \/ Websockets(WsNext)
    \/ Raw(RawNext)
    \/ Rules(RulesNext)

SystemSpec == SystemInit /\ [][SystemNext]_allVars

(***************************************************************************)
(* Fairness.  The main loop runs: lws_service() returns after              *)
(* WS_LOOP_TIMEOUT at the latest, for uv_run() nothing is assumed there.   *)
(* lws_service() calls back armed connections.  uv_run() calls back a      *)
(* socket that is readable, as one whose other end has gone is until it is *)
(* closed, and the handles that are closing.  None is assumed of clients,  *)
(* the bus, xenmgr or signals.                                             *)
(***************************************************************************)
Fairness ==
    /\ WF_allVars(Loop(Rebuild))
    /\ WF_allVars(Loop(service_ws_signals))
    /\ WF_allVars(Websockets(\E c \in Clients : Writeable(c)))
    /\ WF_allVars(Raw(\E s \in DOMAIN handles : \/ PeerGone(s) /\ service_rdconn_cb(s)
                                                \/ close_client_rawdbus(s)))

-----------------------------------------------------------------------------
(* Properties of the parts, put together where they are about one thing.   *)

(* What websocket clients share: the signal links, bounded by MAX_SIGNALS  *)
(* whatever subscribes and closes and without a pointer to a connection    *)
(* that is closed, and the ring of replies, for each of which its asker    *)
(* is armed.                                                               *)
LinksSound == TypeOK /\ LinksBounded /\ LinksAreOpen /\ AskersArmed

(* Descriptors of raw connections: each has the one handle that was made   *)
(* for it, and a pair that is whole sends to itself, however numbers are   *)
(* reused.                                                                 *)
PairsSound == DescriptorsOwned /\ PairsMeet

(* The rules in force are the texts that parse, up to what a text that     *)
(* does not parse leaves behind; without such a text nothing goes wrong.   *)
RulesSound == RulesAreTheirTexts /\ WellFormedIsSafe

(* The policy follows what it is made of: a reload brings in the file, and *)
(* the signal of a new VM its rules.                                       *)
PolicyFollows == ReloadTakesEffect /\ NewVmGetsItsRules

(* Nothing waits for ever: replies leave the shared ring, and raw          *)
(* connections whose other end has gone are closed.                        *)
ConnectionsServed == RepliesLeave /\ GoneAreClosed
=============================================================================
