----------------------------- MODULE WsClients -----------------------------
(***************************************************************************)
(* The websocket clients of rpc-broker (websockets.c): one ring of replies *)
(* for all of them, filled by requests and by the signals they subscribe   *)
(* to, emptied by whichever connection is writeable; and the list of links *)
(* that refer to connections.  Which requests pass and when there is room  *)
(* for a subscription is the subject of Broker and left open here.         *)
(***************************************************************************)
EXTENDS Integers, Sequences, SequencesExt

CONSTANTS
    Clients,       \* websocket connections (struct lws)
    Gone,          \* who asked for a reply and has left
    RingSize,      \* replies the ring holds
    MaxReplies     \* bound on the replies made

ASSUME WsAssumption == RingSize \in Nat

VARIABLES
    alive,         \* the process has not crashed
    wsis,          \* the open connections
    armed,         \* those lws_callback_on_writable() was called for
    replies,       \* the ring: for each reply, who asked for it
    wsi_links,     \* dlinks: "xenmgr", or the wsi of a client's link
    made           \* replies made so far

wsVars == <<alive, wsis, armed, replies, wsi_links, made>>

WsInit ==
    /\ alive = TRUE
    /\ wsis = {} /\ armed = {}
    /\ replies = <<>>
    /\ wsi_links = <<"xenmgr">>
    /\ made = 0

\* lws_ring_insert() of the replies to each of "to": those that find no room
\* are dropped.
lws_ring_insert(to) ==
    /\ made + Len(to) <= MaxReplies /\ made' = made + Len(to)
    /\ LET all == replies \o to
       IN  replies' = SubSeq(all, 1, IF Len(all) > RingSize THEN RingSize ELSE Len(all))

Connect(c) ==
    /\ alive /\ c \notin wsis
    /\ wsis' = wsis \cup {c}
    /\ UNCHANGED <<alive, armed, replies, wsi_links, made>>

\* LWS_CALLBACK_RECEIVE of a request that is not refused: without an answer
\* there is no reply, but the connection is armed all the same.  A request that
\* is refused changes nothing.
Receive(c) ==
    /\ alive /\ c \in wsis
    /\ armed' = armed \cup {c}
    /\ \/ UNCHANGED <<replies, wsi_links, made>>
       \/ /\ lws_ring_insert(<<c>>)
          /\ wsi_links' \in {wsi_links, Append(wsi_links, c)}
    /\ UNCHANGED <<alive, wsis>>

\* Mutant: the connection is not armed again after a reply.
Writeable_MutNotAgain(c) ==
    /\ alive /\ c \in armed
    /\ armed' = armed \ {c}
    /\ replies' = IF replies = <<>> THEN <<>> ELSE Tail(replies)
    /\ UNCHANGED <<alive, wsis, wsi_links, made>>

\* LWS_CALLBACK_SERVER_WRITEABLE: the oldest reply, whoever asked for it, goes to
\* this connection, which is armed again.
Writeable(c) ==
    /\ alive /\ c \in armed
    /\ IF replies = <<>>
       THEN armed' = armed \ {c} /\ UNCHANGED replies
       ELSE replies' = Tail(replies) /\ UNCHANGED armed
    /\ UNCHANGED <<alive, wsis, wsi_links, made>>

\* Mutant: the link's connection is not armed for the signal.
ServiceSignals_MutNotArmed ==
    /\ alive
    /\ \E found \in SUBSET {i \in DOMAIN wsi_links : wsi_links[i] # "xenmgr"} :
          /\ found # {}
          /\ lws_ring_insert([k \in 1..Cardinality(found) |-> wsi_links[SetToSortSeq(found, <)[k]]])
    /\ UNCHANGED <<alive, wsis, armed, wsi_links>>

\* service_ws_signals(): each client link that finds a message arms its
\* connection and puts the message in the ring.
ServiceSignals ==
    /\ alive
    /\ \E found \in SUBSET {i \in DOMAIN wsi_links : wsi_links[i] # "xenmgr"} :
       LET order == SetToSortSeq(found, <)
           to == [k \in 1..Cardinality(found) |-> wsi_links[order[k]]]
       IN  /\ found # {}
           /\ lws_ring_insert(to)
           /\ armed' = armed \cup ToSet(to)
    /\ UNCHANGED <<alive, wsis, wsi_links>>

\* Mutant: only the connection's own first link is unlinked.
links_after_close_MutFirst(c) ==
    LET own == {i \in DOMAIN wsi_links : wsi_links[i] = c}
    IN  IF own = {} THEN wsi_links
        ELSE RemoveAt(wsi_links, CHOOSE i \in own : \A j \in own : i <= j)

\* free_dlinks(): all links, those of other connections too.
links_after_close(c) == <<>>

\* LWS_CALLBACK_CLOSED.  A lone link has no next, and free_dlinks() follows it.
Closed(c) ==
    /\ alive /\ c \in wsis
    /\ wsis' = wsis \ {c} /\ armed' = armed \ {c}
    /\ replies' = [i \in DOMAIN replies |-> IF replies[i] = c THEN Gone ELSE replies[i]]
    /\ alive' = (Len(wsi_links) # 1)
    /\ wsi_links' = links_after_close(c)
    /\ UNCHANGED made

WsNext ==
    \/ \E c \in Clients : Connect(c) \/ Receive(c) \/ Writeable(c) \/ Closed(c)
    \/ ServiceSignals

-----------------------------------------------------------------------------
\* No link refers to a connection that is closed: parse_client_signal() arms
\* curr->wsi without a check, and only the freeing of everyone's links at every
\* close keeps that pointer good.
LinksAreOpen ==
    alive => \A i \in DOMAIN wsi_links : wsi_links[i] \in wsis \cup {"xenmgr"}

\* A client that waits for a reply of the shared ring will be called back: no
\* other connection, by taking its reply or by finding the ring empty, disarms
\* it.  So a reply goes to somebody else only while its asker is armed too, or
\* has left.
AskersArmed ==
    alive => \A i \in DOMAIN replies : replies[i] # Gone => replies[i] \in armed

\* No reply stays in the ring for ever while the client that asked for it is
\* connected, whoever else connects, asks and leaves.
RepliesLeave ==
    \A c \in Clients : (alive /\ c \in ToSet(replies)) ~> (~alive \/ c \notin ToSet(replies))
=============================================================================
