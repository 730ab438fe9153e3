---------------------------- MODULE BrokerProofs ----------------------------
(***************************************************************************)
(* Safety of rpc-broker for any rules, requests, VMs, clients and limits:  *)
(* reloading the policy, the list of signal links, the websocket clients   *)
(* and their ring of replies, and the descriptors of raw connections.      *)
(* Each part has its inductive invariant and a lemma that its steps keep   *)
(* it; the theorems at the end are about rpc-broker as a whole.            *)
(***************************************************************************)
EXTENDS RpcBroker, FiniteSetTheorems, NaturalsInduction, WellFoundedInduction, TLAPS

Pcs == {"etc", "db", "clear", "check", "free", "serve"}

\* Serving a valid policy is inductive with the types of what it relates.
PolicyInv == pc \in Pcs /\ ServesValidPolicy

LEMMA ValidStep ==
    ASSUME PolicyInv, [Next]_vars
    PROVE  PolicyInv'
<1> USE DEF PolicyInv, Pcs, ServesValidPolicy, At
<1>1. CASE Rebuild
  BY <1>1, Zenon DEF Rebuild, build_etc_policy, build_policy, clear_reload, check_reload, free_policy
<1>2. CASE service_ws_signals \/ uv_run_returns
  BY <1>2 DEF service_ws_signals, uv_run_returns
<1>3. CASE ws_request_handler \/ exchange \/ xenmgr_signal \/ ws_client_closes
  BY <1>3 DEF ws_request_handler, exchange, xenmgr_signal, ws_client_closes, loop
<1>4. CASE Outside
  BY <1>4 DEF Outside, sighup_handler, sigint_handler, edit_file, vm_state_changed,
              client_signal, db_fails_or_recovers, loop
<1>5. CASE UNCHANGED vars
  BY <1>5 DEF vars, loop
<1> QED BY <1>1, <1>2, <1>3, <1>4, <1>5, SMTT(20) DEF Next, Round

-----------------------------------------------------------------------------
ClientLinks(s) == {i \in DOMAIN s : s[i] = "client"}

LinksInv ==
    /\ dlinks \in Seq({"xenmgr", "client"})
    /\ signal_subscribers \in Nat
    /\ LinksBounded

\* Adding one client link adds one client.
LEMMA OneMoreClient ==
    ASSUME NEW s \in Seq({"xenmgr", "client"})
    PROVE  /\ IsFiniteSet(ClientLinks(s))
           /\ Cardinality(ClientLinks(s)) \in Nat
           /\ Cardinality(ClientLinks(Append(s, "client"))) = Cardinality(ClientLinks(s)) + 1
<1>1. IsFiniteSet(1..Len(s))
  BY FS_Interval
<1>2. ClientLinks(s) \subseteq 1..Len(s)
  BY DEF ClientLinks
<1>3. IsFiniteSet(ClientLinks(s))
  BY <1>1, <1>2, FS_Subset
<1>4. ClientLinks(Append(s, "client")) = ClientLinks(s) \cup {Len(s) + 1}
  BY DEF ClientLinks
<1>5. Len(s) + 1 \notin ClientLinks(s)
  BY <1>2
<1> QED BY <1>3, <1>4, <1>5, FS_AddElement, FS_CardinalityType, SMTT(20)

LEMMA LinksInit ==
    ASSUME Init
    PROVE  LinksInv
<1>1. dlinks \in {<<"xenmgr">>, <<>>} /\ signal_subscribers = 0
  BY DEF Init
<1>2. ClientLinks(dlinks) = {}
  BY <1>1 DEF ClientLinks
<1>3. Cardinality(ClientLinks(dlinks)) = 0
  BY <1>2, FS_EmptySet
<1>4. LinksBounded
  BY <1>1, <1>3, BrokerAssumption DEF LinksBounded, ClientLinks
<1>5. dlinks \in Seq({"xenmgr", "client"})
  <2>1. <<"xenmgr">> \in Seq({"xenmgr", "client"}) /\ <<>> \in Seq({"xenmgr", "client"})
    OBVIOUS
  <2> QED BY <1>1, <2>1, Zenon
<1> QED BY <1>1, <1>4, <1>5 DEF LinksInv

\* The list of client links never exceeds MAX_SIGNALS, and the counter that
\* guards it never lags behind it, whatever subscribes, fails or closes.
LEMMA LinksStep ==
    ASSUME LinksInv, [Next]_vars
    PROVE  LinksInv'
<1>1. CASE UNCHANGED links
  BY <1>1 DEF links, LinksInv, LinksBounded
<1>2. CASE add_ws_signal /\ signal_subscribers < MaxSignals
  <2>1. dlinks \in Seq({"xenmgr", "client"}) /\ signal_subscribers \in Nat
    BY DEF LinksInv
  <2>2. dlinks' = Append(dlinks, "client") /\ signal_subscribers' = signal_subscribers + 1
    BY <1>2 DEF add_ws_signal
  <2>3. /\ Cardinality(ClientLinks(dlinks)) \in Nat
        /\ Cardinality(ClientLinks(dlinks')) = Cardinality(ClientLinks(dlinks)) + 1
    BY <2>1, <2>2, OneMoreClient
  <2>4. Cardinality(ClientLinks(dlinks)) <= signal_subscribers
    BY DEF LinksInv, LinksBounded, ClientLinks
  <2>5. LinksBounded'
    <3>1. Cardinality(ClientLinks(dlinks')) <= signal_subscribers'
      BY <2>1, <2>2, <2>3, <2>4, SMTT(20)
    <3>2. signal_subscribers' <= MaxSignals
      BY <1>2, <2>1, <2>2, BrokerAssumption, SMTT(20)
    <3> QED BY <3>1, <3>2 DEF LinksBounded, ClientLinks
  <2> QED BY <2>1, <2>2, <2>5 DEF LinksInv
<1>3. CASE dlinks' = <<>> /\ UNCHANGED signal_subscribers
  <2>1. {i \in DOMAIN dlinks' : dlinks'[i] = "client"} = {}
    BY <1>3
  <2>2. Cardinality({}) = 0
    BY FS_EmptySet, SMTT(20)
  <2> QED BY <1>3, <2>1, <2>2 DEF LinksInv, LinksBounded
<1>4. CASE Rebuild
  BY <1>1, <1>4, Zenon DEF Rebuild, build_etc_policy, build_policy, clear_reload, check_reload,
                    free_policy
<1>5. CASE Outside
  BY <1>1, <1>5 DEF Outside, sighup_handler, sigint_handler, edit_file, vm_state_changed,
                    client_signal, db_fails_or_recovers
<1>6. CASE Round
  <2>1. CASE ws_request_handler
    <3>1. \/ signal_subscribers < MaxSignals /\ add_ws_signal
          \/ UNCHANGED links
      BY <2>1, Zenon DEF ws_request_handler, may_subscribe, subscribes
    <3> QED BY <1>1, <1>2, <3>1
  <2>2. CASE ws_client_closes
    BY <1>1, <1>3, <2>2 DEF ws_client_closes, links
  <2>3. CASE exchange \/ xenmgr_signal \/ service_ws_signals \/ uv_run_returns
    BY <1>1, <2>3 DEF exchange, xenmgr_signal, service_ws_signals, uv_run_returns
  <2> QED BY <1>6, <2>1, <2>2, <2>3, SMTT(20) DEF Round
<1>7. CASE UNCHANGED vars
  BY <1>1, <1>7 DEF vars
<1> QED BY <1>4, <1>5, <1>6, <1>7 DEF Next

-----------------------------------------------------------------------------
(***************************************************************************)
(* Websocket clients                                                       *)
(***************************************************************************)
\* The ring is a sequence, whatever is in it.
IsRing(r) == r \in Seq(ToSet(r))

WsInv ==
    /\ IsRing(replies)
    /\ wsi_links \in Seq(Clients \cup {"xenmgr"})
    /\ LinksAreOpen /\ AskersArmed

LEMMA FcnIsSeq ==
    ASSUME NEW T, NEW n \in Nat, NEW s \in [1..n -> T]
    PROVE  s \in Seq(T) /\ Len(s) = n
OBVIOUS

LEMMA SeqIsRing ==
    ASSUME NEW T, NEW s \in Seq(T)
    PROVE  IsRing(s)
<1>1. Len(s) \in Nat /\ s \in [1..Len(s) -> T]
  OBVIOUS
<1>2. s \in [1..Len(s) -> ToSet(s)]
  BY <1>1 DEF ToSet
<1> DEFINE R == ToSet(s)
           n == Len(s)
<1> HIDE DEF R, n
<1>3. s \in [1..n -> R] /\ n \in Nat
  BY <1>1, <1>2 DEF R, n
<1>4. s \in Seq(R)
  BY <1>3, FcnIsSeq
<1> QED BY <1>4 DEF IsRing, R

LEMMA RingFacts ==
    ASSUME NEW r, IsRing(r)
    PROVE  /\ Len(r) \in Nat /\ DOMAIN r = 1..Len(r)
           /\ r # <<>> => /\ IsRing(Tail(r))
                          /\ \A i \in DOMAIN Tail(r) : \E j \in DOMAIN r : Tail(r)[i] = r[j]
<1>1. PICK S : r \in Seq(S)
  BY DEF IsRing
<1>2. Len(r) \in Nat /\ DOMAIN r = 1..Len(r)
  BY <1>1
<1>3. ASSUME r # <<>>
      PROVE  /\ IsRing(Tail(r))
             /\ \A i \in DOMAIN Tail(r) : \E j \in DOMAIN r : Tail(r)[i] = r[j]
  <2>1. Tail(r) \in Seq(S) /\ DOMAIN Tail(r) = 1..(Len(r) - 1) /\ Len(r) > 0
    BY <1>1, <1>2, <1>3
  <2>2. \A i \in 1..(Len(r) - 1) : Tail(r)[i] = r[i + 1] /\ i + 1 \in 1..Len(r)
    BY <1>1, <1>2, <2>1
  <2> QED BY <1>2, <2>1, <2>2, SeqIsRing, Zenon
<1> QED BY <1>2, <1>3

\* lws_ring_insert() keeps what was there and adds nothing but its argument.
LEMMA Inserted ==
    ASSUME NEW to, IsRing(to), IsRing(replies), lws_ring_insert(to)
    PROVE  /\ IsRing(replies')
           /\ \A i \in DOMAIN replies' :
                 \/ \E j \in DOMAIN replies : replies'[i] = replies[j]
                 \/ \E j \in DOMAIN to : replies'[i] = to[j]
<1>1. PICK S : replies \in Seq(S)
  BY DEF IsRing
<1>2. PICK T : to \in Seq(T)
  BY DEF IsRing
<1>3. replies \in Seq(S \cup T) /\ to \in Seq(S \cup T)
  BY <1>1, <1>2
<1> DEFINE all == replies \o to
           n == IF Len(all) > RingSize THEN RingSize ELSE Len(all)
<1>4. /\ all \in Seq(S \cup T) /\ Len(all) = Len(replies) + Len(to) /\ n \in 0..Len(all)
      /\ \A i \in 1..Len(all) : all[i] = IF i <= Len(replies) THEN replies[i] ELSE to[i - Len(replies)]
  BY <1>3, WsAssumption
<1>5. replies' = SubSeq(all, 1, n)
  BY DEF lws_ring_insert
<1> HIDE DEF all, n
<1>6. replies' \in Seq(S \cup T) /\ Len(replies') = n /\ \A i \in 1..n : replies'[i] = all[i]
  BY <1>4, <1>5
<1>7. IsRing(replies')
  BY <1>6, SeqIsRing, SMTT(20)
<1>8. ASSUME NEW i \in DOMAIN replies'
      PROVE  \/ \E j \in DOMAIN replies : replies'[i] = replies[j]
             \/ \E j \in DOMAIN to : replies'[i] = to[j]
  <2>1. i \in 1..n /\ replies'[i] = all[i] /\ i \in 1..Len(all)
    BY <1>4, <1>6
  <2>2. Len(replies) \in Nat /\ Len(to) \in Nat /\ DOMAIN replies = 1..Len(replies) /\ DOMAIN to = 1..Len(to)
    BY <1>3
  <2>3. CASE i <= Len(replies)
    BY <1>4, <2>1, <2>2, <2>3, SMTT(20)
  <2>4. CASE ~(i <= Len(replies))
    <3>1. i - Len(replies) \in 1..Len(to)
      BY <1>4, <2>1, <2>2, <2>4, SMTT(20)
    <3> QED BY <1>4, <2>1, <2>2, <2>4, <3>1, SMTT(20)
  <2> QED BY <2>3, <2>4, SMTT(20)
<1> QED BY <1>7, <1>8

LEMMA WsStep ==
    ASSUME WsInv, WsNext
    PROVE  WsInv'
<1> DEFINE Held == /\ IsRing(replies')
                   /\ \A i \in DOMAIN replies' : replies'[i] # Gone => replies'[i] \in armed'
<1>0. /\ IsRing(replies) /\ wsi_links \in Seq(Clients \cup {"xenmgr"})
      /\ alive => \A i \in DOMAIN wsi_links : wsi_links[i] \in wsis \cup {"xenmgr"}
      /\ alive => \A i \in DOMAIN replies : replies[i] # Gone => replies[i] \in armed
  BY DEF WsInv, LinksAreOpen, AskersArmed
<1>1. ASSUME NEW c \in Clients, Connect(c) PROVE WsInv'
  BY <1>0, <1>1 DEF Connect, WsInv, LinksAreOpen, AskersArmed
<1>2. ASSUME NEW c \in Clients, Receive(c) PROVE WsInv'
  <2>1. alive /\ c \in wsis /\ armed' = armed \cup {c} /\ UNCHANGED <<alive, wsis>>
    BY <1>2 DEF Receive
  <2>2. CASE UNCHANGED <<replies, wsi_links, made>>
    BY <1>0, <2>1, <2>2 DEF WsInv, LinksAreOpen, AskersArmed
  <2>3. CASE lws_ring_insert(<<c>>) /\ wsi_links' \in {wsi_links, Append(wsi_links, c)}
    <3>1. IsRing(<<c>>)
      <4>1. <<c>> \in Seq(Clients)
        OBVIOUS
      <4> QED BY <4>1, SeqIsRing, Zenon
    <3>2. \A j \in DOMAIN <<c>> : <<c>>[j] = c
      OBVIOUS
    <3>3. Held
      BY <1>0, <2>1, <2>3, <3>1, <3>2, Inserted
    <3>4. wsi_links' \in Seq(Clients \cup {"xenmgr"})
      BY <1>0, <2>3
    <3>5. \A i \in DOMAIN wsi_links' : wsi_links'[i] \in wsis' \cup {"xenmgr"}
      <4>1. CASE wsi_links' = wsi_links
        BY <1>0, <2>1, <4>1
      <4>2. CASE wsi_links' = Append(wsi_links, c)
        BY <1>0, <2>1, <4>2
      <4> QED BY <2>3, <4>1, <4>2
    <3> QED BY <3>3, <3>4, <3>5 DEF WsInv, LinksAreOpen, AskersArmed
  <2> QED BY <1>2, <2>2, <2>3 DEF Receive
<1>3. ASSUME NEW c \in Clients, Writeable(c) PROVE WsInv'
  <2>1. alive /\ UNCHANGED <<alive, wsis, wsi_links, made>>
    BY <1>3 DEF Writeable
  <2>2. CASE replies = <<>> /\ armed' = armed \ {c} /\ UNCHANGED replies
    <3>1. DOMAIN replies = {}
      BY <2>2
    <3> QED BY <1>0, <2>1, <2>2, <3>1, SMTT(20) DEF WsInv, LinksAreOpen, AskersArmed
  <2>3. CASE replies # <<>> /\ replies' = Tail(replies) /\ UNCHANGED armed
    <3>1. Held
      BY <1>0, <2>1, <2>3, RingFacts, SMTT(20)
    <3> QED BY <1>0, <2>1, <3>1, SMTT(20) DEF WsInv, LinksAreOpen, AskersArmed
  <2> QED BY <1>3, <2>2, <2>3 DEF Writeable
<1>4. ASSUME NEW c \in Clients, Closed(c) PROVE WsInv'
  <2>1. /\ alive /\ armed' = armed \ {c}
        /\ replies' = [i \in DOMAIN replies |-> IF replies[i] = c THEN Gone ELSE replies[i]]
        /\ wsi_links' = <<>>
    BY <1>4 DEF Closed, links_after_close
  <2>2. \A i \in DOMAIN replies' : replies'[i] # Gone => replies'[i] \in armed'
    BY <1>0, <2>1
  <2>3. IsRing(replies')
    <3>1. Len(replies) \in Nat /\ DOMAIN replies = 1..Len(replies)
      BY <1>0, RingFacts
    <3>2. replies' \in [1..Len(replies) -> ToSet(replies) \cup {Gone}]
      BY <2>1, <3>1 DEF ToSet
    <3>3. replies' \in Seq(ToSet(replies) \cup {Gone})
      BY <3>1, <3>2, FcnIsSeq, SMTT(20)
    <3> QED BY <3>3, SeqIsRing
  <2> QED BY <2>1, <2>2, <2>3, SMTT(20) DEF WsInv, LinksAreOpen, AskersArmed
<1>5. CASE ServiceSignals
  <2>1. alive /\ UNCHANGED <<alive, wsis, wsi_links>>
    BY <1>5, Zenon DEF ServiceSignals
  <2>2. PICK found \in SUBSET {i \in DOMAIN wsi_links : wsi_links[i] # "xenmgr"} :
           LET order == SetToSortSeq(found, <)
               to == [k \in 1..Cardinality(found) |-> wsi_links[order[k]]]
           IN  lws_ring_insert(to) /\ armed' = armed \cup ToSet(to)
    BY <1>5, Zenon DEF ServiceSignals
  <2> DEFINE order == SetToSortSeq(found, <)
             to == [k \in 1..Cardinality(found) |-> wsi_links[order[k]]]
  <2>3. lws_ring_insert(to) /\ armed' = armed \cup ToSet(to)
    BY <2>2, Zenon
  <2>4. Cardinality(found) \in Nat
    <3>1. DOMAIN wsi_links = 1..Len(wsi_links) /\ Len(wsi_links) \in Nat
      BY <1>0
    <3>2. IsFiniteSet(DOMAIN wsi_links)
      BY <3>1, FS_Interval, SMTT(20)
    <3> QED BY <3>2, FS_Subset, FS_CardinalityType
  <2>5. IsRing(to) /\ \A k \in DOMAIN to : to[k] \in ToSet(to)
    <3> HIDE DEF order
    <3>1. \A k \in DOMAIN to : to[k] \in ToSet(to)
      BY DEF ToSet
    <3>2. to \in [1..Cardinality(found) -> ToSet(to)]
      BY <3>1
    <3>3. to \in Seq(ToSet(to))
      BY <2>4, <3>2, FcnIsSeq, SMTT(20)
    <3> QED BY <3>1, <3>3 DEF IsRing
  <2> HIDE DEF to
  <2>6. Held
    BY <1>0, <2>1, <2>3, <2>5, Inserted, SMTT(20)
  <2> QED BY <1>0, <2>1, <2>6 DEF WsInv, LinksAreOpen, AskersArmed
<1> QED BY <1>1, <1>2, <1>3, <1>4, <1>5, SMTT(20) DEF WsNext

-----------------------------------------------------------------------------
(***************************************************************************)
(* Raw connections                                                         *)
(***************************************************************************)
\* What a step must know besides: handles are those of accepted pairs and have
\* descriptor numbers.  Unlike the properties it also speaks of a process that
\* has ended, which keeps the state it ended in.
RawInv ==
    /\ pairs \in Nat
    /\ DOMAIN fds = Fds
    /\ DOMAIN handles \subseteq {s \in Sockets : s[1] <= pairs}
    /\ DOMAIN peer = DOMAIN handles
    /\ \A s \in DOMAIN handles : {handles[s].receiver, handles[s].sender} \subseteq Fds
    /\ \A s \in DOMAIN handles : fds[handles[s].receiver] = s
    /\ \A fd \in Fds \ Free : \E s \in DOMAIN handles : handles[s].receiver = fd
    /\ \A s \in DOMAIN handles :
          Other(s) \in DOMAIN handles => fds[handles[s].sender] = Other(s)

LEMMA MinExists ==
    ASSUME NEW S \in SUBSET Nat, S # {}
    PROVE  Min(S) \in S
<1>1. PICK x \in S : \A y \in S : ~(<<y, x>> \in OpToRel(<, Nat))
  BY NatLessThanWellFounded, WFMin, Zenon
<1>2. \A y \in S : x <= y
  <2> SUFFICES ASSUME NEW y \in S, ~(x <= y) PROVE FALSE
    OBVIOUS
  <2>1. y \in Nat /\ x \in Nat /\ y < x
    OBVIOUS
  <2>2. <<y, x>> \in OpToRel(<, Nat)
    BY <2>1 DEF OpToRel
  <2> QED BY <1>1, <2>2, Zenon
<1> QED BY <1>2, Zenon DEF Min

\* A client and a bus socket are each other's, and no numbered pair is NoSocket.
LEMMA SocketFacts ==
    ASSUME NEW s \in Sockets
    PROVE  /\ s # NoSocket
           /\ Other(s) \in Sockets /\ Other(s) # s /\ Other(s)[1] = s[1]
           /\ Other(Other(s)) = s
<1>1. PICK p \in 1..MaxPairs, e \in {"client", "bus"} : s = <<p, e>>
  BY DEF Sockets
<1>2. s[1] = p /\ s[2] = e /\ p # 0
  BY <1>1
<1>3. Other(s) = <<p, IF e = "client" THEN "bus" ELSE "client">>
  BY <1>1, <1>2, SMTT(20) DEF Other
<1> QED BY <1>1, <1>2, <1>3, SMTT(20) DEF Other, Sockets, NoSocket

\* A step that keeps the sockets, their descriptors and the numbers in handles
\* keeps the invariant.
LEMMA HandlesKept ==
    ASSUME RawInv, UNCHANGED <<pairs, fds>>, DOMAIN handles' = DOMAIN handles,
           DOMAIN peer' = DOMAIN peer,
           \A s \in DOMAIN handles : /\ handles'[s].receiver = handles[s].receiver
                                     /\ handles'[s].sender = handles[s].sender
    PROVE  RawInv'
BY DEF RawInv, Free

LEMMA Accepted ==
    ASSUME RawInv, service_rawdbus_server
    PROVE  RawInv'
<1>1. CASE UNCHANGED <<pairs, fds, handles, peer>>
  BY <1>1, HandlesKept
<1>2. CASE UNCHANGED serving /\ Cardinality(Free) >= 2
  <2> DEFINE client == Min(Free)
             server == Min(Free \ {client})
             c == <<pairs + 1, "client">>
             b == <<pairs + 1, "bus">>
  <2>1. Free \subseteq Fds /\ IsFiniteSet(Free) /\ Free \in SUBSET Nat
    <3>1. Free \subseteq Fds /\ Fds \in SUBSET Nat
      BY RawAssumption DEF Free, Fds
    <3>2. IsFiniteSet(Fds)
      BY RawAssumption, FS_Interval DEF Fds
    <3> QED BY <3>1, <3>2, FS_Subset, Zenon
  <2>2. client \in Free
    <3>1. Free # {}
      BY <1>2, FS_EmptySet
    <3> QED BY <2>1, <3>1, MinExists, SMTT(20)
  <2>3. server \in Free /\ server # client
    <3>1. Cardinality(Free \ {client}) = Cardinality(Free) - 1 /\ Cardinality(Free) \in Nat
      BY <2>1, <2>2, FS_RemoveElement, FS_CardinalityType, SMTT(20)
    <3>2. Free \ {client} # {}
      BY <1>2, <3>1, FS_EmptySet, SMTT(20)
    <3> QED BY <2>1, <3>2, MinExists, SMTT(20)
  <2>4. /\ pairs' = pairs + 1 /\ pairs < MaxPairs
        /\ fds' = [fds EXCEPT ![client] = c, ![server] = b]
        /\ handles' = [s \in DOMAIN handles \cup {c, b} |->
                         CASE s = c -> init_rawdbus_conn(server, client)
                           [] s = b -> init_rawdbus_conn(client, server)
                           [] OTHER -> handles[s]]
        /\ DOMAIN peer' = DOMAIN peer \cup {c, b}
    BY <1>2, <2>1, RawAssumption, Zenon DEF service_rawdbus_server, RawInv
  <2> HIDE DEF client, server
  <2>5. /\ pairs \in Nat /\ DOMAIN fds = Fds
        /\ DOMAIN handles \subseteq {s \in Sockets : s[1] <= pairs}
        /\ DOMAIN peer = DOMAIN handles
    BY DEF RawInv
  <2>6. /\ c \in Sockets /\ b \in Sockets /\ c # b
        /\ c \notin DOMAIN handles /\ b \notin DOMAIN handles
        /\ c[1] = pairs + 1 /\ b[1] = pairs + 1 /\ Other(c) = b /\ Other(b) = c
    BY <2>4, <2>5, RawAssumption, SMTT(20) DEF Sockets, Other
  <2> HIDE DEF c, b
  <2>7. /\ handles'[c].receiver = client /\ handles'[c].sender = server
        /\ handles'[b].receiver = server /\ handles'[b].sender = client
    BY <2>4, <2>6 DEF init_rawdbus_conn
  <2>8. \A s \in DOMAIN handles : handles'[s] = handles[s]
    BY <2>4, <2>6
  <2>9. /\ fds'[client] = c /\ fds'[server] = b /\ DOMAIN fds' = Fds
        /\ \A fd \in Fds \ {client, server} : fds'[fd] = fds[fd]
    BY <2>1, <2>2, <2>3, <2>4, <2>5, SMTT(20)
  <2>10. \A s \in DOMAIN handles : /\ handles[s].receiver \in Fds \ Free
                                   /\ fds'[handles[s].receiver] = s
    <3> SUFFICES ASSUME NEW s \in DOMAIN handles
                 PROVE  handles[s].receiver \in Fds \ Free /\ fds'[handles[s].receiver] = s
      OBVIOUS
    <3>1. handles[s].receiver \in Fds /\ fds[handles[s].receiver] = s /\ s # NoSocket
      BY <2>5, SocketFacts, SMTT(20) DEF RawInv
    <3> QED BY <2>2, <2>3, <2>9, <3>1, SMTT(20) DEF Free
  <2>11. \A s \in DOMAIN handles : Other(s) \in DOMAIN handles' =>
                                     Other(s) \in DOMAIN handles /\ fds'[handles[s].sender] = Other(s)
    <3> SUFFICES ASSUME NEW s \in DOMAIN handles, Other(s) \in DOMAIN handles'
                 PROVE  Other(s) \in DOMAIN handles /\ fds'[handles[s].sender] = Other(s)
      OBVIOUS
    <3>1. Other(s)[1] = s[1] /\ s[1] <= pairs /\ s \in Sockets
      BY <2>5, SocketFacts
    <3>2. s[1] \in Nat
      BY <3>1 DEF Sockets
    <3>3. Other(s) \in DOMAIN handles
      BY <2>4, <2>5, <2>6, <3>1, <3>2, SMTT(20)
    <3>4. /\ fds[handles[s].sender] = Other(s) /\ handles[s].sender \in Fds
          /\ Other(s) # NoSocket
      BY <3>1, <3>3, SocketFacts, SMTT(20) DEF RawInv
    <3> QED BY <2>2, <2>3, <2>9, <3>3, <3>4, SMTT(20) DEF Free
  <2>12. \A fd \in Fds : fds'[fd] # NoSocket => \E s \in DOMAIN handles' : handles'[s].receiver = fd
    <3> SUFFICES ASSUME NEW fd \in Fds, fds'[fd] # NoSocket
                 PROVE  \E s \in DOMAIN handles' : handles'[s].receiver = fd
      OBVIOUS
    <3>1. CASE fd \in {client, server}
      BY <2>4, <2>7, <3>1, Zenon
    <3>2. CASE fd \notin {client, server}
      <4>1. fd \in Fds \ Free
        BY <2>9, <3>2, SMTT(20) DEF Free
      <4> QED BY <2>4, <2>8, <4>1 DEF RawInv
    <3> QED BY <3>1, <3>2
  <2>13. \A s \in DOMAIN handles' :
            /\ {handles'[s].receiver, handles'[s].sender} \subseteq Fds
            /\ fds'[handles'[s].receiver] = s
            /\ Other(s) \in DOMAIN handles' => fds'[handles'[s].sender] = Other(s)
    <3> SUFFICES ASSUME NEW s \in DOMAIN handles'
                 PROVE  /\ {handles'[s].receiver, handles'[s].sender} \subseteq Fds
                        /\ fds'[handles'[s].receiver] = s
                        /\ Other(s) \in DOMAIN handles' => fds'[handles'[s].sender] = Other(s)
      OBVIOUS
    <3>1. CASE s \in DOMAIN handles
      BY <2>8, <2>10, <2>11, <3>1, SMTT(20) DEF RawInv
    <3>2. CASE s \in {c, b}
      BY <2>1, <2>2, <2>3, <2>6, <2>7, <2>9, <3>2, SMTT(20)
    <3> QED BY <2>4, <3>1, <3>2, SMTT(20)
  <2>14. DOMAIN handles' \subseteq {s \in Sockets : s[1] <= pairs'}
    <3> SUFFICES ASSUME NEW s \in DOMAIN handles' PROVE s \in Sockets /\ s[1] <= pairs'
      OBVIOUS
    <3>1. CASE s \in DOMAIN handles
      BY <2>4, <2>5, <3>1, SMTT(20) DEF Sockets
    <3> QED BY <2>4, <2>5, <2>6, <3>1, SMTT(20)
  <2>15. \A fd \in Fds \ Free' : \E s \in DOMAIN handles' : handles'[s].receiver = fd
    BY <2>12 DEF Free
  <2>16. pairs' \in Nat
    BY <2>4, <2>5, SMTT(20)
  <2>17. DOMAIN peer' = DOMAIN handles'
    <3>1. DOMAIN handles' = DOMAIN handles \cup {c, b}
      BY <2>4, SMTT(20)
    <3> QED BY <2>4, <2>5, <3>1, SMTT(20)
  <2> QED BY <2>9, <2>13, <2>14, <2>15, <2>16, <2>17 DEF RawInv
<1> QED BY <1>1, <1>2, Zenon DEF service_rawdbus_server

LEMMA ClosedHandle ==
    ASSUME RawInv, NEW s \in Sockets, close_client_rawdbus(s)
    PROVE  RawInv'
<1> DEFINE fd0 == handles[s].receiver
<1>1. /\ s \in DOMAIN handles /\ UNCHANGED pairs
      /\ fds' = [fd \in Fds |-> IF fd \in closed_by(handles[s]) THEN NoSocket ELSE fds[fd]]
      /\ handles' = [t \in DOMAIN handles \ {s} |-> handles[t]]
      /\ peer' = [t \in DOMAIN peer \ {s} |-> peer[t]]
  BY DEF close_client_rawdbus
<1>2. /\ DOMAIN handles' = DOMAIN handles \ {s} /\ DOMAIN peer' = DOMAIN handles'
      /\ DOMAIN fds' = Fds
      /\ \A t \in DOMAIN handles' : handles'[t] = handles[t]
  BY <1>1, SMTT(20) DEF RawInv
<1>3. fd0 \in Fds /\ fds[fd0] = s
  BY <1>1, SMTT(20) DEF RawInv
<1>4. fds'[fd0] = NoSocket /\ \A fd \in Fds \ {fd0} : fds'[fd] = fds[fd]
  BY <1>1, <1>3, SMTT(20) DEF closed_by
<1> HIDE DEF fd0
<1>5. \A t \in DOMAIN handles' : fds'[handles'[t].receiver] = t
  BY <1>2, <1>3, <1>4, SMTT(20) DEF RawInv
<1>6. \A t \in DOMAIN handles' : Other(t) \in DOMAIN handles' => fds'[handles'[t].sender] = Other(t)
  BY <1>2, <1>3, <1>4, SMTT(20) DEF RawInv
<1>7. \A fd \in Fds \ Free' : \E t \in DOMAIN handles' : handles'[t].receiver = fd
  <2> SUFFICES ASSUME NEW fd \in Fds, fds'[fd] # NoSocket
               PROVE  \E t \in DOMAIN handles' : handles'[t].receiver = fd
    BY DEF Free
  <2>1. fd # fd0 /\ fd \notin Free
    BY <1>4, SMTT(20) DEF Free
  <2>2. PICK t \in DOMAIN handles : handles[t].receiver = fd
    BY <2>1 DEF RawInv
  <2>3. t # s
    BY <2>1, <2>2, SMTT(20) DEF fd0
  <2> QED BY <1>2, <2>2, <2>3, SMTT(20)
<1>8. DOMAIN handles' \subseteq {t \in Sockets : t[1] <= pairs'} /\ pairs' \in Nat
  BY <1>1, <1>2, SMTT(20) DEF RawInv
<1>9. \A t \in DOMAIN handles' : {handles'[t].receiver, handles'[t].sender} \subseteq Fds
  BY <1>2 DEF RawInv
<1> QED BY <1>2, <1>5, <1>6, <1>7, <1>8, <1>9, SMTT(20) DEF RawInv

LEMMA RawStep ==
    ASSUME RawInv, RawNext
    PROVE  RawInv'
<1>1. ASSUME NEW s \in Sockets, service_rdconn_cb(s) PROVE RawInv'
  <2>1. PICK verdict : handles' = [handles EXCEPT ![s].closing = verdict]
    BY <1>1, Zenon DEF service_rdconn_cb
  <2>2. /\ DOMAIN handles' = DOMAIN handles
        /\ \A t \in DOMAIN handles : /\ handles'[t].receiver = handles[t].receiver
                                      /\ handles'[t].sender = handles[t].sender
    BY <2>1
  <2>3. DOMAIN peer' = DOMAIN peer /\ UNCHANGED <<pairs, fds>>
    BY <1>1 DEF service_rdconn_cb
  <2> QED BY <2>2, <2>3, HandlesKept, SMTT(20)
<1>2. ASSUME NEW s \in Sockets, PeerCloses(s) PROVE RawInv'
  BY <1>2, HandlesKept DEF PeerCloses
<1> QED BY <1>1, <1>2, Accepted, ClosedHandle, SMTT(20) DEF RawNext

-----------------------------------------------------------------------------
(***************************************************************************)
(* Types of the loop's state                                               *)
(***************************************************************************)
PolicyTypes ==
    /\ policy \in Policies
    /\ file \in EtcFiles /\ db \in [Uuids -> DbRules] /\ vms \subseteq Uuids

QueueTypes ==
    /\ unread \in Seq({"vm", "signal"}) /\ queue \in Seq({"vm", "signal"})
    /\ Len(queue) + Len(unread) <= MaxPending

FlagTypes ==
    /\ mode \in Modes
    /\ status \in {"up", "exited", "crashed"}
    /\ pc \in Pcs
    /\ pointer \in {"null", "valid", "freed"}
    /\ domain_uuids \subseteq Doms
    /\ reload_policy \in BOOLEAN /\ woken \in BOOLEAN
    /\ xenmgr_open \in BOOLEAN /\ db_up \in BOOLEAN

LEMMA EmptyIsPolicy == Empty \in Policies
<1>1. [u \in {} |-> <<>>] \in [{} -> DbRules] /\ {} \in SUBSET Uuids
  OBVIOUS
<1>2. [u \in {} |-> <<>>] \in UNION {[V -> DbRules] : V \in SUBSET Uuids}
  BY <1>1, SMTT(20)
<1> QED BY <1>2 DEF Empty, Policies

LEMMA PolicyStep ==
    ASSUME PolicyTypes, [Next]_vars
    PROVE  PolicyTypes'
<1> USE DEF PolicyTypes
<1>1. CASE UNCHANGED <<policy, file, db, vms>>
  BY <1>1
<1>2. CASE build_etc_policy
  <2>1. [Empty EXCEPT !.etc = file] \in Policies
    BY EmptyIsPolicy DEF Policies
  <2> QED BY <1>2, <2>1 DEF build_etc_policy, At, outside
<1>3. CASE build_policy
  <2>1. [u \in vms |-> db[u]] \in UNION {[V -> DbRules] : V \in SUBSET Uuids}
    BY SMTT(20)
  <2>2. [policy EXCEPT !.database = TRUE, !.domains = [u \in vms |-> db[u]]] \in Policies
    BY <2>1, Zenon DEF Policies
  <2> QED BY <1>3, <2>2, SMTT(20) DEF build_policy, At, outside
<1>4. CASE free_policy
  BY <1>4, EmptyIsPolicy, SMTT(20) DEF free_policy, At, outside
<1>5. CASE clear_reload \/ check_reload
  BY <1>1, <1>5, SMTT(20) DEF clear_reload, check_reload, At, outside
<1>6. CASE Round
  BY <1>1, <1>6, Zenon DEF Round, ws_request_handler, exchange, xenmgr_signal, ws_client_closes,
                    service_ws_signals, uv_run_returns, At, outside, loop
<1>7. CASE Outside
  BY <1>1, <1>7, Zenon DEF Outside, sighup_handler, sigint_handler, edit_file, vm_state_changed,
                    client_signal, db_fails_or_recovers, outside, loop
<1> QED BY <1>1, <1>2, <1>3, <1>4, <1>5, <1>6, <1>7, SMTT(20) DEF Next, Rebuild, vars, loop, outside

LEMMA QueueStep ==
    ASSUME QueueTypes, LinksInv, [Next]_vars
    PROVE  QueueTypes'
<1> USE DEF QueueTypes
<1>1. CASE UNCHANGED connection
  BY <1>1 DEF connection
<1>2. CASE make_dbus_call
  BY <1>2, SMTT(20) DEF make_dbus_call
<1>3. CASE Rebuild
  BY <1>1, <1>2, <1>3, Zenon DEF Rebuild, build_etc_policy, build_policy, clear_reload, check_reload,
                          free_policy, xenmgr
<1>4. CASE ws_request_handler \/ exchange \/ ws_client_closes \/ uv_run_returns
  BY <1>1, <1>2, <1>4, SMTT(20) DEF ws_request_handler, exchange, ws_client_closes, uv_run_returns, xenmgr
<1>5. CASE xenmgr_signal
  <2>1. CASE queue = <<>>
    BY <1>5, <2>1, BrokerAssumption, SMTT(20) DEF xenmgr_signal
  <2>2. CASE queue # <<>>
    <3>1. queue' = Tail(queue) /\ UNCHANGED unread
      BY <1>5, <2>2 DEF xenmgr_signal
    <3> QED BY <2>2, <3>1, BrokerAssumption, SMTT(20)
  <2> QED BY <2>1, <2>2
<1>6. CASE service_ws_signals
  <2>1. CASE dlinks = <<>>
    BY <1>1, <1>6, <2>1, SMTT(20) DEF service_ws_signals
  <2>2. CASE dlinks # <<>>
    <3> DEFINE msgs == queue \o unread
    <3>1. msgs \in Seq({"vm", "signal"}) /\ Len(msgs) <= MaxPending /\ Len(dlinks) \in Nat
      BY DEF LinksInv
    <3>2. queue' = SubSeq(msgs, Len(dlinks) + 1, Len(msgs)) /\ unread' = <<>>
      BY <1>6, <2>2 DEF service_ws_signals
    <3> HIDE DEF msgs
    <3>3. queue' \in Seq({"vm", "signal"}) /\ Len(queue') <= Len(msgs)
      BY <3>1, <3>2
    <3> QED BY <3>1, <3>2, <3>3, BrokerAssumption, SMTT(20)
  <2> QED BY <2>1, <2>2, SMTT(20)
<1>7. ASSUME NEW msg \in {"vm", "signal"}, Arrives(msg), UNCHANGED queue PROVE QueueTypes'
  BY <1>7, BrokerAssumption, SMTT(20) DEF Arrives
<1>8. CASE Outside
  BY <1>1, <1>7, <1>8, SMTT(20) DEF Outside, sighup_handler, sigint_handler, edit_file, vm_state_changed,
                          client_signal, db_fails_or_recovers, xenmgr
<1> QED BY <1>1, <1>3, <1>4, <1>5, <1>6, <1>8, SMTT(20) DEF Next, Round, vars, xenmgr

LEMMA FlagStep ==
    ASSUME FlagTypes, [Next]_vars
    PROVE  FlagTypes'
<1> USE DEF FlagTypes, Pcs, At, outside, links, loop, xenmgr, connection
<1>1. CASE Rebuild
  BY <1>1, Zenon DEF Rebuild, build_etc_policy, build_policy, clear_reload, check_reload, free_policy
<1>2. CASE ws_request_handler \/ exchange
  BY <1>2, Zenon DEF ws_request_handler, exchange
<1>3. CASE xenmgr_signal \/ service_ws_signals
  BY <1>3, Zenon DEF xenmgr_signal, service_ws_signals, parse_server_signal
<1>4. CASE ws_client_closes \/ uv_run_returns
  BY <1>4, Zenon DEF ws_client_closes, uv_run_returns
<1>5. CASE Outside
  BY <1>5, Zenon DEF Outside, sighup_handler, sigint_handler, edit_file, vm_state_changed,
              client_signal, db_fails_or_recovers
<1>6. CASE UNCHANGED vars
  BY <1>6 DEF vars
<1> QED BY <1>1, <1>2, <1>3, <1>4, <1>5, <1>6, SMTT(20) DEF Next, Round

-----------------------------------------------------------------------------
(***************************************************************************)
(* rpc-broker as a whole                                                   *)
(***************************************************************************)
LoopInv == PolicyInv /\ LinksInv /\ PolicyTypes /\ QueueTypes /\ FlagTypes
BrokerInv == LoopInv /\ WsInv /\ RawInv

LEMMA LoopInit ==
    ASSUME Init
    PROVE  LoopInv
<1>1. PolicyInv
  BY DEF Init, PolicyInv, Pcs, ServesValidPolicy
<1>2. PolicyTypes
  BY EmptyIsPolicy DEF Init, PolicyTypes
<1>3. QueueTypes
  <2>1. unread = <<>> /\ queue \in {<<>>, <<"signal">>}
    BY DEF Init
  <2>2. CASE queue = <<>>
    BY <2>1, <2>2, BrokerAssumption, SMTT(20) DEF QueueTypes
  <2>3. CASE queue = <<"signal">>
    BY <2>1, <2>3, BrokerAssumption, SMTT(20) DEF QueueTypes
  <2> QED BY <2>1, <2>2, <2>3, SMTT(20)
<1>4. FlagTypes
  BY Zenon DEF Init, FlagTypes, Pcs
<1> QED BY <1>1, <1>2, <1>3, <1>4, LinksInit, SMTT(20) DEF LoopInv

LEMMA WsStart ==
    ASSUME WsInit
    PROVE  WsInv
<1>1. <<"xenmgr">> \in Seq(Clients \cup {"xenmgr"}) /\ <<>> \in Seq(Clients)
  OBVIOUS
<1>2. IsRing(<<>>)
  BY <1>1, SeqIsRing, Zenon
<1> QED BY <1>1, <1>2 DEF WsInit, WsInv, LinksAreOpen, AskersArmed

LEMMA BrokerInvariant == SystemSpec => []BrokerInv
<1>1. SystemInit => BrokerInv
  <2> SUFFICES ASSUME SystemInit PROVE BrokerInv
    OBVIOUS
  <2>1. Init /\ WsInit /\ RawInit
    BY DEF SystemInit
  <2>2. RawInv
    BY <2>1 DEF RawInit, RawInv, Free
  <2> QED BY <2>1, <2>2, LoopInit, WsStart, SMTT(20) DEF BrokerInv
<1>2. BrokerInv /\ [SystemNext]_allVars => BrokerInv'
  <2> SUFFICES ASSUME BrokerInv, [SystemNext]_allVars PROVE BrokerInv'
    OBVIOUS
  <2>1. [Next]_vars
    BY DEF SystemNext, Loop, Websockets, Raw, Rules, allVars
  <2>2. LoopInv'
    BY <2>1, ValidStep, LinksStep, PolicyStep, QueueStep, FlagStep, SMTT(20) DEF BrokerInv, LoopInv
  <2>3. WsInv'
    <3>1. CASE UNCHANGED wsVars
      BY <3>1 DEF wsVars, BrokerInv, WsInv, LinksAreOpen, AskersArmed
    <3> QED BY <3>1, WsStep, SMTT(20) DEF BrokerInv, SystemNext, Loop, Websockets, Raw, Rules, allVars
  <2>4. RawInv'
    <3>1. CASE UNCHANGED rawVars
      BY <3>1, HandlesKept DEF rawVars, BrokerInv
    <3> QED BY <3>1, RawStep DEF BrokerInv, SystemNext, Loop, Websockets, Raw, Rules, allVars
  <2> QED BY <2>2, <2>3, <2>4, SMTT(20) DEF BrokerInv
<1> QED BY <1>1, <1>2, PTL DEF SystemSpec

\* While the loop serves, dbus_broker_policy points to a completely built
\* policy, whenever SIGHUP, xenmgr's signals and edits come.
THEOREM PolicyAlwaysValid == SystemSpec => []ServesValidPolicy
<1>1. BrokerInv => ServesValidPolicy
  BY DEF BrokerInv, LoopInv, PolicyInv
<1> QED BY <1>1, BrokerInvariant, PTL

\* The state of the loop has its types; the client links never exceed
\* MAX_SIGNALS; no link refers to a closed websocket; and the asker of every
\* reply in the shared ring is armed, for any number of clients and any size of
\* the ring.
THEOREM LinksStaySound == SystemSpec => []LinksSound
<1>1. BrokerInv => LinksSound
  <2> SUFFICES ASSUME BrokerInv PROVE LinksSound
    OBVIOUS
  <2>1. PolicyTypes /\ QueueTypes /\ FlagTypes /\ LinksInv /\ WsInv
    BY DEF BrokerInv, LoopInv
  <2>2. {unread, queue} \subseteq Seq({"vm", "signal"}) /\ Len(queue \o unread) <= MaxPending
    BY <2>1 DEF QueueTypes
  <2>3. signal_subscribers \in 0..MaxSignals /\ dlinks \in Seq({"xenmgr", "client"})
    BY <2>1, BrokerAssumption, SMTT(20) DEF LinksInv, LinksBounded
  <2>4. TypeOK
    BY <2>1, <2>2, <2>3, SMTT(20) DEF TypeOK, PolicyTypes, FlagTypes, Pcs
  <2> QED BY <2>1, <2>4 DEF LinksSound, LinksInv, WsInv
<1> QED BY <1>1, BrokerInvariant, PTL

\* Every descriptor of a raw connection has the one handle that was made for it,
\* and whole pairs send to themselves, however descriptor numbers are reused, for
\* any number of pairs and of descriptors.
THEOREM PairsStaySound == SystemSpec => []PairsSound
<1>1. BrokerInv => PairsSound
  BY DEF BrokerInv, RawInv, PairsSound, DescriptorsOwned, PairsMeet
<1> QED BY <1>1, BrokerInvariant, PTL
=============================================================================
