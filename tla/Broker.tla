------------------------------- MODULE Broker -------------------------------
(***************************************************************************)
(* The main loops of rpc-broker (rpc-broker.c): run_websockets() and       *)
(* run_rawdbus(), the policy they build and rebuild, the signals that ask  *)
(* for a rebuild, and the list of D-Bus signal links of websockets.c and   *)
(* rpc-dbus.c.                                                             *)
(*                                                                         *)
(* One thread runs the loop.  SIGHUP and SIGINT handlers run between any   *)
(* two of its steps; the /etc file, the DB and the VMs change at any time. *)
(* A rebuild is split where it reads them: first the file, then the DB.    *)
(*                                                                         *)
(* create_dbus_connection() is dbus_bus_get(), which gives everyone the    *)
(* same connection: the subscription to xenmgr, those of clients and the   *)
(* calls of the loop share one socket and one queue of messages.           *)
(***************************************************************************)
EXTENDS BrokerFilter

CONSTANTS
    EtcFiles,       \* contents the policy file may have: lists of rules
    DbRules,        \* lists of rules a VM may have in the DB
    Requests,       \* messages of clients and of the bus
    MaxSignals,     \* MAX_SIGNALS
    MaxPending,     \* bound on the messages that wait on the connection
    Modes           \* which loops are considered

ASSUME BrokerAssumption ==
    /\ MaxSignals \in Nat /\ MaxPending \in Nat \ {0}
    /\ Modes \subseteq {"websockets", "rawdbus"}

VARIABLES
    mode,                \* which loop this process runs; fixed
    status,              \* up, exited or crashed
    pc,                  \* where the loop is
    pointer,             \* dbus_broker_policy: null, valid or freed
    policy,              \* what it points to, or what is being built
    reload_policy,
    woken,               \* this uv_run() has handled an event
    domain_uuids,        \* the domains whose uuid is cached
    dlinks,              \* the signal links, a list of "xenmgr" and "client"
    signal_subscribers,
    xenmgr_open,         \* raw loop: the xenmgr handle is still polled
    unread, queue,       \* messages in the socket, in libdbus' queue: "vm" is
                         \* xenmgr's vm_state_changed, "signal" any other
    file,                \* the policy file
    db, vms, db_up       \* the DB: rules per VM, the VMs it lists, its health

loop == <<pc, pointer, policy>>
links == <<dlinks, signal_subscribers>>
connection == <<unread, queue>>
xenmgr == <<xenmgr_open, connection>>
outside == <<file, db, vms, db_up>>
vars == <<mode, status, loop, reload_policy, woken, domain_uuids, links,
          xenmgr, outside>>

Policies ==
    [etc : EtcFiles \cup {<<>>}, database : BOOLEAN,
     domains : UNION {[V -> DbRules] : V \in SUBSET Uuids}]
Empty == [etc |-> <<>>, database |-> FALSE, domains |-> [u \in {} |-> <<>>]]

TypeOK ==
    /\ mode \in Modes
    /\ status \in {"up", "exited", "crashed"}
    /\ pc \in {"etc", "db", "clear", "check", "free", "serve"}
    /\ pointer \in {"null", "valid", "freed"}
    /\ policy \in Policies
    /\ reload_policy \in BOOLEAN /\ woken \in BOOLEAN
    /\ domain_uuids \subseteq Doms
    /\ dlinks \in Seq({"xenmgr", "client"})
    /\ signal_subscribers \in 0..MaxSignals
    /\ xenmgr_open \in BOOLEAN
    /\ {unread, queue} \subseteq Seq({"vm", "signal"})
    /\ Len(queue \o unread) <= MaxPending
    /\ file \in EtcFiles /\ db \in [Uuids -> DbRules]
    /\ vms \subseteq Uuids /\ db_up \in BOOLEAN

\* The loop subscribes to xenmgr; NameAcquired may have been queued while the
\* connection was set up.
Init ==
    /\ mode \in Modes
    /\ status = "up"
    /\ pc = "etc" /\ pointer = "null" /\ policy = Empty
    /\ reload_policy = FALSE /\ woken = FALSE
    /\ domain_uuids = {}
    /\ dlinks = IF mode = "websockets" THEN <<"xenmgr">> ELSE <<>>
    /\ signal_subscribers = 0
    /\ xenmgr_open = (mode = "rawdbus")
    /\ unread = <<>> /\ queue \in {<<>>, <<"signal">>}
    /\ file \in EtcFiles /\ db \in [Uuids -> DbRules]
    /\ vms \in SUBSET Uuids /\ db_up = TRUE

-----------------------------------------------------------------------------
(***************************************************************************)
(* The policy: build_policy(), free_policy() and the loops around them     *)
(***************************************************************************)
\* Where a step of the loop is, and what none of them touches.
At(where) == status = "up" /\ pc = where /\ UNCHANGED <<mode, status, outside>>

\* make_dbus_call(): waiting for its reply reads the socket, and what is not the
\* reply stays queued.
make_dbus_call == queue' = queue \o unread /\ unread' = <<>>

\* build_etc_policy(): the rules of the file as it is now.
build_etc_policy ==
    /\ At("etc")
    /\ policy' = [Empty EXCEPT !.etc = file]
    /\ pc' = "db"
    /\ UNCHANGED <<pointer, reload_policy, woken, domain_uuids, links, xenmgr>>

\* db_list() and get_rules(); without an answer there is no database.  Only
\* then is the result assigned to dbus_broker_policy.  The first build is before
\* the loop and clears no flag.  Once the raw loop has closed the socket of the
\* connection, whether there is an answer is left open.
build_policy ==
    /\ At("db")
    /\ \E answered \in IF mode = "rawdbus" /\ ~xenmgr_open THEN BOOLEAN ELSE {db_up} :
          policy' = IF answered
                    THEN [policy EXCEPT !.database = TRUE,
                                        !.domains = [u \in vms |-> db[u]]]
                    ELSE policy
    /\ make_dbus_call
    /\ pointer' = "valid"
    /\ pc' = IF pointer = "freed" THEN "clear"
             ELSE IF mode = "websockets" THEN "check" ELSE "serve"
    /\ UNCHANGED <<reload_policy, woken, domain_uuids, links, xenmgr_open>>

clear_reload ==
    /\ At("clear")
    /\ reload_policy' = FALSE
    /\ pc' = "serve"
    /\ UNCHANGED <<pointer, policy, woken, domain_uuids, links, xenmgr>>

\* Mutant: the flag is cleared before it is tested.
check_reload_MutClearedFirst ==
    /\ At("check")
    /\ reload_policy' = FALSE
    /\ pc' = "serve"
    /\ UNCHANGED <<pointer, policy, woken, domain_uuids, links, xenmgr>>

check_reload ==
    /\ At("check")
    /\ pc' = IF reload_policy THEN "free" ELSE "serve"
    /\ UNCHANGED <<pointer, policy, reload_policy, woken, domain_uuids, links, xenmgr>>

free_policy ==
    /\ At("free")
    /\ pointer' = "freed" /\ policy' = Empty
    /\ pc' = "etc"
    /\ UNCHANGED <<reload_policy, woken, domain_uuids, links, xenmgr>>

-----------------------------------------------------------------------------
(***************************************************************************)
(* A round of the loop: lws_service() and service_ws_signals(), or         *)
(* uv_run(UV_RUN_ONCE)                                                     *)
(***************************************************************************)
\* The uuid used for a domain: the cached one, else xenmgr's answer, which may
\* be an error.
uuids_of(domid) ==
    IF ~policy.database \/ domid >= CacheLimit THEN {NoUuid}
    ELSE IF domid \in domain_uuids THEN {UuidOf[domid]}
    ELSE {UuidOf[domid], NoUuid}

\* add_ws_signal(), which a client reaches with an AddMatch that is allowed and
\* answered.
add_ws_signal ==
    /\ dlinks' = Append(dlinks, "client")
    /\ signal_subscribers' = signal_subscribers + 1

\* Mutant: off by one at the limit.
subscribes_MutOffByOne(m) == signal_subscribers <= MaxSignals /\ m.member = "AddMatch"

subscribes(m) == signal_subscribers < MaxSignals /\ m.member = "AddMatch"

\* Some request of the domain that the policy allows subscribes.
may_subscribe(domid, uuid) ==
    \E m \in Requests, attr \in Attributes :
        subscribes(m) /\ is_request_allowed(policy, m, TRUE, domid, uuid, attr)

\* ws_request_handler(): a request over a websocket, which is introspected
\* first.  One that is denied or that the bus does not answer adds no link.
ws_request_handler ==
    /\ At("serve") /\ mode = "websockets"
    /\ \E domid \in Doms : \E uuid \in uuids_of(domid) :
          /\ domain_uuids' = IF uuid = NoUuid THEN domain_uuids
                                              ELSE domain_uuids \cup {domid}
          /\ \/ may_subscribe(domid, uuid) /\ add_ws_signal
             \/ UNCHANGED links
    /\ make_dbus_call
    /\ UNCHANGED <<loop, reload_policy, woken, xenmgr_open>>

\* exchange(): a message of a raw connection, in either direction.  It is
\* passed on or dropped; which of both is is_request_allowed(), which asks xenmgr
\* for a uuid it does not have and the DB for the booleans of rules.
exchange ==
    /\ At("serve") /\ mode = "rawdbus"
    /\ \E domid \in Doms : \E uuid \in uuids_of(domid) :
          domain_uuids' = IF uuid = NoUuid THEN domain_uuids
                                           ELSE domain_uuids \cup {domid}
    /\ make_dbus_call \/ (UNCHANGED <<connection, domain_uuids>>)
    /\ woken' = TRUE
    /\ UNCHANGED <<loop, reload_policy, links, xenmgr_open>>

\* parse_server_signal(): a message with a string argument asks for a reload;
\* vm_state_changed has one.
parse_server_signal(msgs) ==
    reload_policy' \in IF "vm" \in msgs THEN {TRUE}
                       ELSE IF msgs # {} THEN {reload_policy, TRUE}
                       ELSE {reload_policy}

\* xenmgr_signal(): the socket is readable, but nothing reads it before the pop:
\* only a message queued earlier is found.  Without one the handle is closed,
\* and with it the socket.
xenmgr_signal ==
    /\ At("serve") /\ mode = "rawdbus" /\ xenmgr_open /\ unread # <<>>
    /\ parse_server_signal({queue[i] : i \in DOMAIN queue \cap {1}})
    /\ IF queue = <<>>
       THEN xenmgr_open' = FALSE /\ unread' = <<>> /\ queue' = <<>>
       ELSE queue' = Tail(queue) /\ UNCHANGED <<xenmgr_open, unread>>
    /\ woken' = TRUE
    /\ UNCHANGED <<loop, domain_uuids, links>>

\* The callback of a websocket that is closed, which frees all links.  The next
\* pointer of a lone link is NULL, and free_dlinks() follows it.
ws_client_closes ==
    /\ status = "up" /\ pc = "serve" /\ mode = "websockets"
    /\ status' = IF Len(dlinks) = 1 THEN "crashed" ELSE "up"
    /\ dlinks' = IF Len(dlinks) = 1 THEN dlinks ELSE <<>>
    /\ UNCHANGED <<mode, loop, reload_policy, woken, domain_uuids,
                   signal_subscribers, xenmgr, outside>>

\* Mutant: the connection is not read before the pop, as in the raw loop.
service_ws_signals_MutNoRead ==
    /\ At("serve") /\ mode = "websockets"
    /\ parse_server_signal({queue[i] : i \in {j \in DOMAIN queue \cap DOMAIN dlinks :
                                               dlinks[j] = "xenmgr"}})
    /\ queue' = SubSeq(queue, Len(dlinks) + 1, Len(queue))
    /\ pc' = "check"
    /\ UNCHANGED <<pointer, policy, woken, domain_uuids, links, unread, xenmgr_open>>

\* service_ws_signals(): the connection is read, and every link in turn pops one
\* message, whoever it is for.  The link of the xenmgr subscription takes it for
\* xenmgr's, one of a client sends it to that client's socket.
service_ws_signals ==
    LET msgs == queue \o unread
        served == {i \in DOMAIN msgs \cap DOMAIN dlinks : dlinks[i] = "xenmgr"}
    IN  /\ At("serve") /\ mode = "websockets"
        /\ parse_server_signal({msgs[i] : i \in served})
        /\ IF dlinks = <<>>
           THEN UNCHANGED connection
           ELSE queue' = SubSeq(msgs, Len(dlinks) + 1, Len(msgs)) /\ unread' = <<>>
        /\ pc' = "check"
        /\ UNCHANGED <<pointer, policy, woken, domain_uuids, links, xenmgr_open>>

\* uv_run() returns once it has handled something; a signal does not end its
\* wait.
uv_run_returns ==
    /\ At("serve") /\ mode = "rawdbus" /\ woken
    /\ woken' = FALSE
    /\ pc' = "check"
    /\ UNCHANGED <<pointer, policy, reload_policy, domain_uuids, links, xenmgr>>

-----------------------------------------------------------------------------
(***************************************************************************)
(* UNIX signals, and the world outside                                     *)
(***************************************************************************)
\* Mutant: the handler frees the policy itself.
sighup_handler_MutFreesNow ==
    /\ status = "up"
    /\ reload_policy' = TRUE
    /\ pointer' = "freed"
    /\ UNCHANGED <<mode, status, pc, policy, woken, domain_uuids, links, xenmgr, outside>>

sighup_handler ==
    /\ status = "up"
    /\ reload_policy' = TRUE
    /\ UNCHANGED <<mode, status, loop, woken, domain_uuids, links, xenmgr, outside>>

\* Frees the links and the policy and exits.  It crashes on a lone link and on
\* a policy not built yet; freeing a policy twice may end either way.
sigint_handler ==
    /\ status = "up"
    /\ status' \in IF Len(dlinks) = 1 \/ pointer = "null" THEN {"crashed"}
                   ELSE IF pointer = "freed" THEN {"crashed", "exited"}
                   ELSE {"exited"}
    /\ UNCHANGED <<mode, loop, reload_policy, woken, domain_uuids, links,
                   xenmgr, outside>>

edit_file ==
    /\ status = "up"
    /\ file' \in EtcFiles \ {file}
    /\ UNCHANGED <<mode, status, loop, reload_policy, woken, domain_uuids,
                   links, xenmgr, db, vms, db_up>>

\* A message comes in, unless the socket is closed.
Arrives(msg) ==
    /\ Len(queue \o unread) < MaxPending
    /\ unread' = IF mode = "rawdbus" /\ ~xenmgr_open THEN unread ELSE Append(unread, msg)

\* A VM is created and changes state, or only changes state; xenmgr tells.
vm_state_changed ==
    /\ status = "up"
    /\ vms' \in {vms \cup {u} : u \in Uuids}
    /\ Arrives("vm")
    /\ UNCHANGED <<mode, status, loop, reload_policy, woken, domain_uuids,
                   links, xenmgr_open, queue, file, db, db_up>>

\* A signal that a client has asked for with AddMatch.
client_signal ==
    /\ status = "up" /\ signal_subscribers > 0
    /\ Arrives("signal")
    /\ UNCHANGED <<mode, status, loop, reload_policy, woken, domain_uuids,
                   links, xenmgr_open, queue, outside>>

db_fails_or_recovers ==
    /\ status = "up"
    /\ db_up' = ~db_up
    /\ UNCHANGED <<mode, status, loop, reload_policy, woken, domain_uuids,
                   links, xenmgr, file, db, vms>>

Rebuild == build_etc_policy \/ build_policy \/ clear_reload \/ check_reload \/ free_policy
Round == ws_request_handler \/ exchange \/ xenmgr_signal \/ ws_client_closes
         \/ service_ws_signals \/ uv_run_returns
Outside == sighup_handler \/ sigint_handler \/ edit_file \/ vm_state_changed
           \/ client_signal \/ db_fails_or_recovers
Next == Rebuild \/ Round \/ Outside

Spec == Init /\ [][Next]_vars

\* The loop runs.  lws_service() returns after WS_LOOP_TIMEOUT at the latest;
\* for uv_run() nothing is assumed.
FairSpec == Spec /\ WF_vars(Rebuild) /\ WF_vars(service_ws_signals)

-----------------------------------------------------------------------------
(***************************************************************************)
(* Properties                                                              *)
(***************************************************************************)
\* No message is judged by a policy that is not there or that is only partly
\* built: while the loop serves, dbus_broker_policy is valid (service in
\* rpc-broker.c, with reloads asked for at any moment).
ServesValidPolicy == pc \in {"check", "free", "clear", "serve"} <=> pointer = "valid"

\* Whatever the policy in force and the request: the two loops of
\* is_request_allowed() with their early exits give the verdict of the last
\* rule that applies in the file's rules followed by the domain's, deny without
\* one; a property access is judged as the property.
FilterIsLastMatch ==
    (status = "up" /\ pc = "serve") =>
        \A m \in Requests, c \in BOOLEAN, d \in Doms, attr \in Attributes :
        \A uuid \in uuids_of(d) :
            is_request_allowed(policy, m, c, d, uuid, attr)
                <=> LastMatch(policy, m, c, d, uuid, attr)

\* No more client links than MAX_SIGNALS, whatever subscribes and closes, and
\* the counter that is never decremented never lags behind the list.
LinksBounded ==
    LET clients == {i \in DOMAIN dlinks : dlinks[i] = "client"}
    IN  Cardinality(clients) <= signal_subscribers /\ signal_subscribers <= MaxSignals

\* A reload asked for before the file is read puts the file in force, unless
\* the file is edited again or the process ends (websocket loop).
ReloadTakesEffect ==
    \A f \in EtcFiles :
        (/\ mode = "websockets" /\ status = "up" /\ file = f
         /\ reload_policy /\ pc \in {"serve", "check", "free"})
        ~> (policy.etc = f \/ file # f \/ status # "up")

\* A VM created while no client is subscribed gets its rules into the policy:
\* the link of xenmgr finds the signal however many calls have read the shared
\* connection, and unlike SIGHUP it cannot come between the rebuild and the
\* clearing of the flag.  Unless the DB fails, the links are freed or the process
\* ends (websocket loop).  With a client's link in the list this is not so: that
\* link may pop xenmgr's message and send it to the client.
NewVmGetsItsRules ==
    \A u \in Uuids :
        (/\ mode = "websockets" /\ status = "up" /\ u \in vms /\ dlinks = <<"xenmgr">>
         /\ "vm" \in ToSet(queue \o unread))
        ~> (u \in DOMAIN policy.domains \/ ~db_up \/ dlinks # <<"xenmgr">> \/ status # "up")

\* free_dlinks(): "Free's all websockets signal links from the running list."
CloseFreesAllLinks == [][ws_client_closes => dlinks' = <<>>]_vars
=============================================================================
