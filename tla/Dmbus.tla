------------------------------- MODULE Dmbus --------------------------------
(***************************************************************************)
(* libdmbus: the service end of the bus between a daemon (surfman, input)  *)
(* and the device models.  The library is called by the daemon's one       *)
(* thread: dmbus_handle_connect() for a connection, dmbus_handle_events()  *)
(* for a client that can be read, broadcasts and disconnections in         *)
(* between.  Device models run beside it; streams deliver what was written *)
(* in pieces of any size.                                                  *)
(*                                                                         *)
(* A message is an identity, a length in cells and whether it asks for a   *)
(* reply; a cell is a message and a position in it.                        *)
(***************************************************************************)
EXTENDS Integers, Sequences, FiniteSets, Functions

CONSTANTS
    Clients,      \* device models
    OtherVersion, \* those built with another version of the interface
    NoOne,
    Hdr,          \* cells of a message header
    MaxMsg,       \* cells of the receive buffer (DMBUS_MAX_MSG_LEN)
    Interface,    \* the kinds of messages: [len, call], call if it has a reply
    OtherKinds,   \* kinds that only another version has
    Prologue,     \* cells of the connection prologue
    MaxSent       \* bound on the messages of each device model

ASSUME DmbusAssumption ==
    /\ OtherVersion \subseteq Clients /\ NoOne \notin Clients
    /\ IsFiniteSet(Clients)
    /\ MaxMsg \in Nat /\ Hdr \in 1 .. MaxMsg /\ Prologue \in Nat \ {0}
    /\ Interface \subseteq [len : Hdr .. MaxMsg, call : BOOLEAN]
    /\ OtherKinds \subseteq [len : Nat, call : BOOLEAN]

VARIABLES
    peer,         \* the device model: "away", "open" or "left"
    up,           \* cells on their way to the service
    sent,         \* messages the device model has written completely
    conn,         \* the service's end: "none", "pending", "open" or "closed"
    busy,         \* the client of the call in progress
    phase,        \* "idle", "prologue", "loop" or "stuck"
    read,         \* cells of the prologue received
    buff,         \* c->buff, up to c->len
    got,          \* messages shipped to the service's functions
    down,         \* messages sent to the client, [what, of]
    head, next, pprev  \* the list of clients

service == <<busy, phase, read, buff, got, down, head, next, pprev>>
dmbusVars == <<peer, up, sent, conn, service>>

DmbusInit ==
    /\ peer = [c \in Clients |-> "away"] /\ conn = [c \in Clients |-> "none"]
    /\ up = [c \in Clients |-> <<>>] /\ sent = [c \in Clients |-> <<>>]
    /\ busy = NoOne /\ phase = "idle" /\ read = 0
    /\ buff = [c \in Clients |-> <<>>] /\ got = [c \in Clients |-> <<>>]
    /\ down = [c \in Clients |-> <<>>]
    /\ head = NoOne /\ next = [c \in Clients |-> NoOne] /\ pprev = [c \in Clients |-> NoOne]

-----------------------------------------------------------------------------
(* Device models (outside of the library)                                  *)

PeerConnects(c) ==
    /\ peer[c] = "away" /\ conn[c] = "none"
    /\ peer' = [peer EXCEPT ![c] = "open"]
    /\ conn' = [conn EXCEPT ![c] = "pending"]
    /\ UNCHANGED <<up, sent, service>>

(* The prologue, one cell at a time.                                       *)
PeerIntroduces(c) ==
    /\ peer[c] = "open" /\ sent[c] = <<>>
    /\ conn[c] = "pending" \/ (phase = "prologue" /\ busy = c)
    /\ (IF busy = c THEN read ELSE 0) + Len(up[c]) < Prologue
    /\ up' = [up EXCEPT ![c] = Append(@, [m |-> "prologue", k |-> 0])]
    /\ UNCHANGED <<peer, sent, conn, service>>

Cells(m, n) == [k \in 1 .. n |-> [m |-> m, k |-> k]]

MaySend(c) == IF c \in OtherVersion THEN Interface \cup OtherKinds ELSE Interface

PeerSends(c) ==
    /\ peer[c] = "open" /\ conn[c] = "open" /\ ~(busy = c /\ phase = "prologue")
    /\ Len(sent[c]) < MaxSent[c]
    /\ \E kind \in MaySend(c) :
         LET m == [id |-> Len(sent[c]) + 1, len |-> kind.len, call |-> kind.call] IN
         /\ sent' = [sent EXCEPT ![c] = Append(@, m)]
         /\ up' = [up EXCEPT ![c] = @ \o Cells(m, IF m.len < Hdr THEN Hdr ELSE m.len)]
    /\ UNCHANGED <<peer, conn, service>>

(* It ends, perhaps in the middle of a message.                            *)
PeerLeaves(c) ==
    /\ peer[c] = "open" /\ conn[c] # "closed"
    /\ peer' = [peer EXCEPT ![c] = "left"]
    /\ \/ UNCHANGED up
       \/ /\ conn[c] = "open" /\ ~(busy = c /\ phase = "prologue") /\ Len(sent[c]) < MaxSent[c]
          /\ \E n \in 1 .. MaxMsg - 1 :
               up' = [up EXCEPT ![c] = @ \o Cells([id |-> Len(sent[c]) + 1, len |-> MaxMsg, call |-> FALSE], n)]
    /\ UNCHANGED <<sent, conn, service>>

-----------------------------------------------------------------------------
(* The list of clients: pprev is the pointer that points here, either the  *)
(* one of the list's head (NoOne) or the next pointer of a client.         *)

\* Mutant: the client that was first keeps pointing back at the head.
client_list_insert_MutOldFirst(c) ==
    /\ next' = [next EXCEPT ![c] = head]
    /\ pprev' = [pprev EXCEPT ![c] = NoOne]
    /\ head' = c

client_list_insert(c) ==
    /\ next' = [next EXCEPT ![c] = head]
    /\ pprev' = [x \in Clients |-> IF x = c THEN NoOne ELSE IF x = head THEN c ELSE pprev[x]]
    /\ head' = c

client_list_remove(c) ==
    /\ pprev' = [x \in Clients |-> IF x = next[c] THEN pprev[c] ELSE pprev[x]]
    /\ head' = IF pprev[c] = NoOne THEN next[c] ELSE head
    /\ next' = [x \in Clients |-> IF x = pprev[c] THEN next[c] ELSE next[x]]

(* What a loop over the list meets, from the head along next to its end;   *)
(* there is no such sequence if the list does not end.                     *)
Walks ==
    {w \in UNION {[1 .. n -> Clients] : n \in 0 .. Cardinality(Clients)} :
        /\ head = IF w = <<>> THEN NoOne ELSE w[1]
        /\ \A i \in DOMAIN w : next[w[i]] = IF i = Len(w) THEN NoOne ELSE w[i + 1]}

-----------------------------------------------------------------------------
(* send_msg(): it gives up when argo_send() fails, which it does when the  *)
(* other end has left, and tells nobody.                                   *)

\* Mutant: a call that is answered is also answered by an empty reply.
send_msg_MutTwice(c, what, of) ==
    IF peer[c] = "left" THEN down[c] ELSE down[c] \o [k \in 1 .. 2 |-> [what |-> what, of |-> of]]

send_msg(c, what, of) ==
    IF peer[c] = "left" THEN down[c] ELSE Append(down[c], [what |-> what, of |-> of])

-----------------------------------------------------------------------------
(* dmbus_handle_connect()                                                  *)

handle_connect(c) ==
    /\ phase = "idle" /\ conn[c] = "pending"
    /\ phase' = "prologue" /\ busy' = c /\ read' = 0
    /\ conn' = [conn EXCEPT ![c] = "open"]
    /\ UNCHANGED <<peer, up, sent, buff, got, down, head, next, pprev>>

recv_prologue(c) ==
    /\ phase = "prologue" /\ busy = c /\ read < Prologue
    /\ \E n \in 1 .. Len(up[c]) :
         /\ n <= Prologue - read
         /\ read' = read + n
         /\ up' = [up EXCEPT ![c] = SubSeq(@, n + 1, Len(@))]
    /\ UNCHANGED <<peer, sent, conn, busy, phase, buff, got, down, head, next, pprev>>

(* argo_close(): with the connection goes what was on its way, and its     *)
(* history is of no interest any more.                                     *)
Close(c) ==
    /\ conn' = [conn EXCEPT ![c] = "closed"] /\ peer' = [peer EXCEPT ![c] = "left"]
    /\ up' = [up EXCEPT ![c] = <<>>] /\ buff' = [buff EXCEPT ![c] = <<>>]
    /\ sent' = [sent EXCEPT ![c] = <<>>] /\ got' = [got EXCEPT ![c] = <<>>]
    /\ down' = [down EXCEPT ![c] = <<>>]

(* The prologue did not come within a second, the other end left, or the   *)
(* service refuses the client.                                             *)
ConnectFails(c) ==
    /\ phase = "prologue" /\ busy = c
    /\ up[c] = <<>> \/ read = Prologue
    /\ phase' = "idle" /\ busy' = NoOne /\ read' = 0
    /\ Close(c)
    /\ UNCHANGED <<head, next, pprev>>

(* A hash of another version is only warned about.                         *)
Connected(c) ==
    /\ phase = "prologue" /\ busy = c /\ read = Prologue
    /\ phase' = "idle" /\ busy' = NoOne /\ read' = 0
    /\ down' = [down EXCEPT ![c] = send_msg(c, "ready", 0)]
    /\ client_list_insert(c)
    /\ UNCHANGED <<peer, up, sent, conn, buff, got>>

-----------------------------------------------------------------------------
(* dmbus_handle_events()                                                   *)

IsClient(c) == conn[c] = "open" /\ ~(busy = c /\ phase = "prologue")

client_disconnect(c) == Close(c) /\ client_list_remove(c)

Room(c) == MaxMsg - Len(buff[c])

(* argo_recv() of what fits.                                               *)
ReceiveEvents(c) ==
    /\ phase = "idle" /\ IsClient(c) /\ Room(c) > 0
    /\ \E n \in 1 .. Len(up[c]) :
         /\ n <= Room(c)
         /\ buff' = [buff EXCEPT ![c] = @ \o SubSeq(up[c], 1, n)]
         /\ up' = [up EXCEPT ![c] = SubSeq(@, n + 1, Len(@))]
    /\ phase' = "loop" /\ busy' = c
    /\ UNCHANGED <<peer, sent, conn, read, got, down, head, next, pprev>>

(* It returns 0: the other end has left, or there is no room.              *)
ReceiveNothing(c) ==
    /\ phase = "idle" /\ IsClient(c)
    /\ (up[c] = <<>> /\ peer[c] = "left") \/ (up[c] # <<>> /\ Room(c) = 0)
    /\ client_disconnect(c)
    /\ UNCHANGED <<busy, phase, read>>

\* Mutant: a message is complete only when something follows it.
Complete_MutMore(c) == Len(buff[c]) >= Hdr /\ Len(buff[c]) > buff[c][1].m.len

Complete(c) == Len(buff[c]) >= Hdr /\ Len(buff[c]) >= buff[c][1].m.len

Rest(s, n) == SubSeq(s, n + 1, Len(s))

\* Mutant: everything in the buffer goes with the message.
pop_message_MutAll(c) == <<>>

pop_message(c) == Rest(buff[c], buff[c][1].m.len)

\* Mutant: one message for each call of dmbus_handle_events().
Ship_MutOne(c) ==
    /\ phase = "loop" /\ busy = c /\ Complete(c)
    /\ LET m == buff[c][1].m IN
       /\ got' = [got EXCEPT ![c] = Append(@, m)]
       /\ down' = IF m.call THEN [down EXCEPT ![c] = send_msg(c, "reply", m.id)] ELSE down
    /\ phase' = "idle" /\ busy' = NoOne
    /\ buff' = [buff EXCEPT ![c] = pop_message(c)]
    /\ UNCHANGED <<peer, up, sent, conn, read, head, next, pprev>>

(* One message: the service's function, the reply if it is a call, and     *)
(* pop_message(), which does nothing to a message of length 0.             *)
Ship(c) ==
    /\ phase = "loop" /\ busy = c /\ Complete(c)
    /\ LET m == buff[c][1].m IN
       /\ got' = [got EXCEPT ![c] = Append(@, m)]
       /\ down' = IF m.call THEN [down EXCEPT ![c] = send_msg(c, "reply", m.id)] ELSE down
       /\ phase' = IF m.len = 0 THEN "stuck" ELSE "loop"
    /\ buff' = [buff EXCEPT ![c] = pop_message(c)]
    /\ UNCHANGED <<peer, up, sent, conn, busy, read, head, next, pprev>>

EventsDone(c) ==
    /\ phase = "loop" /\ busy = c /\ ~Complete(c)
    /\ phase' = "idle" /\ busy' = NoOne
    /\ UNCHANGED <<peer, up, sent, conn, read, buff, got, down, head, next, pprev>>

-----------------------------------------------------------------------------
(* The service's own calls                                                 *)

BroadcastsOf(c) == Cardinality({i \in DOMAIN down[c] : down[c][i].what = "all"})

broadcast_msg ==
    /\ phase = "idle"
    /\ \E w \in Walks :
         /\ w # <<>> /\ \A c \in Range(w) : BroadcastsOf(c) = 0
         /\ down' = [c \in Clients |-> IF c \in Range(w) THEN send_msg(c, "all", 0) ELSE down[c]]
    /\ UNCHANGED <<peer, up, sent, conn, busy, phase, read, buff, got, head, next, pprev>>

ServiceDisconnects(c) ==
    /\ phase = "idle" /\ IsClient(c)
    /\ client_disconnect(c)
    /\ UNCHANGED <<busy, phase, read>>

LibraryStep(c) ==
    \/ handle_connect(c) \/ recv_prologue(c) \/ ConnectFails(c) \/ Connected(c)
    \/ ReceiveEvents(c) \/ ReceiveNothing(c) \/ Ship(c) \/ EventsDone(c)

DmbusNext ==
    \/ \E c \in Clients :
         \/ PeerConnects(c) \/ PeerIntroduces(c) \/ PeerSends(c) \/ PeerLeaves(c)
         \/ LibraryStep(c) \/ ServiceDisconnects(c)
    \/ broadcast_msg

DmbusSpec == DmbusInit /\ [][DmbusNext]_dmbusVars

-----------------------------------------------------------------------------
(* Properties                                                              *)

SameVersion == Clients \ OtherVersion

(* What the service's functions have not got of a device model.            *)
Waiting(c) == buff[c] \o up[c]

(* Cell b comes after cell a in what a device model writes.                *)
Follows(a, b) ==
    IF a.k < a.m.len THEN b.m = a.m /\ b.k = a.k + 1 ELSE b.m.id = a.m.id + 1 /\ b.k = 1

(* However the stream is cut into pieces, the service's functions get the  *)
(* messages of a device model whole, in order, each once; and what they    *)
(* have not got yet is all there, in the buffer and behind it, cell after  *)
(* cell from the first of the next message to the last of the last one.    *)
(* Behind it there may be the beginning of one more, if the other left.    *)
ShippedInOrder ==
    \A c \in SameVersion : IsClient(c) =>
        LET waiting == Waiting(c) IN
        /\ Len(got[c]) <= Len(sent[c]) /\ \A i \in DOMAIN got[c] : got[c][i] = sent[c][i]
        /\ \A i \in DOMAIN waiting :
              /\ IF i = 1 THEN waiting[i].m.id = Len(got[c]) + 1 /\ waiting[i].k = 1
                 ELSE Follows(waiting[i - 1], waiting[i])
              /\ \/ waiting[i].m.id \in DOMAIN sent[c] /\ waiting[i].m = sent[c][waiting[i].m.id]
                 \/ waiting[i].m.id > Len(sent[c]) /\ peer[c] = "left"
        /\ IF waiting = <<>> THEN Len(got[c]) = Len(sent[c])
           ELSE LET last == waiting[Len(waiting)] IN
                last.m.id > Len(sent[c]) \/ (last.m.id = Len(sent[c]) /\ last.k = last.m.len)

(* A device model of the same version is never dropped for want of room:   *)
(* between two calls of the library its buffer holds less than a message.  *)
BufferHasRoom ==
    \A c \in SameVersion : ~(busy = c /\ phase = "loop") => Room(c) > 0 /\ ~Complete(c)

Replies(c, n) == {i \in 1 .. n : down[c][i].what = "reply"}
Calls(c, n) == {i \in 1 .. n : got[c][i].call}

(* A device model that stays gets one reply for each call that was         *)
(* shipped, in their order, and none for other messages: as many as there  *)
(* were calls, the first for the first and so on.                          *)
RepliesInOrder ==
    \A c \in Clients : (peer[c] = "open" /\ phase # "stuck") =>
        /\ Cardinality(Replies(c, Len(down[c]))) = Cardinality(Calls(c, Len(got[c])))
        /\ \A i \in Replies(c, Len(down[c])), j \in Calls(c, Len(got[c])) :
              Cardinality(Replies(c, i)) = Cardinality(Calls(c, j)) => down[c][i].of = got[c][j].id

(* The list holds exactly the clients, each once, and every client's pprev *)
(* is the pointer that points at it, so that a broadcast reaches all and   *)
(* a removal takes out the right one.                                      *)
ListIsClients ==
    \E w \in Walks :
        /\ Range(w) = {c \in Clients : IsClient(c)}
        /\ \A i, j \in DOMAIN w : i # j => w[i] # w[j]
        /\ \A i \in DOMAIN w : pprev[w[i]] = IF i = 1 THEN NoOne ELSE w[i - 1]

(***************************************************************************)
(* Every message of a device model that stays connected reaches the        *)
(* service (again and again none is outstanding, and each sends a limited  *)
(* number), however slowly others introduce themselves, if the service     *)
(* calls the library for each descriptor that is ready; unless one of      *)
(* another version holds it in the loop with a message of length 0.        *)
(***************************************************************************)
MessagesServed ==
    []<>(\A c \in SameVersion : Len(got[c]) = Len(sent[c]) \/ conn[c] = "closed" \/ (phase = "stuck" /\ busy \in OtherVersion))

(* libdmbus delivers in both directions whole, in order and once, and      *)
(* never runs out of buffer for a device model of its own version.         *)
BusDelivers == ShippedInOrder /\ BufferHasRoom /\ RepliesInOrder

-----------------------------------------------------------------------------
(* The inductive invariant behind BusDelivers and ListIsClients            *)

(* Who is no client, yet or any more, has no history; a prologue is read   *)
(* completely and with nothing behind it; the loop that never ends is that *)
(* of a device model of another version.                                   *)
PhaseInv ==
    /\ phase = "idle" <=> busy = NoOne
    /\ phase = "prologue" => conn[busy] = "open" /\ read + Len(up[busy]) <= Prologue
    /\ phase \in {"loop", "stuck"} => IsClient(busy)
    /\ phase = "stuck" => busy \in OtherVersion
    /\ \A c \in Clients :
          /\ conn[c] = "none" <=> peer[c] = "away"
          /\ conn[c] = "pending" => Len(up[c]) <= Prologue
          /\ conn[c] \in {"none", "closed"} => up[c] = <<>>
          /\ conn[c] = "closed" => peer[c] = "left"
          /\ ~IsClient(c) => sent[c] = <<>> /\ got[c] = <<>> /\ buff[c] = <<>> /\ down[c] = <<>>

(* Messages are numbered as they are sent; what is waiting of a message    *)
(* that was not sent completely is not all of it.                          *)
StreamInv ==
    \A c \in SameVersion : IsClient(c) =>
        /\ \A i \in DOMAIN sent[c] : sent[c][i].id = i /\ sent[c][i].len \in Hdr .. MaxMsg
        /\ \A i \in DOMAIN Waiting(c) :
              /\ Waiting(c)[i].m.len \in Hdr .. MaxMsg
              /\ Waiting(c)[i].m.id > Len(sent[c]) => Waiting(c)[i].k < Waiting(c)[i].m.len

DmbusInv ==
    PhaseInv /\ StreamInv /\ ShippedInOrder /\ BufferHasRoom /\ RepliesInOrder /\ ListIsClients
=============================================================================
