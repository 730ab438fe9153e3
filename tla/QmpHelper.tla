----------------------------- MODULE QmpHelper ------------------------------
(***************************************************************************)
(* qmp_helper: one process per guest that relays between the UNIX socket   *)
(* on which the toolstack's clients speak QMP and the argo datagrams of    *)
(* the QEMU in the guest's stub domain.  One client at a time; QEMU is     *)
(* told with "dead" and "live" when one leaves and the next comes.         *)
(*                                                                         *)
(* Clients are numbered in the order in which they connect; data is marked *)
(* with the client it comes from or answers.                               *)
(***************************************************************************)
EXTENDS Integers, Sequences, FiniteSets

CONSTANTS
    MaxClients,   \* clients that ever connect
    MaxData,      \* messages of one client
    MaxEvents     \* messages QEMU sends unasked

ASSUME QmpAssumption == MaxClients \in Nat

VARIABLES
    pc,           \* where main() is
    rfds,         \* what select() found readable
    accepted,     \* clients accepted so far
    client,       \* the client behind unix_fd, 0 when it is closed
    state,        \* of each client: "away", "here" or "gone"
    wrote,        \* messages each client has written
    unix,         \* written by the clients, not yet read by the helper
    received,     \* written to each client by the helper
    consumed,     \* how many of them the client has read
    toQemu,       \* datagrams to QEMU, all of them
    seen,         \* the number of them QEMU has read
    session,      \* the client QEMU believes it speaks to
    fromQemu,     \* datagrams of QEMU not yet read by the helper
    events,       \* events QEMU has sent unasked
    qemu          \* "up" or "down"

helper == <<pc, rfds, accepted, client>>
outside == <<state, wrote, consumed, seen, session, events, qemu>>
channels == <<unix, received, toQemu, fromQemu>>
qmpVars == <<helper, outside, channels>>

Ids == 1 .. MaxClients
Data(n) == [kind |-> "data", of |-> n]

QmpInit ==
    /\ pc = "init" /\ rfds = {} /\ accepted = 0 /\ client = 0
    /\ state = [n \in Ids |-> "away"] /\ wrote = [n \in Ids |-> 0]
    /\ unix = [n \in Ids |-> <<>>] /\ received = [n \in Ids |-> <<>>] /\ consumed = [n \in Ids |-> 0]
    /\ toQemu = <<>> /\ seen = 0 /\ session = 1 /\ fromQemu = <<>> /\ events = 0
    /\ qemu = "up"

-----------------------------------------------------------------------------
(* Clients and QEMU (outside of the helper)                                *)

ClientConnects(n) ==
    /\ state[n] = "away" /\ pc \notin {"exited", "interrupted"} /\ \A k \in 1 .. n - 1 : state[k] # "away"
    /\ state' = [state EXCEPT ![n] = "here"]
    /\ UNCHANGED <<helper, channels, wrote, consumed, seen, session, events, qemu>>

(* A client may write before it is accepted.                               *)
ClientWrites(n) ==
    /\ state[n] = "here" /\ wrote[n] < MaxData
    /\ wrote' = [wrote EXCEPT ![n] = @ + 1]
    /\ unix' = [unix EXCEPT ![n] = Append(@, Data(n))]
    /\ UNCHANGED <<helper, state, consumed, seen, session, events, qemu, received, toQemu, fromQemu>>

ClientReads(n) ==
    /\ state[n] = "here" /\ consumed[n] < Len(received[n])
    /\ consumed' = [consumed EXCEPT ![n] = @ + 1]
    /\ UNCHANGED <<helper, channels, state, wrote, seen, session, events, qemu>>

ClientCloses(n) ==
    /\ state[n] = "here"
    /\ state' = [state EXCEPT ![n] = "gone"]
    /\ UNCHANGED <<helper, channels, wrote, consumed, seen, session, events, qemu>>

(* QEMU's character device: it answers data, and starts a session at "live". *)
QemuReads ==
    /\ qemu = "up" /\ seen < Len(toQemu)
    /\ seen' = seen + 1
    /\ session' = IF toQemu[seen'].kind = "live" THEN session + 1 ELSE session
    /\ fromQemu' = IF toQemu[seen'].kind = "data" THEN Append(fromQemu, Data(session)) ELSE fromQemu
    /\ UNCHANGED <<helper, state, wrote, consumed, events, qemu, unix, received, toQemu>>

QemuEvent ==
    /\ qemu = "up" /\ events < MaxEvents
    /\ events' = events + 1 /\ fromQemu' = Append(fromQemu, Data(session))
    /\ UNCHANGED <<helper, state, wrote, consumed, seen, session, qemu, unix, received, toQemu>>

QemuDies ==
    /\ qemu = "up" /\ qemu' = "down"
    /\ UNCHANGED <<helper, channels, state, wrote, consumed, seen, session, events>>

-----------------------------------------------------------------------------
(* The helper                                                              *)

(* accept() blocks until there is a client, even one that has left since.  *)
Accept ==
    /\ accepted < MaxClients /\ state[accepted + 1] # "away"
    /\ accepted' = accepted + 1 /\ client' = accepted + 1

\* Mutant: the first client is announced like the others.
init_unix_socket_MutAnnounced ==
    /\ pc = "init" /\ Accept
    /\ toQemu' = Append(toQemu, [kind |-> "live", of |-> 0])
    /\ pc' = "select" /\ rfds' = {}
    /\ UNCHANGED <<outside, unix, received, fromQemu>>

(* main() up to its loop: the first client is not announced.               *)
init_unix_socket ==
    /\ pc = "init" /\ Accept
    /\ pc' = "select" /\ rfds' = {}
    /\ UNCHANGED <<outside, channels>>

Left(n) == state[n] = "gone"
Unread(n) == consumed[n] < Len(received[n])

\* Mutant: the end of a client does not wake the helper.
Select_MutData ==
    /\ pc = "select"
    /\ rfds' = (IF unix[client] # <<>> THEN {"unix"} ELSE {})
                 \cup (IF fromQemu # <<>> THEN {"argo"} ELSE {})
    /\ rfds' # {}
    /\ pc' = "unix"
    /\ UNCHANGED <<accepted, client, outside, channels>>

Select ==
    /\ pc = "select"
    /\ rfds' = (IF unix[client] # <<>> \/ Left(client) THEN {"unix"} ELSE {})
                 \cup (IF fromQemu # <<>> THEN {"argo"} ELSE {})
    /\ rfds' # {}
    /\ pc' = "unix"
    /\ UNCHANGED <<accepted, client, outside, channels>>

(* argo_sendto() fails when there is no QEMU.                              *)
Sent(d) == IF qemu = "up" THEN Append(toQemu, d) ELSE toQemu

NotReadable ==
    /\ pc = "unix" /\ "unix" \notin rfds
    /\ pc' = "argo"
    /\ UNCHANGED <<rfds, accepted, client, outside, channels>>

(* qmph_unix_to_argo(), with data; a read of several writes at once is as  *)
(* good as one after the other.                                            *)
Forward ==
    /\ pc = "unix" /\ "unix" \in rfds /\ unix[client] # <<>>
    /\ unix' = [unix EXCEPT ![client] = Tail(@)]
    /\ toQemu' = Sent(Head(unix[client]))
    /\ pc' = IF qemu = "up" THEN "argo" ELSE "exited"
    /\ UNCHANGED <<rfds, accepted, client, outside, received, fromQemu>>

(* A client that left without reading all it got resets the connection:    *)
(* read() fails.                                                           *)
ReadFails ==
    /\ pc = "unix" /\ "unix" \in rfds /\ unix[client] = <<>> /\ Unread(client)
    /\ pc' = "exited"
    /\ UNCHANGED <<rfds, accepted, client, outside, channels>>

\* Mutant: the end of a client is an error like any other.
EndOfClient_MutExits ==
    /\ pc = "unix" /\ "unix" \in rfds /\ unix[client] = <<>> /\ ~Unread(client)
    /\ toQemu' = Sent([kind |-> "dead", of |-> 0])
    /\ client' = 0 /\ pc' = "exited"
    /\ UNCHANGED <<rfds, accepted, outside, unix, received, fromQemu>>

EndOfClient ==
    /\ pc = "unix" /\ "unix" \in rfds /\ unix[client] = <<>> /\ ~Unread(client)
    /\ toQemu' = Sent([kind |-> "dead", of |-> 0])
    /\ client' = 0 /\ pc' = "accept"
    /\ UNCHANGED <<rfds, accepted, outside, unix, received, fromQemu>>

\* Mutant: QEMU is not told of the new client.
NextClient_MutNotTold ==
    /\ pc = "accept" /\ Accept
    /\ pc' = "argo"
    /\ UNCHANGED <<rfds, outside, channels>>

NextClient ==
    /\ pc = "accept" /\ Accept
    /\ toQemu' = Sent([kind |-> "live", of |-> 0])
    /\ pc' = "argo"
    /\ UNCHANGED <<rfds, outside, unix, received, fromQemu>>

(* qmph_argo_to_unix(), on what select() found before the client may have  *)
(* changed; writing to a client that has left is SIGPIPE.                  *)
Answer ==
    /\ pc = "argo"
    /\ IF "argo" \in rfds
       THEN /\ fromQemu' = Tail(fromQemu)
            /\ received' = IF Left(client) THEN received
                           ELSE [received EXCEPT ![client] = Append(@, Head(fromQemu))]
            /\ pc' = IF Left(client) THEN "exited" ELSE "select"
       ELSE pc' = "select" /\ UNCHANGED <<fromQemu, received>>
    /\ rfds' = {}
    /\ UNCHANGED <<accepted, client, outside, unix, toQemu>>

(* SIGINT, with which the toolstack ends it.                               *)
signal_handler ==
    /\ pc \notin {"exited", "interrupted"}
    /\ pc' = "interrupted"
    /\ UNCHANGED <<rfds, accepted, client, outside, channels>>

HelperStep ==
    \/ init_unix_socket \/ Select \/ NotReadable \/ Forward \/ ReadFails
    \/ EndOfClient \/ NextClient \/ Answer

QmpNext ==
    \/ HelperStep \/ signal_handler
    \/ \E n \in Ids : ClientConnects(n) \/ ClientWrites(n) \/ ClientReads(n) \/ ClientCloses(n)
    \/ QemuReads \/ QemuEvent \/ QemuDies

QmpSpec == QmpInit /\ [][QmpNext]_qmpVars

-----------------------------------------------------------------------------
(* Properties                                                              *)

(* How many of the first n datagrams to QEMU are of a kind.                *)
CountOf(kind, n) == Cardinality({i \in 1 .. n : toQemu[i].kind = kind})

(***************************************************************************)
(* QEMU can tell the clients apart: what it reads of client n comes after  *)
(* n - 1 pairs of "dead" and "live" and before the next "dead".            *)
(***************************************************************************)
SessionsTold ==
    \A i \in DOMAIN toQemu :
        /\ toQemu[i].kind = "data" => /\ CountOf("live", i - 1) = toQemu[i].of - 1
                                      /\ CountOf("dead", i - 1) = toQemu[i].of - 1
        /\ toQemu[i].kind = "live" => CountOf("dead", i - 1) = CountOf("live", i - 1) + 1

(***************************************************************************)
(* A client may get answers meant for the ones before it, which QEMU sent  *)
(* before it read "dead"; but never after one of its own, and never one    *)
(* meant for a later client.                                               *)
(***************************************************************************)
AnswersInSessionOrder ==
    \A n \in Ids :
        /\ \A i \in DOMAIN received[n] : received[n][i].of <= n
        /\ \A i, j \in DOMAIN received[n] : i < j => received[n][i].of <= received[n][j].of

(* While QEMU runs, the helper ends only on a client that has left: with   *)
(* answers unread, or just when one is written to it.                      *)
EndsOnlyWithClient ==
    pc = "exited" => qemu = "down" \/ (client # 0 /\ state[client] = "gone")

(* A client gets its turn once all those before it have left.              *)
NextIsServed ==
    []<>(\A n \in Ids :
            (state[n] # "away" /\ \A k \in 1 .. n - 1 : state[k] = "gone")
                => (accepted >= n \/ pc \in {"exited", "interrupted"}))

-----------------------------------------------------------------------------
(* The inductive invariant behind SessionsTold, AnswersInSessionOrder and  *)
(* EndsOnlyWithClient.                                                     *)

Lives == CountOf("live", Len(toQemu))
Deads == CountOf("dead", Len(toQemu))

(* The helper serves the client it accepted last, and QEMU was told of as  *)
(* many changes of clients as there were, as long as it is there.          *)
TurnsInv ==
    /\ client \in {0, accepted}
    /\ pc = "init" => accepted = 0 /\ toQemu = <<>>
    /\ pc \in {"select", "unix", "argo"} => client # 0
    /\ pc = "accept" => accepted # 0
    /\ Lives = 0 \/ Lives < accepted
    /\ qemu = "up" /\ pc \in {"select", "unix", "argo"} => Lives = accepted - 1 /\ Deads = accepted - 1
    /\ qemu = "up" /\ pc = "accept" => Lives = accepted - 1 /\ Deads = accepted
    /\ session = 1 + CountOf("live", seen)

(* Answers are on their way in the order of the sessions.                  *)
OrderInv ==
    /\ \A i \in DOMAIN fromQemu : fromQemu[i].of <= session
    /\ \A i, j \in DOMAIN fromQemu : i < j => fromQemu[i].of <= fromQemu[j].of
    /\ \A n \in Ids : \A i \in DOMAIN received[n] :
          /\ received[n][i].of <= session
          /\ \A j \in DOMAIN fromQemu : received[n][i].of <= fromQemu[j].of

(* What select() found is still there when it is acted on.                 *)
FoundInv ==
    /\ pc = "unix" /\ "unix" \in rfds => unix[client] # <<>> \/ Left(client)
    /\ pc \in {"unix", "accept", "argo"} /\ "argo" \in rfds => fromQemu # <<>>

QmpInv == TurnsInv /\ SessionsTold /\ OrderInv /\ AnswersInSessionOrder /\ FoundInv /\ EndsOnlyWithClient
=============================================================================
