------------------------------ MODULE RawProxy ------------------------------
(***************************************************************************)
(* The raw connections of rpc-broker (rpc-broker.c): for every client that *)
(* connects another connection is opened to the bus, and two poll handles  *)
(* pass data from the one to the other.  Each handle knows two descriptor  *)
(* numbers; closing it closes the one it receives from, and the number may *)
(* be given to a later connection while the other handle still has it.     *)
(***************************************************************************)
EXTENDS Integers, Sequences, SequencesExt, FiniteSetsExt

CONSTANTS
    MaxFd,        \* descriptors the process may have for connections
    MaxPairs,     \* bound on the clients that ever connect
    MaxPieces     \* bound on what one event finds to read

ASSUME RawAssumption == MaxFd \in Nat /\ MaxPairs \in Nat

VARIABLES
    serving,      \* the process has not ended
    pairs,        \* clients accepted so far
    fds,          \* descriptor number -> the socket behind it, or NoSocket
    handles,      \* socket -> its struct raw_dbus_conn
    peer          \* socket -> its other end: "open", or closed with ("last") or
                  \* without ("eof") data to read

rawVars == <<serving, pairs, fds, handles, peer>>

Fds == 1..MaxFd
Sockets == (1..MaxPairs) \X {"client", "bus"}
NoSocket == <<0, "none">>
Other(s) == <<s[1], IF s[2] = "client" THEN "bus" ELSE "client">>
Free == {fd \in Fds : fds[fd] = NoSocket}

RawInit ==
    /\ serving = TRUE
    /\ pairs = 0
    /\ fds = [fd \in Fds |-> NoSocket]
    /\ handles = [s \in {} |-> <<>>]
    /\ peer = [s \in {} |-> "open"]

init_rawdbus_conn(sender, receiver) ==
    [receiver |-> receiver, sender |-> sender, closing |-> FALSE]

\* service_rawdbus_server(): the kernel gives the lowest free numbers.  Without
\* two of them connect_to_system_bus() ends the process, and so does a bus that
\* refuses.
service_rawdbus_server ==
    /\ serving /\ pairs < MaxPairs
    /\ \/ serving' = FALSE /\ UNCHANGED <<pairs, fds, handles, peer>>
       \/ /\ Cardinality(Free) >= 2
          /\ LET client == Min(Free)
                 server == Min(Free \ {client})
                 c == <<pairs + 1, "client">>
                 b == <<pairs + 1, "bus">>
             IN  /\ pairs' = pairs + 1
                 /\ fds' = [fds EXCEPT ![client] = c, ![server] = b]
                 /\ handles' = [s \in DOMAIN handles \cup {c, b} |->
                                  CASE s = c -> init_rawdbus_conn(server, client)
                                    [] s = b -> init_rawdbus_conn(client, server)
                                    [] OTHER -> handles[s]]
                 /\ peer' = [s \in DOMAIN peer \cup {c, b} |->
                               IF s \in {c, b} THEN "open" ELSE peer[s]]
          /\ UNCHANGED serving

\* What one recv() of exchange() may find: a whole message that passes the filter
\* or that does not, or bytes that are no whole message, which are passed on.
Pieces == {"allowed", "denied", "bytes"}
Size(piece) == IF piece = "allowed" THEN 2 ELSE 1

\* What the calls of exchange() add up to: a denied message returns -1 and what
\* that call had passed on before is not counted.
Total(got) ==
    LET Add(sum, piece) == IF piece = "denied"
                           THEN [past |-> sum.past - 1, now |-> 0]
                           ELSE [sum EXCEPT !.now = @ + Size(piece)]
        sum == FoldLeft(Add, [past |-> 0, now |-> 0], got)
    IN  sum.past + sum.now

\* Mutant: only a denied message closes.
closes_MutNotAtEof(total) == total < 0

closes(total) == total <= 0

\* Whether a handle is closed after it found data, and after it found none.
Data == UNION {[1..n -> Pieces] : n \in 1..MaxPieces}
Verdicts == [data |-> {closes(Total(got)) : got \in Data}, eof |-> {closes(Total(<<>>))}]

\* service_rdconn_cb(): reads until there is nothing more, and asks libuv to
\* close the handle if nothing was passed on.
service_rdconn_cb(s) ==
    /\ serving /\ s \in DOMAIN handles /\ ~handles[s].closing
    /\ \E verdict \in Verdicts[IF peer[s] = "eof" THEN "eof" ELSE "data"] :
          handles' = [handles EXCEPT ![s].closing = verdict]
    /\ peer' = [peer EXCEPT ![s] = IF @ = "open" THEN @ ELSE "eof"]
    /\ UNCHANGED <<serving, pairs, fds>>

\* Mutant: both descriptors are closed.
closed_by_MutBoth(handle) == {handle.receiver, handle.sender}

closed_by(handle) == {handle.receiver}

\* close_client_rawdbus(), which libuv calls later in the same round.
close_client_rawdbus(s) ==
    /\ serving /\ s \in DOMAIN handles /\ handles[s].closing
    /\ fds' = [fd \in Fds |-> IF fd \in closed_by(handles[s]) THEN NoSocket ELSE fds[fd]]
    /\ handles' = [t \in DOMAIN handles \ {s} |-> handles[t]]
    /\ peer' = [t \in DOMAIN peer \ {s} |-> peer[t]]
    /\ UNCHANGED <<serving, pairs>>

\* A client leaves, or the bus hangs up.
PeerCloses(s) ==
    /\ serving /\ s \in DOMAIN peer /\ peer[s] = "open"
    /\ \E left \in {"last", "eof"} : peer' = [peer EXCEPT ![s] = left]
    /\ UNCHANGED <<serving, pairs, fds, handles>>

PeerGone(s) == s \in DOMAIN peer /\ peer[s] # "open"

RawNext ==
    \/ service_rawdbus_server
    \/ \E s \in Sockets : service_rdconn_cb(s) \/ close_client_rawdbus(s) \/ PeerCloses(s)

-----------------------------------------------------------------------------
\* Every open descriptor is received from by exactly one handle, the one made
\* for its socket, however numbers are reused: nothing is leaked without a
\* handle to close it, and no handle reads or closes what belongs to another.
DescriptorsOwned ==
    serving => /\ \A s \in DOMAIN handles : fds[handles[s].receiver] = s
               /\ \A fd \in Fds \ Free : \E s \in DOMAIN handles : handles[s].receiver = fd

\* As long as both handles of a pair are there, each sends to the socket of its
\* own pair.  When one is closed the other keeps a number that may by then belong
\* to anybody; the code has no more than this.
PairsMeet ==
    serving => \A s \in DOMAIN handles :
                 Other(s) \in DOMAIN handles => fds[handles[s].sender] = Other(s)

\* A connection whose other end has gone is closed in the end, also when data
\* came first or messages were denied: a handle that stayed would make the loop
\* spin on a socket that is always readable.
GoneAreClosed ==
    \A s \in Sockets : (serving /\ PeerGone(s))
                       ~> (~serving \/ s \notin DOMAIN peer)
=============================================================================
