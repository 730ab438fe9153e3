------------------------------ MODULE MCDmLinks -----------------------------
(* Two device models, the second of another version; two QMP clients; a    *)
(* QEMU that plays and records.                                            *)
EXTENDS DmLinks

CONSTANTS c1, c2

MCClients == {c1, c2}
MCOtherVersion == {c2}
MCInterface == {[len |-> 2, call |-> TRUE], [len |-> 4, call |-> FALSE]}
MCMaxSent == [c \in MCClients |-> IF c = c1 THEN 2 ELSE 1]
MCOtherKinds == {[len |-> 0, call |-> TRUE], [len |-> 5, call |-> FALSE]}
MCMaxPackets == [c \in BOOLEAN |-> IF c THEN 3 ELSE 4]
=============================================================================
