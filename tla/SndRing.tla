------------------------------ MODULE SndRing ------------------------------
(***************************************************************************)
(* The request half of the shared ring of audio-daemon (ring.c): free-     *)
(* running unsigned indexes, masked on access, shared with the front end.  *)
(* The front end writes with the twin of ring_write (its driver is not in  *)
(* the repository), which refuses a write that has no contiguous room.     *)
(***************************************************************************)
EXTENDS Naturals, Sequences

CONSTANTS
    RingSize,   \* XC_RING_SIZE
    IdxSpace,   \* number of values of XC_RING_IDX (2^32)
    CmdLen,     \* sizeof(struct fe_cmd)
    NoByte      \* contents of a page nobody has written

ASSUME RingAssumption ==
    /\ RingSize \in Nat \ {0} /\ IdxSpace \in Nat /\ CmdLen \in 1 .. RingSize
    /\ IdxSpace % RingSize = 0 /\ IdxSpace > RingSize
    /\ RingSize % CmdLen = 0

VARIABLES
    req,        \* the bytes of the ring
    req_cons,   \* consumer index, advanced by ring_read
    req_prod,   \* producer index, advanced by the writer
    data        \* what the ring_read in progress has copied so far

ringVars == <<req, req_cons, req_prod, data>>

Idx == 0 .. IdxSpace - 1
Mask(i) == i % RingSize
Sub(a, b) == (a + IdxSpace - b) % IdxSpace       \* unsigned a - b
Least(a, b) == IF a < b THEN a ELSE b

RingCheckIndexes(cons, prod) == Sub(prod, cons) <= RingSize

\* Mutant: room is counted up to the end of the ring, full or not.
RingOutputChunk_MutIgnoresFull(cons, prod) == RingSize - Mask(prod)

RingOutputChunk(cons, prod) ==
    Least(RingSize - Mask(prod), RingSize - Sub(prod, cons))

RingInputChunk(cons, prod) == Least(RingSize - Mask(cons), Sub(prod, cons))

RingDataToRead == req_cons # req_prod

(* The n bytes of the ring from index i on. *)
BytesAt(i, n) == [k \in 1 .. n |-> req[Mask(i + k - 1)]]

RingInit ==
    /\ req_cons = 0 /\ req_prod = 0 /\ data = <<>>
    /\ req = [i \in 0 .. RingSize - 1 |-> NoByte]

(* Mapping the page and ring_init: the indexes restart.  Here and in a     *)
(* read, bytes that are given up become NoByte: were one read again, it    *)
(* would not be taken for a command.                                       *)
RingReset ==
    /\ req_cons' = 0 /\ req_prod' = 0 /\ data' = <<>>
    /\ req' = [i \in DOMAIN req |-> NoByte]

(* ring_write of one command, in the front end's hands: the index moves    *)
(* only after the bytes are in place.                                      *)
RingWrite(bytes) ==
    /\ RingCheckIndexes(req_cons, req_prod)
    /\ RingOutputChunk(req_cons, req_prod) >= Len(bytes)
    /\ req' = [i \in DOMAIN req |->
         IF Sub(i, Mask(req_prod)) < Len(bytes) THEN bytes[Sub(i, Mask(req_prod)) + 1]
         ELSE req[i]]
    /\ req_prod' = (req_prod + Len(bytes)) % IdxSpace
    /\ UNCHANGED <<req_cons, data>>

(* One round of the loop of ring_read: copy a chunk and advance.           *)
RingReadChunk ==
    LET room == CmdLen - Len(data)
        avail == Least(RingInputChunk(req_cons, req_prod), room) IN
    /\ RingDataToRead /\ RingCheckIndexes(req_cons, req_prod) /\ room > 0
    /\ data' = data \o BytesAt(req_cons, avail)
    /\ req_cons' = (req_cons + avail) % IdxSpace
    /\ req' = [i \in DOMAIN req |-> IF Sub(i, Mask(req_cons)) < avail THEN NoByte ELSE req[i]]
    /\ UNCHANGED req_prod

(* ring_read returns 0: nothing to read.  A command read in part is        *)
(* dropped with the caller's buffer.                                       *)
RingReadEmpty ==
    /\ ~RingDataToRead /\ Len(data) < CmdLen
    /\ data' = <<>>
    /\ UNCHANGED <<req, req_cons, req_prod>>

(* ring_read returns -1: the indexes are impossible, and both restart.     *)
RingReadBroken ==
    /\ RingDataToRead /\ ~RingCheckIndexes(req_cons, req_prod)
    /\ RingReset

(* ring_read returns the whole command. *)
RingReadDone ==
    /\ Len(data) = CmdLen /\ data' = <<>>
    /\ UNCHANGED <<req, req_cons, req_prod>>

(* Everything written and not yet handed to the caller, oldest first. *)
RingContents == data \o BytesAt(req_cons, Sub(req_prod, req_cons))
=============================================================================
