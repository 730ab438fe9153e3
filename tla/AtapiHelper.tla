---------------------------- MODULE AtapiHelper ----------------------------
(***************************************************************************)
(* atapi_pt_helper: one dom0 process per stub domain serves that domain's  *)
(* ATAPI commands over an argo datagram socket and arbitrates each host    *)
(* drive between domains with a POSIX record lock on a per-drive lock file.*)
(*                                                                         *)
(* The kernel's lock table and the stub domain (qemu) are external.  A     *)
(* response carries no request number, so the stub domain asks one thing   *)
(* at a time; only RELEASE_LOCK, which is never answered, may be followed  *)
(* by another request at once.                                             *)
(***************************************************************************)
EXTENDS Naturals, Sequences

CONSTANTS
    Helpers,      \* helper processes, one per stub domain
    Devices,      \* host drives, named by their canonical /dev/bsg/a:b:c:d
    MaxDevices,   \* MAX_ATAPI_PT_DEVICES
    Requests,     \* the requests the stub domains send
    MaxInbox      \* bound: datagrams waiting in one helper's ring

ASSUME MaxDevicesAssumption == MaxDevices \in Nat \ {0}

VARIABLES
    status,   \* of each process: "running", "exiting" (in exit_cleanup), "gone"
    slots,    \* the used entries of g_hs.devices, in slot order
    closed,   \* how many slots exit_cleanup has closed
    flock,    \* per drive, the processes that hold the lock on its lock file
    inbox,    \* requests not yet received
    reply,    \* the response the stub domain has not yet read
    granted   \* drives the stub domain was told it holds and has not released

vars == <<status, slots, closed, flock, inbox, reply, granted>>

LockStates == {"unlocked", "by_me", "by_other"}
Ids == 0 .. MaxDevices - 1

(* A path string: one canonical spelling per drive, other spellings that   *)
(* sscanf accepts ("01:0:0:0"), and strings that it does not.              *)
Paths == [dev : Devices, canonical : BOOLEAN]
NotAPath == [dev |-> "none", canonical |-> FALSE]

(* "ok" is FALSE for a datagram of the wrong length, or an SG_IO whose     *)
(* lengths fail one of the validations.                                    *)
Request ==
    [cmd : {"open"}, path : Paths \cup {NotAPath}, ok : BOOLEAN]
      \cup [cmd : {"acquire", "release", "size", "sg_io"}, id : Ids, ok : BOOLEAN]
      \cup [cmd : {"bad"}]

ASSUME RequestsAssumption == Requests \subseteq Request

Response == [cmd : {"none"}] \cup [cmd : {"open", "size", "sg_io"}, id : Ids]
              \cup [cmd : {"acquire"}, id : Ids, lock_state : LockStates]
NoReply == [cmd |-> "none"]

Slot == [dev : Devices, lock_state : LockStates]

TypeOK ==
    /\ status \in [Helpers -> {"running", "exiting", "gone"}]
    /\ slots \in [Helpers -> Seq(Slot)]
    /\ \A h \in Helpers : Len(slots[h]) <= MaxDevices
    /\ closed \in [Helpers -> Nat]
    /\ flock \in [Devices -> SUBSET Helpers]
    /\ inbox \in [Helpers -> Seq(Request)]
    /\ reply \in [Helpers -> Response]
    /\ granted \in [Helpers -> SUBSET Devices]

Init ==
    /\ status = [h \in Helpers |-> "running"]
    /\ slots = [h \in Helpers |-> <<>>]
    /\ closed = [h \in Helpers |-> 0]
    /\ flock = [d \in Devices |-> {}]
    /\ inbox = [h \in Helpers |-> <<>>]
    /\ reply = [h \in Helpers |-> NoReply]
    /\ granted = [h \in Helpers |-> {}]

-----------------------------------------------------------------------------
(* The stub domain. *)

Waiting(h) == \E i \in DOMAIN inbox[h] : inbox[h][i].cmd # "release"

(* Asking to release ends the stub domain's claim, whatever the answer. *)
SendRequest(h, r) ==
    /\ status[h] = "running"
    /\ ~Waiting(h) /\ reply[h] = NoReply /\ Len(inbox[h]) < MaxInbox
    /\ inbox' = [inbox EXCEPT ![h] = Append(@, r)]
    /\ granted' = [granted EXCEPT ![h] =
         IF r.cmd = "release" /\ r.id < Len(slots[h])
         THEN @ \ {slots[h][r.id + 1].dev} ELSE @]
    /\ UNCHANGED <<status, slots, closed, flock, reply>>

(* Slot ids are never reassigned, so the id names the drive to both sides. *)
ReadReply(h) ==
    /\ reply[h] # NoReply
    /\ granted' = [granted EXCEPT ![h] =
         IF reply[h].cmd = "acquire" /\ reply[h].lock_state = "by_me"
         THEN @ \cup {slots[h][reply[h].id + 1].dev} ELSE @]
    /\ reply' = [reply EXCEPT ![h] = NoReply]
    /\ UNCHANGED <<status, slots, closed, flock, inbox>>

-----------------------------------------------------------------------------
(* The helper's main loop. *)

(* argo_recvfrom hands over the next datagram and the switch dispatches it. *)
Receive(h, cmd) ==
    /\ status[h] = "running" /\ inbox[h] # <<>> /\ Head(inbox[h]).cmd = cmd
    /\ UNCHANGED <<closed, granted>>

(* A handler that returns 0 lets the loop go on to the next datagram. *)
Done(h) == inbox' = [inbox EXCEPT ![h] = Tail(@)] /\ status' = status

(* One that returns -1 makes it break into exit_cleanup; what is still in  *)
(* the ring is never read.                                                 *)
Fail(h) ==
    /\ status' = [status EXCEPT ![h] = "exiting"]
    /\ inbox' = [inbox EXCEPT ![h] = <<>>]
    /\ reply' = reply

(* pt_argo_send_message: a short send is an error of the handler. *)
Send(h, r) ==
    \/ reply' = [reply EXCEPT ![h] = r] /\ Done(h)
    \/ Fail(h)

(* device_id_to_device_state, with the length check made before it. *)
ValidSlot(h, r) == r.ok /\ r.id < Len(slots[h])

\* Mutant: the path that was parsed is not compared with the one asked for.
PathAccepted_MutAlias(p) == p # NotAPath

(* The path is compared with the open slots first; a new one must parse,   *)
(* print back as itself, find a slot and open both files.                  *)
PathAccepted(p) == p # NotAPath /\ p.canonical

SlotOf(h, p) == {i \in DOMAIN slots[h] : p.canonical /\ slots[h][i].dev = p.dev}

InitDeviceState(h, p) ==
    /\ PathAccepted(p) /\ Len(slots[h]) < MaxDevices
    /\ slots' = [slots EXCEPT ![h] = Append(@, [dev |-> p.dev, lock_state |-> "unlocked"])]

Open(h) ==
    /\ Receive(h, "open") /\ UNCHANGED flock
    /\ LET r == Head(inbox[h]) IN
         \/ \E i \in SlotOf(h, r.path) :
              r.ok /\ Send(h, [cmd |-> "open", id |-> i - 1]) /\ UNCHANGED slots
         \/ /\ r.ok /\ SlotOf(h, r.path) = {}
            /\ InitDeviceState(h, r.path)
            /\ Send(h, [cmd |-> "open", id |-> Len(slots[h])])
         \/ ~r.ok /\ Fail(h) /\ UNCHANGED slots
         \/ SlotOf(h, r.path) = {} /\ Fail(h) /\ UNCHANGED slots   \* or open() failed

\* Mutant: a shared lock, F_RDLCK.
CanWriteLock_MutShared(h, d) == flock[d] \subseteq Helpers

(* fcntl(F_SETLK, F_WRLCK) fails while another process holds the lock. *)
CanWriteLock(h, d) == flock[d] \subseteq {h}

SetLockState(h, i, lock_state) == slots' = [slots EXCEPT ![h][i].lock_state = lock_state]

AcquireGlobalLock(h, i) ==
    LET s == slots[h][i]
        mine == s.lock_state = "by_me" \/ CanWriteLock(h, s.dev) IN
    /\ SetLockState(h, i, IF mine THEN "by_me" ELSE "by_other")
    /\ flock' = IF mine /\ s.lock_state # "by_me"
                THEN [flock EXCEPT ![s.dev] = @ \cup {h}] ELSE flock

AcquireLock(h) ==
    /\ Receive(h, "acquire")
    /\ LET r == Head(inbox[h]) IN
         IF ValidSlot(h, r)
         THEN /\ AcquireGlobalLock(h, r.id + 1)
              /\ Send(h, [cmd |-> "acquire", id |-> r.id,
                          lock_state |-> slots'[h][r.id + 1].lock_state])
         ELSE Fail(h) /\ UNCHANGED <<slots, flock>>

\* Mutant: the slot is not checked to be the one that holds the lock.
ReleaseGlobalLock_MutAllSlots(h, i) ==
    /\ flock' = [d \in Devices |-> flock[d] \ {h}]
    /\ SetLockState(h, i, "unlocked")

ReleaseGlobalLock(h, i) ==
    LET s == slots[h][i] IN
    IF s.lock_state # "by_me" THEN UNCHANGED <<slots, flock>>
    ELSE /\ flock' = [flock EXCEPT ![s.dev] = @ \ {h}]
         /\ SetLockState(h, i, "unlocked")

ReleaseLock(h) ==
    /\ Receive(h, "release")
    /\ LET r == Head(inbox[h]) IN
         IF ValidSlot(h, r)
         THEN ReleaseGlobalLock(h, r.id + 1) /\ Done(h) /\ UNCHANGED reply
         ELSE Fail(h) /\ UNCHANGED <<slots, flock>>

(* Both pass a command to the drive, whoever holds its lock. *)
DriveCommand(h, cmd) ==
    /\ Receive(h, cmd) /\ UNCHANGED <<slots, flock>>
    /\ LET r == Head(inbox[h]) IN
         \/ ValidSlot(h, r) /\ Send(h, [cmd |-> cmd, id |-> r.id])
         \/ Fail(h)                                         \* or the ioctl failed

SgGetReservedSize(h) == DriveCommand(h, "size")
SgIo(h) == DriveCommand(h, "sg_io")

BadCommand(h) == Receive(h, "bad") /\ Fail(h) /\ UNCHANGED <<slots, flock>>

-----------------------------------------------------------------------------
(* Leaving. *)

(* SIGINT, or argo_recvfrom failing. *)
Interrupt(h) ==
    /\ status[h] = "running" /\ Fail(h)
    /\ UNCHANGED <<slots, closed, flock, granted>>

(* exit_cleanup closes slot by slot; closing a lock file drops the lock. *)
CloseSlot(h) ==
    /\ status[h] = "exiting" /\ closed[h] < Len(slots[h])
    /\ closed' = [closed EXCEPT ![h] = @ + 1]
    /\ flock' = [flock EXCEPT ![slots[h][closed[h] + 1].dev] = @ \ {h}]
    /\ UNCHANGED <<status, slots, inbox, reply, granted>>

Exit(h) ==
    /\ status[h] = "exiting" /\ closed[h] = Len(slots[h])
    /\ status' = [status EXCEPT ![h] = "gone"]
    /\ UNCHANGED <<slots, closed, flock, inbox, reply, granted>>

(* The process dies in any other way: the kernel closes its files. *)
Killed(h) ==
    /\ status[h] # "gone" /\ status' = [status EXCEPT ![h] = "gone"]
    /\ flock' = [d \in Devices |-> flock[d] \ {h}]
    /\ inbox' = [inbox EXCEPT ![h] = <<>>]
    /\ UNCHANGED <<slots, closed, reply, granted>>

(* main() of a helper started for the next stub domain. *)
Start(h) ==
    /\ status[h] = "gone" /\ status' = [status EXCEPT ![h] = "running"]
    /\ slots' = [slots EXCEPT ![h] = <<>>]
    /\ closed' = [closed EXCEPT ![h] = 0]
    /\ inbox' = [inbox EXCEPT ![h] = <<>>]
    /\ reply' = [reply EXCEPT ![h] = NoReply]
    /\ granted' = [granted EXCEPT ![h] = {}]
    /\ UNCHANGED flock

Next == \E h \in Helpers :
    \/ \E r \in Requests : SendRequest(h, r)
    \/ ReadReply(h)
    \/ Open(h) \/ AcquireLock(h) \/ ReleaseLock(h)
    \/ SgGetReservedSize(h) \/ SgIo(h) \/ BadCommand(h)
    \/ Interrupt(h) \/ CloseSlot(h) \/ Exit(h) \/ Killed(h) \/ Start(h)

Spec == Init /\ [][Next]_vars

-----------------------------------------------------------------------------
(* Two stub domains both believe they hold one drive only if the helper    *)
(* behind one of the two claims is no longer running: no interleaving of   *)
(* acquisitions, releases, deaths and restarts double-grants a drive.      *)
GrantsExclusive == \A g, h \in Helpers : \A d \in Devices :
    g # h /\ d \in granted[g] \cap granted[h] => status[g] # "running" \/ status[h] # "running"

-----------------------------------------------------------------------------
(* Why: what holds of each helper between any two steps.                   *)

Running(h) == status[h] = "running"
Dev(h, i) == slots[h][i].dev

(* No drive is open in two slots of a process: a POSIX lock belongs to the *)
(* process, so releasing through one slot would drop the other's.          *)
SlotsDistinct(h) == \A i, j \in DOMAIN slots[h] : Dev(h, i) = Dev(h, j) => i = j

(* lock_state says "locked by me" exactly for the drives whose lock file   *)
(* the process holds: the early returns of acquire_global_lock and         *)
(* release_global_lock trust it.                                           *)
LockStateSound(h) == Running(h) =>
    \A i \in DOMAIN slots[h] : slots[h][i].lock_state = "by_me" <=> h \in flock[Dev(h, i)]

(* A lock is held through a slot that is still open, so a process that has *)
(* closed them all, and one that is gone, holds none.                      *)
LocksHaveSlots(h) ==
    /\ Running(h) => closed[h] = 0
    /\ \A d \in Devices : h \in flock[d] =>
         status[h] # "gone" /\ \E i \in DOMAIN slots[h] : i > closed[h] /\ Dev(h, i) = d

(* A grant the stub domain holds is backed by the lock while its helper    *)
(* runs: nothing but its own release or the helper's end takes it away.    *)
GrantBacked(h) == Running(h) => \A d \in granted[h] : h \in flock[d]

(* One request at a time: only releases precede the request that waits for *)
(* a reply, and none of them is of a drive that is granted.                *)
OneAtATime(h) == Running(h) =>
    /\ reply[h] # NoReply => inbox[h] = <<>>
    /\ \A i \in DOMAIN inbox[h] : i < Len(inbox[h]) => inbox[h][i].cmd = "release"
    /\ \A i \in DOMAIN inbox[h] : inbox[h][i].cmd = "release" /\ inbox[h][i].id < Len(slots[h])
          => Dev(h, inbox[h][i].id + 1) \notin granted[h]

(* A positive reply under way is still true.                               *)
ReplyTrue(h) == reply[h].cmd = "acquire" =>
    /\ reply[h].id < Len(slots[h])
    /\ Running(h) /\ reply[h].lock_state = "by_me" => h \in flock[Dev(h, reply[h].id + 1)]

HelperSound(h) ==
    SlotsDistinct(h) /\ LockStateSound(h) /\ LocksHaveSlots(h) /\ GrantBacked(h)
      /\ OneAtATime(h) /\ ReplyTrue(h)

(* The kernel's table has one holder per lock file at most.                *)
OneHolder == \A d \in Devices : \A g, h \in flock[d] : g = h

(* The inductive invariant.                                                *)
HelperInv == TypeOK /\ OneHolder /\ \A h \in Helpers : HelperSound(h)
=============================================================================
