------------------------- MODULE AtapiHelperProofs -------------------------
(***************************************************************************)
(* Proof that no drive is granted to two stub domains whose helpers run,   *)
(* for any number of helpers, drives and slots and any requests.           *)
(***************************************************************************)
EXTENDS AtapiHelper, TLAPS

(* What a step of h leaves alone: the other processes, and their locks.    *)
Only(h) == \A g \in Helpers \ {h} :
    /\ status'[g] = status[g] /\ slots'[g] = slots[g] /\ closed'[g] = closed[g]
    /\ inbox'[g] = inbox[g] /\ reply'[g] = reply[g] /\ granted'[g] = granted[g]
    /\ \A d \in Devices : g \in flock'[d] <=> g \in flock[d]

(* Every open slot is of a drive, and has an id.                           *)
LEMMA SlotType ==
    ASSUME TypeOK, NEW h \in Helpers, NEW i \in DOMAIN slots[h]
    PROVE  /\ i \in Nat /\ i >= 1 /\ i <= Len(slots[h]) /\ i - 1 \in Ids
           /\ slots[h][i] \in Slot /\ Dev(h, i) \in Devices
<1>1. slots[h] \in Seq(Slot) /\ Len(slots[h]) <= MaxDevices
  BY DEF TypeOK
<1>2. i \in 1 .. Len(slots[h]) /\ slots[h][i] \in Slot
  BY <1>1
<1> QED BY <1>1, <1>2, MaxDevicesAssumption DEF Slot, Dev, Ids

(* A helper that a step does not touch stays sound.                        *)
LEMMA OthersKeep ==
    ASSUME TypeOK, NEW h \in Helpers, Only(h), NEW g \in Helpers, g # h, HelperSound(g)
    PROVE  HelperSound(g)'
<1>1. /\ status'[g] = status[g] /\ slots'[g] = slots[g] /\ closed'[g] = closed[g]
      /\ inbox'[g] = inbox[g] /\ reply'[g] = reply[g] /\ granted'[g] = granted[g]
      /\ \A d \in Devices : g \in flock'[d] <=> g \in flock[d]
  BY DEF Only
<1>2. \A i \in DOMAIN slots[g] : Dev(g, i) \in Devices /\ Dev(g, i)' = Dev(g, i)
  BY <1>1, SlotType DEF Dev
<1>3. SlotsDistinct(g)'
  BY <1>1, <1>2 DEF HelperSound, SlotsDistinct
<1>4. LockStateSound(g)'
  BY <1>1, <1>2 DEF HelperSound, LockStateSound, Running
<1>5. LocksHaveSlots(g)'
  BY <1>1, <1>2 DEF HelperSound, LocksHaveSlots, Running
<1>6. GrantBacked(g)'
  BY <1>1 DEF HelperSound, GrantBacked, Running, TypeOK
<1>7. OneAtATime(g)'
  BY <1>1 DEF HelperSound, OneAtATime, Running, Dev
<1>8. ReplyTrue(g)'
  <2>1. CASE reply[g].cmd = "acquire"
    <3>1. reply[g].id \in Nat /\ reply[g].id < Len(slots[g]) /\ Len(slots[g]) \in Nat
      BY <2>1 DEF HelperSound, ReplyTrue, TypeOK, Response, Ids
    <3>2. reply[g].id + 1 \in DOMAIN slots[g]
      BY <3>1 DEF TypeOK
    <3> QED BY <1>1, <1>2, <2>1, <3>1, <3>2 DEF HelperSound, ReplyTrue, Running
  <2>2. CASE reply[g].cmd # "acquire"
    BY <1>1, <2>2 DEF ReplyTrue
  <2> QED BY <2>1, <2>2
<1> QED BY <1>3, <1>4, <1>5, <1>6, <1>7, <1>8 DEF HelperSound

(* So a step of h has only h to answer for.                                *)
LEMMA OneHelper ==
    ASSUME HelperInv, NEW h \in Helpers, Only(h), TypeOK', OneHolder', HelperSound(h)'
    PROVE  HelperInv'
<1>1. \A g \in Helpers : HelperSound(g)'
  BY OthersKeep DEF HelperInv
<1> QED BY <1>1 DEF HelperInv

(* A helper on its way out has only its slots and locks to answer for.     *)
LEMMA LeavingSound ==
    ASSUME NEW h \in Helpers, status'[h] # "running",
           SlotsDistinct(h)', LocksHaveSlots(h)',
           reply'[h].cmd = "acquire" => reply'[h].id < Len(slots'[h])
    PROVE  HelperSound(h)'
BY DEF HelperSound, LockStateSound, GrantBacked, OneAtATime, ReplyTrue, Running

-----------------------------------------------------------------------------
(* The two ways slots change.                                              *)

LEMMA LockStateSet ==
    ASSUME TypeOK, NEW h \in Helpers, NEW i \in DOMAIN slots[h], NEW ls \in LockStates,
           SetLockState(h, i, ls)
    PROVE  /\ slots' \in [Helpers -> Seq(Slot)]
           /\ \A g \in Helpers : Len(slots'[g]) = Len(slots[g]) /\ DOMAIN slots'[g] = DOMAIN slots[g]
           /\ \A g \in Helpers \ {h} : slots'[g] = slots[g]
           /\ \A j \in DOMAIN slots[h] : Dev(h, j)' = Dev(h, j)
           /\ \A j \in DOMAIN slots[h] : slots'[h][j].lock_state = IF j = i THEN ls ELSE slots[h][j].lock_state
<1> DEFINE set == [slots[h][i] EXCEPT !.lock_state = ls]
           new == [slots[h] EXCEPT ![i] = set]
<1>1. slots \in [Helpers -> Seq(Slot)] /\ slots[h] \in Seq(Slot) /\ i \in 1 .. Len(slots[h])
  BY DEF TypeOK
<1>2. slots' = [slots EXCEPT ![h] = new]
  BY <1>1 DEF SetLockState
<1>3. slots[h][i] \in Slot
  BY <1>1
<1>4. set \in Slot /\ set.dev = slots[h][i].dev /\ set.lock_state = ls
  BY <1>3 DEF Slot
<1> HIDE DEF set
<1>5. new \in Seq(Slot) /\ Len(new) = Len(slots[h]) /\ DOMAIN new = DOMAIN slots[h]
  BY <1>1, <1>4
<1>6. new[i] = set /\ \A j \in DOMAIN slots[h] \ {i} : new[j] = slots[h][j]
  BY <1>1
<1> HIDE DEF new
<1>7. slots'[h] = new /\ \A g \in Helpers \ {h} : slots'[g] = slots[g]
  BY <1>1, <1>2
<1>8. slots' \in [Helpers -> Seq(Slot)]
  BY <1>1, <1>2, <1>5
<1>9. \A g \in Helpers : Len(slots'[g]) = Len(slots[g]) /\ DOMAIN slots'[g] = DOMAIN slots[g]
  BY <1>5, <1>7
<1>10. \A j \in DOMAIN slots[h] : Dev(h, j)' = Dev(h, j)
  BY <1>4, <1>6, <1>7 DEF Dev
<1>11. \A j \in DOMAIN slots[h] : slots'[h][j].lock_state = IF j = i THEN ls ELSE slots[h][j].lock_state
  BY <1>4, <1>6, <1>7
<1> QED BY <1>7, <1>8, <1>9, <1>10, <1>11

LEMMA NewSlot ==
    ASSUME TypeOK, NEW h \in Helpers, NEW p \in Paths, InitDeviceState(h, p)
    PROVE  /\ slots' \in [Helpers -> Seq(Slot)]
           /\ Len(slots'[h]) = Len(slots[h]) + 1 /\ Len(slots'[h]) <= MaxDevices
           /\ DOMAIN slots[h] = 1 .. Len(slots[h]) /\ DOMAIN slots'[h] = 1 .. Len(slots[h]) + 1
           /\ Len(slots[h]) \in Nat
           /\ \A g \in Helpers \ {h} : slots'[g] = slots[g]
           /\ \A j \in DOMAIN slots[h] : slots'[h][j] = slots[h][j] /\ Dev(h, j)' = Dev(h, j)
           /\ slots'[h][Len(slots[h]) + 1].lock_state = "unlocked"
           /\ slots'[h][Len(slots[h]) + 1].dev = p.dev
<1> DEFINE s == [dev |-> p.dev, lock_state |-> "unlocked"]
<1>1. slots \in [Helpers -> Seq(Slot)] /\ slots[h] \in Seq(Slot)
  BY DEF TypeOK
<1>2. slots' = [slots EXCEPT ![h] = Append(slots[h], s)] /\ Len(slots[h]) < MaxDevices
  BY DEF InitDeviceState
<1>3. s \in Slot /\ s.dev = p.dev /\ s.lock_state = "unlocked"
  BY DEF Slot, Paths, LockStates
<1> HIDE DEF s
<1>4. /\ Append(slots[h], s) \in Seq(Slot) /\ Len(Append(slots[h], s)) = Len(slots[h]) + 1
      /\ DOMAIN Append(slots[h], s) = 1 .. Len(slots[h]) + 1
      /\ \A j \in 1 .. Len(slots[h]) : Append(slots[h], s)[j] = slots[h][j]
      /\ Append(slots[h], s)[Len(slots[h]) + 1] = s
  BY <1>1, <1>3
<1>5. slots'[h] = Append(slots[h], s) /\ \A g \in Helpers \ {h} : slots'[g] = slots[g]
  BY <1>1, <1>2
<1>6. slots' \in [Helpers -> Seq(Slot)]
  BY <1>1, <1>2, <1>4
<1>7. Len(slots[h]) \in Nat /\ DOMAIN slots[h] = 1 .. Len(slots[h])
  BY <1>1
<1>8. Len(slots'[h]) <= MaxDevices
  BY <1>2, <1>4, <1>5, <1>7, MaxDevicesAssumption
<1> QED BY <1>3, <1>4, <1>5, <1>6, <1>7, <1>8 DEF Dev

(* The ring: what is received was sent, and what is left stays in order.   *)
LEMMA InboxTail ==
    ASSUME TypeOK, NEW h \in Helpers, inbox[h] # <<>>, Done(h)
    PROVE  /\ inbox' \in [Helpers -> Seq(Request)]
           /\ Head(inbox[h]) = inbox[h][1] /\ Head(inbox[h]) \in Request /\ 1 \in DOMAIN inbox[h]
           /\ \A g \in Helpers \ {h} : inbox'[g] = inbox[g]
           /\ Len(inbox'[h]) = Len(inbox[h]) - 1 /\ Len(inbox[h]) \in Nat /\ Len(inbox[h]) > 0
           /\ DOMAIN inbox'[h] = 1 .. Len(inbox[h]) - 1
           /\ \A i \in DOMAIN inbox'[h] : i + 1 \in DOMAIN inbox[h] /\ inbox'[h][i] = inbox[h][i + 1]
<1>1. inbox \in [Helpers -> Seq(Request)] /\ inbox[h] \in Seq(Request)
  BY DEF TypeOK
<1>2. inbox' = [inbox EXCEPT ![h] = Tail(inbox[h])]
  BY DEF Done
<1>3. /\ Tail(inbox[h]) \in Seq(Request) /\ Len(Tail(inbox[h])) = Len(inbox[h]) - 1
      /\ Len(inbox[h]) \in Nat /\ Len(inbox[h]) > 0
      /\ \A i \in 1 .. Len(inbox[h]) - 1 : Tail(inbox[h])[i] = inbox[h][i + 1]
      /\ Head(inbox[h]) = inbox[h][1] /\ Head(inbox[h]) \in Request
  BY <1>1
<1>4. inbox'[h] = Tail(inbox[h]) /\ \A g \in Helpers \ {h} : inbox'[g] = inbox[g]
  BY <1>1, <1>2
<1>5. DOMAIN inbox[h] = 1 .. Len(inbox[h]) /\ DOMAIN Tail(inbox[h]) = 1 .. Len(inbox[h]) - 1
  BY <1>1, <1>3
<1>6. inbox' \in [Helpers -> Seq(Request)]
  BY <1>1, <1>2, <1>3
<1> QED BY <1>3, <1>4, <1>5, <1>6

-----------------------------------------------------------------------------
(* Steps that end in exit_cleanup, and the process's end.                  *)

(* What a reply names stays named as long as no slot is taken away.        *)
LEMMA ReplyNames ==
    ASSUME HelperInv, NEW h \in Helpers, Fail(h), Len(slots'[h]) >= Len(slots[h])
    PROVE  reply'[h].cmd = "acquire" => reply'[h].id < Len(slots'[h])
<1>1. reply' = reply /\ Len(slots[h]) \in Nat
  BY DEF Fail, HelperInv, TypeOK
<1>2. SUFFICES ASSUME reply[h].cmd = "acquire" PROVE reply[h].id < Len(slots'[h])
  BY <1>1
<1>3. reply[h].id \in Nat /\ reply[h].id < Len(slots[h])
  BY <1>2 DEF HelperInv, HelperSound, ReplyTrue, TypeOK, Response, Ids
<1> QED BY <1>1, <1>3

(* Leaving without a change of slots or locks.                             *)
LEMMA FailSound ==
    ASSUME HelperInv, NEW h \in Helpers, Fail(h), UNCHANGED <<slots, closed, flock, granted>>
    PROVE  HelperInv'
<1>1. TypeOK'
  BY DEF HelperInv, TypeOK, Fail
<1>2. Only(h) /\ OneHolder' /\ status'[h] = "exiting"
  BY DEF HelperInv, TypeOK, Only, OneHolder, Fail
<1>3. SlotsDistinct(h)' /\ LocksHaveSlots(h)'
  BY <1>2 DEF HelperInv, HelperSound, SlotsDistinct, LocksHaveSlots, Running, Dev
<1>4. Len(slots'[h]) >= Len(slots[h])
  BY DEF HelperInv, TypeOK
<1>5. HelperSound(h)'
  BY <1>2, <1>3, <1>4, ReplyNames, LeavingSound
<1> QED BY <1>1, <1>2, <1>5, OneHelper

LEMMA CloseSlotSound ==
    ASSUME HelperInv, NEW h \in Helpers, CloseSlot(h)
    PROVE  HelperInv'
<1> DEFINE n == closed[h] + 1
<1>1. TypeOK /\ closed[h] \in Nat /\ n \in DOMAIN slots[h] /\ Dev(h, n) \in Devices
  <2>1. TypeOK /\ closed[h] \in Nat /\ n \in DOMAIN slots[h]
    BY DEF HelperInv, TypeOK, CloseSlot
  <2> QED BY <2>1, SlotType
<1>2. /\ closed' = [closed EXCEPT ![h] = n] /\ flock' = [flock EXCEPT ![Dev(h, n)] = @ \ {h}]
      /\ status[h] = "exiting" /\ UNCHANGED <<status, slots, inbox, reply, granted>>
  BY DEF CloseSlot, Dev
<1>3. TypeOK'
  BY <1>1, <1>2 DEF TypeOK
<1>4. Only(h) /\ OneHolder'
  BY <1>1, <1>2 DEF HelperInv, TypeOK, Only, OneHolder
<1>5. SlotsDistinct(h)' /\ (reply'[h].cmd = "acquire" => reply'[h].id < Len(slots'[h]))
  BY <1>2 DEF HelperInv, HelperSound, SlotsDistinct, ReplyTrue, Dev
<1>6. LocksHaveSlots(h)'
  <2>1. SUFFICES ASSUME NEW d \in Devices, h \in flock'[d]
                 PROVE  \E i \in DOMAIN slots[h] : i > n /\ Dev(h, i) = d
    BY <1>1, <1>2 DEF LocksHaveSlots, Running, Dev, TypeOK
  <2>2. h \in flock[d] /\ d # Dev(h, n)
    BY <1>1, <1>2, <2>1 DEF TypeOK
  <2>3. PICK i \in DOMAIN slots[h] : i > closed[h] /\ Dev(h, i) = d
    BY <2>2 DEF HelperInv, HelperSound, LocksHaveSlots
  <2>4. i # n /\ i \in Nat
    BY <1>1, <2>2, <2>3, SlotType
  <2> QED BY <1>1, <2>3, <2>4
<1>7. HelperSound(h)'
  BY <1>2, <1>5, <1>6, LeavingSound
<1> QED BY <1>3, <1>4, <1>7, OneHelper

LEMMA ExitSound ==
    ASSUME HelperInv, NEW h \in Helpers, Exit(h)
    PROVE  HelperInv'
<1>1. /\ status' = [status EXCEPT ![h] = "gone"] /\ closed[h] = Len(slots[h])
      /\ UNCHANGED <<slots, closed, flock, inbox, reply, granted>>
  BY DEF Exit
<1>2. TypeOK' /\ Only(h) /\ OneHolder' /\ status'[h] = "gone"
  BY <1>1 DEF HelperInv, TypeOK, Only, OneHolder
<1>3. \A d \in Devices : h \notin flock[d]
  <2>1. \A i \in DOMAIN slots[h] : ~(i > closed[h])
    BY <1>1, SlotType DEF HelperInv, TypeOK
  <2> QED BY <2>1 DEF HelperInv, HelperSound, LocksHaveSlots
<1>4. SlotsDistinct(h)' /\ LocksHaveSlots(h)' /\ (reply'[h].cmd = "acquire" => reply'[h].id < Len(slots'[h]))
  BY <1>1, <1>2, <1>3 DEF HelperInv, HelperSound, SlotsDistinct, LocksHaveSlots, ReplyTrue, Running, Dev
<1> QED BY <1>2, <1>4, LeavingSound, OneHelper

LEMMA KilledSound ==
    ASSUME HelperInv, NEW h \in Helpers, Killed(h)
    PROVE  HelperInv'
<1>1. /\ status' = [status EXCEPT ![h] = "gone"] /\ flock' = [d \in Devices |-> flock[d] \ {h}]
      /\ inbox' = [inbox EXCEPT ![h] = <<>>] /\ UNCHANGED <<slots, closed, reply, granted>>
  BY DEF Killed
<1>2. TypeOK'
  BY <1>1 DEF HelperInv, TypeOK
<1>3. Only(h) /\ OneHolder' /\ status'[h] = "gone" /\ \A d \in Devices : h \notin flock'[d]
  BY <1>1 DEF HelperInv, TypeOK, Only, OneHolder
<1>4. SlotsDistinct(h)' /\ LocksHaveSlots(h)' /\ (reply'[h].cmd = "acquire" => reply'[h].id < Len(slots'[h]))
  BY <1>1, <1>3 DEF HelperInv, HelperSound, SlotsDistinct, LocksHaveSlots, ReplyTrue, Running, Dev
<1> QED BY <1>2, <1>3, <1>4, LeavingSound, OneHelper

LEMMA StartSound ==
    ASSUME HelperInv, NEW h \in Helpers, Start(h)
    PROVE  HelperInv'
<1>1. /\ status[h] = "gone" /\ status' = [status EXCEPT ![h] = "running"]
      /\ slots' = [slots EXCEPT ![h] = <<>>] /\ closed' = [closed EXCEPT ![h] = 0]
      /\ inbox' = [inbox EXCEPT ![h] = <<>>] /\ reply' = [reply EXCEPT ![h] = NoReply]
      /\ granted' = [granted EXCEPT ![h] = {}] /\ UNCHANGED flock
  BY DEF Start
<1>2. NoReply \in Response /\ NoReply.cmd = "none"
  BY DEF NoReply, Response
<1>3. TypeOK'
  BY <1>1, <1>2, MaxDevicesAssumption DEF HelperInv, TypeOK
<1>4. Only(h) /\ OneHolder'
  BY <1>1 DEF HelperInv, TypeOK, Only, OneHolder
<1>5. \A d \in Devices : h \notin flock[d]
  BY <1>1 DEF HelperInv, HelperSound, LocksHaveSlots
<1>6. /\ slots'[h] = <<>> /\ closed'[h] = 0 /\ inbox'[h] = <<>> /\ reply'[h] = NoReply
      /\ granted'[h] = {} /\ flock' = flock
  BY <1>1 DEF HelperInv, TypeOK
<1>7. HelperSound(h)'
  BY <1>2, <1>5, <1>6 DEF HelperSound, SlotsDistinct, LockStateSound, LocksHaveSlots,
                         GrantBacked, OneAtATime, ReplyTrue, Running
<1> QED BY <1>3, <1>4, <1>7, OneHelper

-----------------------------------------------------------------------------
(* The main loop.                                                          *)

(* A request is received while nothing is unanswered, and one that is      *)
(* answered is the last in the ring.                                       *)
LEMMA Received ==
    ASSUME HelperInv, NEW h \in Helpers, NEW cmd, Receive(h, cmd)
    PROVE  /\ Running(h) /\ closed[h] = 0 /\ reply[h] = NoReply /\ inbox[h] # <<>>
           /\ Head(inbox[h]) \in Request /\ Head(inbox[h]).cmd = cmd /\ Head(inbox[h]) = inbox[h][1]
           /\ 1 \in DOMAIN inbox[h] /\ UNCHANGED <<closed, granted>>
           /\ cmd # "release" => Len(inbox[h]) <= 1
<1>1. /\ Running(h) /\ inbox[h] # <<>> /\ Head(inbox[h]).cmd = cmd
      /\ UNCHANGED <<closed, granted>>
  BY DEF Receive, Running
<1>2. inbox[h] \in Seq(Request)
  BY DEF HelperInv, TypeOK
<1>3. /\ Head(inbox[h]) = inbox[h][1] /\ Head(inbox[h]) \in Request /\ 1 \in DOMAIN inbox[h]
      /\ Len(inbox[h]) \in Nat /\ Len(inbox[h]) >= 1
  BY <1>1, <1>2
<1>4. closed[h] = 0 /\ reply[h] = NoReply
  BY <1>1 DEF HelperInv, HelperSound, LocksHaveSlots, OneAtATime
<1>5. cmd # "release" => Len(inbox[h]) <= 1
  BY <1>1, <1>3 DEF HelperInv, HelperSound, OneAtATime
<1> QED BY <1>1, <1>3, <1>4, <1>5, Zenon

LEMMA Answered ==
    ASSUME HelperInv, NEW h \in Helpers, NEW cmd, Receive(h, cmd), cmd # "release", Done(h)
    PROVE  /\ inbox' \in [Helpers -> Seq(Request)] /\ inbox'[h] = <<>> /\ status' = status
           /\ \A g \in Helpers \ {h} : inbox'[g] = inbox[g]
           /\ OneAtATime(h)'
<1>1. TypeOK /\ inbox[h] # <<>> /\ Len(inbox[h]) <= 1
  BY Received DEF HelperInv
<1>2. inbox' \in [Helpers -> Seq(Request)] /\ Len(inbox'[h]) = 0 /\ \A g \in Helpers \ {h} : inbox'[g] = inbox[g]
  BY <1>1, InboxTail
<1>3. inbox'[h] = <<>>
  BY <1>2
<1>4. status' = status
  BY DEF Done
<1>5. OneAtATime(h)'
  BY <1>3 DEF OneAtATime
<1> QED BY <1>2, <1>3, <1>4, <1>5

(* A request of the four kinds that name a slot has an id.                 *)
LEMMA RequestHasId ==
    ASSUME NEW r \in Request, r.cmd \in {"acquire", "release", "size", "sg_io"}
    PROVE  r.id \in Ids /\ r.ok \in BOOLEAN
<1>1. r \in [cmd : {"acquire", "release", "size", "sg_io"}, id : Ids, ok : BOOLEAN]
  BY DEF Request
<1> QED BY <1>1

(* Interrupt, BadCommand, and every handler that fails early.              *)
LEMMA InterruptSound ==
    ASSUME HelperInv, NEW h \in Helpers, Interrupt(h) \/ BadCommand(h)
    PROVE  HelperInv'
BY FailSound DEF Interrupt, BadCommand, Receive

(* A command for the drive touches no slot and no lock.                    *)
LEMMA DriveCommandSound ==
    ASSUME HelperInv, NEW h \in Helpers, NEW cmd \in {"size", "sg_io"}, DriveCommand(h, cmd)
    PROVE  HelperInv'
<1> DEFINE r == Head(inbox[h])
           a == [cmd |-> cmd, id |-> r.id]
<1>1. Receive(h, cmd) /\ UNCHANGED <<slots, flock>> /\ (Fail(h) \/ (ValidSlot(h, r) /\ Send(h, a)))
  BY DEF DriveCommand
<1>2. UNCHANGED <<closed, granted>> /\ r \in Request /\ r.cmd = cmd /\ reply[h] = NoReply
  BY <1>1, Received
<1>3. CASE Fail(h)
  BY <1>1, <1>2, <1>3, FailSound
<1>4. CASE Done(h) /\ reply' = [reply EXCEPT ![h] = a]
  <2>1. a \in Response /\ a.cmd # "acquire"
    <3>1. r.id \in Ids
      BY <1>2, RequestHasId
    <3> QED BY <3>1 DEF Response
  <2>2. /\ inbox' \in [Helpers -> Seq(Request)] /\ status' = status /\ OneAtATime(h)'
        /\ \A g \in Helpers \ {h} : inbox'[g] = inbox[g]
    BY <1>1, <1>4, Answered
  <2> HIDE DEF a, r
  <2>3. TypeOK' /\ Only(h) /\ OneHolder'
    BY <1>1, <1>2, <1>4, <2>1, <2>2, Zenon DEF HelperInv, TypeOK, Only, OneHolder
  <2>4. reply'[h] = a
    BY <1>4 DEF HelperInv, TypeOK
  <2>5. HelperSound(h)'
    BY <1>1, <1>2, <2>1, <2>2, <2>4
       DEF HelperInv, HelperSound, SlotsDistinct, LockStateSound, LocksHaveSlots, GrantBacked,
           ReplyTrue, Running, Dev
  <2> QED BY <2>3, <2>5, OneHelper
<1> QED BY <1>1, <1>3, <1>4 DEF Send

(* The stub domain's own steps.                                            *)
LEMMA SendRequestSound ==
    ASSUME HelperInv, NEW h \in Helpers, NEW r \in Requests, SendRequest(h, r)
    PROVE  HelperInv'
<1> DEFINE n == Len(inbox[h])
<1>1. /\ Running(h) /\ ~Waiting(h) /\ reply[h] = NoReply /\ r \in Request
      /\ inbox' = [inbox EXCEPT ![h] = Append(inbox[h], r)]
      /\ UNCHANGED <<status, slots, closed, flock, reply>>
  BY RequestsAssumption DEF SendRequest, Running
<1>2. inbox[h] \in Seq(Request) /\ n \in Nat /\ TypeOK
  BY DEF HelperInv, TypeOK
<1>3. /\ inbox' \in [Helpers -> Seq(Request)]
      /\ \A g \in Helpers \ {h} : inbox'[g] = inbox[g]
      /\ inbox'[h] = Append(inbox[h], r)
  BY <1>1, <1>2 DEF TypeOK
<1>4. /\ Len(inbox'[h]) = n + 1 /\ inbox'[h][n + 1] = r /\ DOMAIN inbox'[h] = 1 .. n + 1
      /\ \A i \in 1 .. n : i \in DOMAIN inbox[h] /\ inbox'[h][i] = inbox[h][i]
  BY <1>1, <1>2, <1>3
<1>5. granted' \in [Helpers -> SUBSET Devices] /\ granted'[h] \subseteq granted[h]
      /\ \A g \in Helpers \ {h} : granted'[g] = granted[g]
  BY <1>2 DEF SendRequest, TypeOK
<1>6. r.cmd = "release" /\ r.id < Len(slots[h]) => Dev(h, r.id + 1) \notin granted'[h]
  BY <1>2 DEF SendRequest, TypeOK, Dev
<1>7. TypeOK' /\ Only(h) /\ OneHolder'
  BY <1>1, <1>3, <1>5 DEF HelperInv, TypeOK, Only, OneHolder
<1>8. \A i \in 1 .. n : inbox'[h][i].cmd = "release"
  BY <1>1, <1>4 DEF Waiting
<1>9. OneAtATime(h)'
  <2>1. \A i \in DOMAIN inbox'[h] : i < Len(inbox'[h]) => inbox'[h][i].cmd = "release"
    BY <1>2, <1>4, <1>8
  <2>2. ASSUME NEW i \in DOMAIN inbox'[h], inbox'[h][i].cmd = "release", inbox'[h][i].id < Len(slots[h])
        PROVE  Dev(h, inbox'[h][i].id + 1) \notin granted'[h]
    <3>1. CASE i = n + 1
      BY <1>4, <1>6, <2>2, <3>1
    <3>2. CASE i \in 1 .. n
      <4>1. inbox'[h][i] = inbox[h][i] /\ i \in DOMAIN inbox[h]
        BY <1>4, <3>2
      <4>2. Dev(h, inbox[h][i].id + 1) \notin granted[h]
        BY <1>1, <2>2, <4>1 DEF HelperInv, HelperSound, OneAtATime
      <4> QED BY <1>5, <4>1, <4>2
    <3> QED BY <1>2, <1>4, <3>1, <3>2
  <2> QED BY <1>1, <2>1, <2>2 DEF OneAtATime, Dev
<1>10. HelperSound(h)'
  BY <1>1, <1>5, <1>9 DEF HelperInv, HelperSound, SlotsDistinct, LockStateSound, LocksHaveSlots,
                        GrantBacked, ReplyTrue, Running, Dev
<1> QED BY <1>7, <1>10, OneHelper

LEMMA ReadReplySound ==
    ASSUME HelperInv, NEW h \in Helpers, ReadReply(h)
    PROVE  HelperInv'
<1> DEFINE won == reply[h].cmd = "acquire" /\ reply[h].lock_state = "by_me"
           d == Dev(h, reply[h].id + 1)
<1>1. /\ reply[h] # NoReply /\ reply' = [reply EXCEPT ![h] = NoReply]
      /\ granted' = [granted EXCEPT ![h] = IF won THEN granted[h] \cup {d} ELSE granted[h]]
      /\ UNCHANGED <<status, slots, closed, flock, inbox>>
  BY DEF ReadReply, Dev
<1>2. TypeOK /\ NoReply \in Response /\ NoReply.cmd # "acquire"
  BY DEF HelperInv, NoReply, Response
<1>3. won => d \in Devices /\ (Running(h) => h \in flock[d])
  <2>1. SUFFICES ASSUME won PROVE d \in Devices /\ (Running(h) => h \in flock[d])
    OBVIOUS
  <2>2. reply[h].id \in Nat /\ reply[h].id < Len(slots[h]) /\ (Running(h) => h \in flock[d])
    BY <2>1 DEF HelperInv, HelperSound, ReplyTrue, TypeOK, Response, Ids
  <2>3. reply[h].id + 1 \in DOMAIN slots[h]
    BY <1>2, <2>2 DEF TypeOK
  <2> QED BY <1>2, <2>2, <2>3, SlotType
<1>4. /\ granted' \in [Helpers -> SUBSET Devices]
      /\ granted'[h] = IF won THEN granted[h] \cup {d} ELSE granted[h]
      /\ \A g \in Helpers \ {h} : granted'[g] = granted[g]
  BY <1>1, <1>2, <1>3 DEF TypeOK
<1>5. TypeOK' /\ Only(h) /\ OneHolder' /\ reply'[h] = NoReply
  BY <1>1, <1>2, <1>4 DEF HelperInv, TypeOK, Only, OneHolder
<1>6. GrantBacked(h)'
  BY <1>1, <1>3, <1>4 DEF HelperInv, HelperSound, GrantBacked, Running
<1>7. OneAtATime(h)'
  BY <1>1, <1>5, SMTT(20) DEF HelperInv, HelperSound, OneAtATime, Running
<1>8. SlotsDistinct(h)' /\ LockStateSound(h)' /\ LocksHaveSlots(h)' /\ ReplyTrue(h)'
  BY <1>1, <1>2, <1>5 DEF HelperInv, HelperSound, SlotsDistinct, LockStateSound, LocksHaveSlots,
                        ReplyTrue, Running, Dev
<1> QED BY <1>5, <1>6, <1>7, <1>8, OneHelper DEF HelperSound

(* A new slot is of a drive that has none, so its lock is not held.        *)
LEMMA OpenSound ==
    ASSUME HelperInv, NEW h \in Helpers, Open(h)
    PROVE  HelperInv'
<1> DEFINE r == Head(inbox[h])
           n == Len(slots[h])
<1>1. Receive(h, "open") /\ UNCHANGED flock
  BY DEF Open
<1>2. /\ Running(h) /\ closed[h] = 0 /\ reply[h] = NoReply /\ r \in Request /\ r.cmd = "open"
      /\ UNCHANGED <<closed, granted>> /\ TypeOK
  BY <1>1, Received DEF HelperInv
<1>3. r.path \in Paths \cup {NotAPath}
  <2>1. r \in [cmd : {"open"}, path : Paths \cup {NotAPath}, ok : BOOLEAN]
    BY <1>2 DEF Request
  <2> QED BY <2>1
<1>4. \/ Fail(h) /\ UNCHANGED slots
      \/ \E i \in DOMAIN slots[h] : Send(h, [cmd |-> "open", id |-> i - 1]) /\ UNCHANGED slots
      \/ SlotOf(h, r.path) = {} /\ InitDeviceState(h, r.path) /\ Send(h, [cmd |-> "open", id |-> n])
  BY DEF Open, SlotOf
<1> HIDE DEF r
<1>5. CASE Fail(h) /\ UNCHANGED slots
  BY <1>1, <1>2, <1>5, FailSound
<1>6. ASSUME NEW a \in Response, a.cmd = "open", Done(h), reply' = [reply EXCEPT ![h] = a]
      PROVE  /\ inbox' \in [Helpers -> Seq(Request)] /\ status' = status /\ OneAtATime(h)'
             /\ \A g \in Helpers \ {h} : inbox'[g] = inbox[g] /\ reply'[g] = reply[g]
             /\ reply' \in [Helpers -> Response] /\ ReplyTrue(h)'
  <2>1. /\ inbox' \in [Helpers -> Seq(Request)] /\ status' = status /\ OneAtATime(h)'
        /\ \A g \in Helpers \ {h} : inbox'[g] = inbox[g]
    BY <1>1, <1>6, Answered
  <2>2. reply' \in [Helpers -> Response] /\ reply'[h] = a /\ \A g \in Helpers \ {h} : reply'[g] = reply[g]
    BY <1>2, <1>6 DEF TypeOK
  <2> QED BY <1>6, <2>1, <2>2 DEF ReplyTrue
<1>7. ASSUME NEW i \in DOMAIN slots[h], Done(h), UNCHANGED slots,
             reply' = [reply EXCEPT ![h] = [cmd |-> "open", id |-> i - 1]]
      PROVE  HelperInv'
  <2>1. [cmd |-> "open", id |-> i - 1] \in Response
    BY <1>2, SlotType DEF Response
  <2>2. /\ inbox' \in [Helpers -> Seq(Request)] /\ status' = status /\ OneAtATime(h)'
        /\ \A g \in Helpers \ {h} : inbox'[g] = inbox[g] /\ reply'[g] = reply[g]
        /\ reply' \in [Helpers -> Response] /\ ReplyTrue(h)'
    BY <1>6, <1>7, <2>1, Zenon
  <2>3. TypeOK' /\ Only(h) /\ OneHolder'
    BY <1>1, <1>2, <1>7, <2>2 DEF HelperInv, TypeOK, Only, OneHolder
  <2>4. HelperSound(h)'
    BY <1>1, <1>2, <1>7, <2>2, SMTT(20) DEF HelperInv, HelperSound, SlotsDistinct, LockStateSound,
                                 LocksHaveSlots, GrantBacked, Running, Dev
  <2> QED BY <2>3, <2>4, OneHelper
<1>8. ASSUME SlotOf(h, r.path) = {}, InitDeviceState(h, r.path), Send(h, [cmd |-> "open", id |-> n])
      PROVE  HelperInv'
  <2> DEFINE p == r.path
  <2>1. p \in Paths /\ p.canonical /\ \A i \in DOMAIN slots[h] : Dev(h, i) # p.dev
    BY <1>3, <1>8 DEF InitDeviceState, PathAccepted, SlotOf, Dev
  <2> HIDE DEF p
  <2>2. InitDeviceState(h, p) /\ n < MaxDevices
    BY <1>8 DEF p, InitDeviceState
  <2>3. /\ slots' \in [Helpers -> Seq(Slot)]
        /\ Len(slots'[h]) = n + 1 /\ Len(slots'[h]) <= MaxDevices
        /\ DOMAIN slots[h] = 1 .. n /\ DOMAIN slots'[h] = 1 .. n + 1 /\ n \in Nat
        /\ \A g \in Helpers \ {h} : slots'[g] = slots[g]
        /\ \A j \in DOMAIN slots[h] : slots'[h][j] = slots[h][j] /\ Dev(h, j)' = Dev(h, j)
        /\ slots'[h][n + 1].lock_state = "unlocked" /\ slots'[h][n + 1].dev = p.dev
    BY <1>2, <2>1, <2>2, NewSlot
  <2> HIDE DEF n
  <2>4. SlotsDistinct(h)'
    BY <2>1, <2>3 DEF HelperInv, HelperSound, SlotsDistinct, Dev
  <2>5. \A d \in Devices : h \in flock[d] => d # p.dev /\ \E i \in DOMAIN slots[h] : i > 0 /\ Dev(h, i) = d
    BY <1>2, <2>1 DEF HelperInv, HelperSound, LocksHaveSlots
  <2>6. \A d \in Devices : h \in flock[d] => \E i \in DOMAIN slots'[h] : i > 0 /\ Dev(h, i)' = d
    BY <2>3, <2>5
  <2>7. OneHolder'
    BY <1>1 DEF HelperInv, OneHolder
  <2>8. \A g \in Helpers : Len(slots'[g]) <= MaxDevices
    BY <1>2, <2>3, Zenon DEF TypeOK
  <2>9. CASE Fail(h)
    <3>1. TypeOK' /\ Only(h) /\ status'[h] = "exiting"
      BY <1>1, <1>2, <2>3, <2>8, <2>9 DEF TypeOK, Only, Fail
    <3>2. LocksHaveSlots(h)'
      BY <1>1, <1>2, <2>6, <3>1 DEF LocksHaveSlots, Running
    <3>3. HelperSound(h)'
      BY <2>3, <2>4, <2>9, <3>1, <3>2, ReplyNames, LeavingSound DEF n
    <3> QED BY <2>7, <3>1, <3>3, OneHelper
  <2>10. CASE Done(h) /\ reply' = [reply EXCEPT ![h] = [cmd |-> "open", id |-> n]]
    <3>1. [cmd |-> "open", id |-> n] \in Response
      BY <2>2, <2>3, MaxDevicesAssumption DEF Response, Ids
    <3>2. /\ inbox' \in [Helpers -> Seq(Request)] /\ status' = status /\ OneAtATime(h)'
          /\ \A g \in Helpers \ {h} : inbox'[g] = inbox[g] /\ reply'[g] = reply[g]
          /\ reply' \in [Helpers -> Response] /\ ReplyTrue(h)'
      BY <1>6, <2>10, <3>1, Zenon
    <3>3. TypeOK' /\ Only(h)
      BY <1>1, <1>2, <2>3, <2>8, <3>2 DEF TypeOK, Only
    <3>4. LocksHaveSlots(h)'
      BY <1>1, <1>2, <2>6, <3>2 DEF HelperInv, HelperSound, LocksHaveSlots, Running
    <3>5. LockStateSound(h)'
      <4>1. ASSUME NEW i \in DOMAIN slots'[h]
            PROVE  slots'[h][i].lock_state = "by_me" <=> h \in flock[slots'[h][i].dev]
        <5>1. CASE i = n + 1
          <6>1. p.dev \in Devices
            BY <2>1 DEF Paths
          <6> QED BY <2>3, <2>5, <5>1, <6>1
        <5>2. CASE i \in DOMAIN slots[h]
          BY <1>2, <2>3, <5>2 DEF HelperInv, HelperSound, LockStateSound, Dev
        <5> QED BY <2>3, <5>1, <5>2
      <4> QED BY <1>1, <4>1 DEF LockStateSound, Dev
    <3>6. GrantBacked(h)'
      BY <1>1, <1>2, <3>2 DEF HelperInv, HelperSound, GrantBacked, Running
    <3> QED BY <2>4, <2>7, <3>2, <3>3, <3>4, <3>5, <3>6, OneHelper DEF HelperSound
  <2> QED BY <1>8, <2>9, <2>10 DEF Send, n
<1>9. ASSUME NEW i \in DOMAIN slots[h], Send(h, [cmd |-> "open", id |-> i - 1]), UNCHANGED slots
      PROVE  HelperInv'
  BY <1>5, <1>7, <1>9 DEF Send
<1> QED BY <1>4, <1>5, <1>8, <1>9, Zenon

(* The lock is taken only when no other process holds it, and lock_state   *)
(* follows it, whether or not the answer can be sent.                      *)
LEMMA AcquireLockSound ==
    ASSUME HelperInv, NEW h \in Helpers, AcquireLock(h)
    PROVE  HelperInv'
<1> DEFINE r == Head(inbox[h])
<1>1. Receive(h, "acquire")
  BY DEF AcquireLock
<1>2. /\ Running(h) /\ closed[h] = 0 /\ reply[h] = NoReply /\ r \in Request /\ r.cmd = "acquire"
      /\ UNCHANGED <<closed, granted>> /\ TypeOK
  BY <1>1, Received DEF HelperInv
<1>3. r.id \in Ids
  BY <1>2, RequestHasId
<1>4. CASE ~ValidSlot(h, r)
  BY <1>2, <1>4, FailSound DEF AcquireLock
<1>5. CASE ValidSlot(h, r)
  <2>1. AcquireGlobalLock(h, r.id + 1)
        /\ Send(h, [cmd |-> "acquire", id |-> r.id, lock_state |-> slots'[h][r.id + 1].lock_state])
    BY <1>5 DEF AcquireLock
  <2>2. r.id \in Nat /\ r.id < Len(slots[h]) /\ r.id + 1 \in DOMAIN slots[h]
    BY <1>2, <1>3, <1>5 DEF ValidSlot, TypeOK, Ids
  <2>3. PICK i \in DOMAIN slots[h] : i = r.id + 1
    BY <2>2
  <2>4. Dev(h, i) \in Devices /\ i > 0
    BY <1>2, SlotType
  <2>5. PICK dev \in Devices : dev = Dev(h, i)
    BY <2>4
  <2> DEFINE held == slots[h][i].lock_state = "by_me"
  <2>6. PICK ls \in {"by_me", "by_other"} : ls = IF held \/ CanWriteLock(h, dev) THEN "by_me" ELSE "by_other"
    BY SMTT(20)
  <2>7. /\ SetLockState(h, i, ls)
        /\ flock' = IF ls = "by_me" /\ ~held THEN [flock EXCEPT ![dev] = flock[dev] \cup {h}] ELSE flock
        /\ Send(h, [cmd |-> "acquire", id |-> r.id, lock_state |-> slots'[h][i].lock_state])
    BY <2>1, <2>3, <2>5, <2>6, Zenon DEF AcquireGlobalLock, Dev
  <2>8. held <=> h \in flock[dev]
    BY <1>2, <2>5 DEF HelperInv, HelperSound, LockStateSound
  <2>9. ls = "by_me" => flock[dev] \subseteq {h}
    BY <2>6, <2>8 DEF CanWriteLock, HelperInv, OneHolder
  <2>10. PICK id \in Ids : id = r.id
    BY <1>3
  <2> HIDE DEF r
  <2>11. /\ slots' \in [Helpers -> Seq(Slot)]
         /\ \A g \in Helpers : Len(slots'[g]) = Len(slots[g]) /\ DOMAIN slots'[g] = DOMAIN slots[g]
         /\ \A g \in Helpers \ {h} : slots'[g] = slots[g]
         /\ \A j \in DOMAIN slots[h] : Dev(h, j)' = Dev(h, j)
         /\ \A j \in DOMAIN slots[h] : slots'[h][j].lock_state = IF j = i THEN ls ELSE slots[h][j].lock_state
    <3>1. ls \in LockStates
      BY SMTT(20) DEF LockStates
    <3> QED BY <1>2, <2>7, <3>1, LockStateSet
  <2>12. /\ flock' \in [Devices -> SUBSET Helpers]
         /\ \A d \in Devices : \A g \in Helpers \ {h} : g \in flock'[d] <=> g \in flock[d]
         /\ \A d \in Devices : h \in flock'[d] <=> h \in flock[d] \/ (d = dev /\ ls = "by_me")
    BY <1>2, <2>7, <2>8, Zenon DEF TypeOK
  <2>13. OneHolder'
    <3>1. ASSUME NEW d \in Devices, NEW g \in flock'[d], NEW k \in flock'[d] PROVE g = k
      <4>1. CASE d = dev /\ ls = "by_me"
        BY <2>7, <2>9, <3>1, <4>1 DEF HelperInv, TypeOK
      <4>2. CASE ~(d = dev /\ ls = "by_me")
        <5>1. flock'[d] = flock[d]
          BY <1>2, <2>7, <4>2, SMTT(20) DEF TypeOK
        <5> QED BY <3>1, <5>1 DEF HelperInv, OneHolder
      <4> QED BY <4>1, <4>2
    <3> QED BY <3>1 DEF OneHolder
  <2>14. SlotsDistinct(h)'
    BY <2>11 DEF HelperInv, HelperSound, SlotsDistinct
  <2>15. \A d \in Devices : h \in flock'[d] => \E j \in DOMAIN slots'[h] : j > 0 /\ Dev(h, j)' = d
    <3>1. \A d \in Devices : h \in flock[d] => \E j \in DOMAIN slots[h] : j > 0 /\ Dev(h, j) = d
      BY <1>2 DEF HelperInv, HelperSound, LocksHaveSlots
    <3> QED BY <2>4, <2>5, <2>11, <2>12, <3>1
  <2>16. \A g \in Helpers : Len(slots'[g]) <= MaxDevices
    BY <1>2, <2>11 DEF TypeOK
  <2>17. CASE Fail(h)
    <3>1. TypeOK' /\ Only(h) /\ status'[h] = "exiting"
      BY <1>2, <2>11, <2>12, <2>16, <2>17 DEF TypeOK, Only, Fail
    <3>2. LocksHaveSlots(h)'
      BY <1>2, <2>15, <3>1 DEF LocksHaveSlots, Running
    <3>3. Len(slots'[h]) >= Len(slots[h])
      BY <1>2, <2>11 DEF TypeOK
    <3>4. HelperSound(h)'
      BY <2>14, <2>17, <3>1, <3>2, <3>3, ReplyNames, LeavingSound
    <3> QED BY <2>13, <3>1, <3>4, OneHelper
  <2>18. CASE Done(h) /\ reply' = [reply EXCEPT ![h] = [cmd |-> "acquire", id |-> r.id, lock_state |-> slots'[h][i].lock_state]]
    <3> DEFINE a == [cmd |-> "acquire", id |-> id, lock_state |-> ls]
    <3>1. /\ inbox' \in [Helpers -> Seq(Request)] /\ status' = status /\ OneAtATime(h)'
          /\ \A g \in Helpers \ {h} : inbox'[g] = inbox[g]
      BY <1>1, <2>18, Answered
    <3>2. reply' = [reply EXCEPT ![h] = a]
      BY <2>10, <2>11, <2>18, Zenon
    <3>3. a \in Response /\ a.cmd = "acquire" /\ a.id = id /\ a.lock_state = ls
      BY DEF Response, LockStates
    <3> HIDE DEF a
    <3>4. reply' \in [Helpers -> Response] /\ reply'[h] = a /\ \A g \in Helpers \ {h} : reply'[g] = reply[g]
      BY <1>2, <3>2, <3>3 DEF TypeOK
    <3>5. TypeOK' /\ Only(h)
      BY <1>2, <2>11, <2>12, <2>16, <3>1, <3>4, Zenon DEF TypeOK, Only
    <3>6. LocksHaveSlots(h)'
      BY <1>2, <2>15, <3>1, Zenon DEF HelperInv, HelperSound, LocksHaveSlots, Running
    <3>7. ReplyTrue(h)'
      <4>1. reply'[h].id = id /\ id + 1 = i /\ id < Len(slots'[h]) /\ slots'[h][i].dev = dev
        BY <2>2, <2>3, <2>5, <2>10, <2>11, <3>3, <3>4 DEF Dev
      <4>2. reply'[h].lock_state = "by_me" => h \in flock'[dev]
        BY <2>12, <3>3, <3>4
      <4> QED BY <4>1, <4>2 DEF ReplyTrue, Dev
    <3>8. LockStateSound(h)'
      <4>1. ASSUME NEW j \in DOMAIN slots[h]
            PROVE  slots'[h][j].lock_state = "by_me" <=> h \in flock'[Dev(h, j)]
        <5>1. Dev(h, j) \in Devices
          BY <1>2, SlotType
        <5>2. CASE j = i
          BY <2>5, <2>6, <2>8, <2>11, <2>12, <5>1, <5>2
        <5>3. CASE j # i
          <6>1. Dev(h, j) # dev
            BY <2>5, <5>3 DEF HelperInv, HelperSound, SlotsDistinct
          <6> QED BY <1>2, <2>11, <2>12, <5>1, <5>3, <6>1 DEF HelperInv, HelperSound, LockStateSound
        <5> QED BY <5>2, <5>3
      <4> QED BY <2>11, <4>1 DEF LockStateSound
    <3>9. GrantBacked(h)'
      BY <1>2, <2>12, <3>1 DEF HelperInv, HelperSound, GrantBacked, Running, TypeOK
    <3> QED BY <2>13, <2>14, <3>1, <3>5, <3>6, <3>7, <3>8, <3>9, OneHelper DEF HelperSound
  <2> QED BY <2>7, <2>17, <2>18 DEF Send
<1> QED BY <1>4, <1>5

(* A release drops the lock of the slot it names and of no other, and the  *)
(* stub domain gave up its claim when it asked.                            *)
LEMMA ReleaseLockSound ==
    ASSUME HelperInv, NEW h \in Helpers, ReleaseLock(h)
    PROVE  HelperInv'
<1> DEFINE r == Head(inbox[h])
<1>1. Receive(h, "release")
  BY SMTT(20) DEF ReleaseLock
<1>2. /\ Running(h) /\ closed[h] = 0 /\ reply[h] = NoReply /\ inbox[h] # <<>>
      /\ r \in Request /\ r.cmd = "release" /\ r = inbox[h][1] /\ 1 \in DOMAIN inbox[h]
      /\ UNCHANGED <<closed, granted>> /\ TypeOK
  BY <1>1, Received DEF HelperInv
<1>3. r.id \in Ids
  BY <1>2, RequestHasId
<1>4. CASE ~ValidSlot(h, r)
  BY <1>2, <1>4, FailSound DEF ReleaseLock
<1>5. CASE ValidSlot(h, r)
  <2>1. ReleaseGlobalLock(h, r.id + 1) /\ Done(h) /\ UNCHANGED reply
    BY <1>5 DEF ReleaseLock
  <2>2. r.id \in Nat /\ r.id < Len(slots[h]) /\ r.id + 1 \in DOMAIN slots[h]
    BY <1>2, <1>3, <1>5 DEF ValidSlot, TypeOK, Ids
  <2>3. PICK i \in DOMAIN slots[h] : i = r.id + 1
    BY <2>2
  <2>4. Dev(h, i) \in Devices /\ Dev(h, i) \notin granted[h]
    <3>1. Dev(h, i) \in Devices
      BY <1>2, SlotType, SMTT(20)
    <3>2. Dev(h, inbox[h][1].id + 1) \notin granted[h]
      BY <1>2, <2>2 DEF HelperInv, HelperSound, OneAtATime
    <3> QED BY <1>2, <2>3, <3>1, <3>2
  <2>5. PICK dev \in Devices : dev = Dev(h, i)
    BY <2>4, SMTT(20)
  <2>6. \/ slots[h][i].lock_state # "by_me" /\ UNCHANGED <<slots, flock>>
        \/ SetLockState(h, i, "unlocked") /\ flock' = [flock EXCEPT ![dev] = flock[dev] \ {h}]
    BY <2>1, <2>3, <2>5, Zenon DEF ReleaseGlobalLock, Dev
  <2>7. /\ inbox' \in [Helpers -> Seq(Request)]
        /\ \A g \in Helpers \ {h} : inbox'[g] = inbox[g]
        /\ Len(inbox'[h]) = Len(inbox[h]) - 1 /\ Len(inbox[h]) \in Nat
        /\ DOMAIN inbox'[h] = 1 .. Len(inbox[h]) - 1
        /\ \A j \in DOMAIN inbox'[h] : j + 1 \in DOMAIN inbox[h] /\ inbox'[h][j] = inbox[h][j + 1]
    BY <1>2, <2>1, InboxTail, SMTT(20)
  <2>8. status' = status /\ reply' = reply /\ reply[h].cmd = "none"
    <3>1. status' = status
      BY <2>1 DEF Done
    <3>2. reply' = reply
      BY <2>1 DEF Done
    <3>3. reply[h].cmd = "none"
      BY <1>2 DEF NoReply
    <3> QED BY <3>1, <3>2, <3>3, Zenon
  <2> HIDE DEF r
  <2>9. /\ slots' \in [Helpers -> Seq(Slot)]
        /\ \A g \in Helpers : Len(slots'[g]) = Len(slots[g]) /\ DOMAIN slots'[g] = DOMAIN slots[g]
        /\ \A g \in Helpers \ {h} : slots'[g] = slots[g]
        /\ \A j \in DOMAIN slots[h] : Dev(h, j)' = Dev(h, j)
        /\ \A j \in DOMAIN slots[h] \ {i} : slots'[h][j].lock_state = slots[h][j].lock_state
        /\ slots'[h][i].lock_state # "by_me"
    <3>1. CASE UNCHANGED slots /\ slots[h][i].lock_state # "by_me"
      BY <1>2, <3>1, SMTT(20) DEF TypeOK, Dev
    <3>2. CASE SetLockState(h, i, "unlocked")
      <4>1. "unlocked" \in LockStates
        BY SMTT(20) DEF LockStates
      <4> QED BY <1>2, <3>2, <4>1, LockStateSet
    <3> QED BY <2>6, <3>1, <3>2
  <2>10. slots[h][i].lock_state # "by_me" => h \notin flock[dev]
    BY <1>2, <2>5, Zenon DEF HelperInv, HelperSound, LockStateSound
  <2>11. /\ flock' \in [Devices -> SUBSET Helpers]
         /\ \A d \in Devices : \A g \in Helpers : g \in flock'[d] <=> g \in flock[d] /\ ~(g = h /\ d = dev)
    <3>1. CASE UNCHANGED flock /\ slots[h][i].lock_state # "by_me"
      BY <1>2, <2>10, <3>1 DEF TypeOK
    <3>2. CASE flock' = [flock EXCEPT ![dev] = flock[dev] \ {h}]
      BY <1>2, <3>2 DEF TypeOK
    <3> QED BY <2>6, <3>1, <3>2
  <2>12. \A g \in Helpers : Len(slots'[g]) <= MaxDevices
    BY <1>2, <2>9, SMTT(20) DEF TypeOK
  <2>13. TypeOK' /\ Only(h)
    BY <1>2, <2>7, <2>8, <2>9, <2>11, <2>12, Zenon DEF TypeOK, Only
  <2>14. OneHolder'
    BY <1>2, <2>11 DEF HelperInv, OneHolder, TypeOK
  <2>15. SlotsDistinct(h)'
    <3>1. \A j, k \in DOMAIN slots[h] : Dev(h, j) = Dev(h, k) => j = k
      BY DEF HelperInv, HelperSound, SlotsDistinct
    <3>2. DOMAIN slots'[h] = DOMAIN slots[h] /\ \A j \in DOMAIN slots[h] : Dev(h, j)' = Dev(h, j)
      BY <2>9
    <3> QED BY <3>1, <3>2 DEF SlotsDistinct
  <2>16. LockStateSound(h)'
    <3>1. ASSUME NEW j \in DOMAIN slots[h]
          PROVE  slots'[h][j].lock_state = "by_me" <=> h \in flock'[Dev(h, j)]
      <4>1. Dev(h, j) \in Devices
        BY <1>2, SlotType
      <4>2. CASE j = i
        BY <2>5, <2>9, <2>11, <4>1, <4>2, SMTT(20)
      <4>3. CASE j # i
        <5>1. Dev(h, j) # dev
          BY <2>5, <4>3 DEF HelperInv, HelperSound, SlotsDistinct
        <5> QED BY <1>2, <2>9, <2>11, <4>1, <4>3, <5>1, Zenon DEF HelperInv, HelperSound, LockStateSound
      <4> QED BY <4>2, <4>3
    <3> QED BY <2>9, <3>1 DEF LockStateSound
  <2>17. LocksHaveSlots(h)'
    <3>1. \A d \in Devices : h \in flock[d] => \E j \in DOMAIN slots[h] : j > 0 /\ Dev(h, j) = d
      BY <1>2 DEF HelperInv, HelperSound, LocksHaveSlots
    <3>2. \A d \in Devices : h \in flock'[d] => \E j \in DOMAIN slots'[h] : j > 0 /\ Dev(h, j)' = d
      BY <2>9, <2>11, <3>1
    <3> QED BY <1>2, <2>8, <3>2 DEF LocksHaveSlots, Running
  <2>18. GrantBacked(h)'
    BY <1>2, <2>4, <2>5, <2>8, <2>11, SMTT(20) DEF HelperInv, HelperSound, GrantBacked, Running, TypeOK
  <2>19. OneAtATime(h)'
    <3>1. \A j \in DOMAIN inbox'[h] : j < Len(inbox'[h]) => inbox'[h][j].cmd = "release"
      <4>1. \A j \in DOMAIN inbox[h] : j < Len(inbox[h]) => inbox[h][j].cmd = "release"
        BY <1>2 DEF HelperInv, HelperSound, OneAtATime
      <4> QED BY <2>7, <4>1
    <3>2. ASSUME NEW j \in DOMAIN inbox'[h], inbox'[h][j].cmd = "release", inbox'[h][j].id < Len(slots'[h])
          PROVE  slots'[h][inbox'[h][j].id + 1].dev \notin granted'[h]
      <4>1. PICK k \in DOMAIN inbox[h] : inbox'[h][j] = inbox[h][k]
        BY <2>7
      <4>2. inbox[h][k] \in Request
        BY <1>2 DEF TypeOK
      <4>3. PICK id \in Ids : id = inbox[h][k].id
        BY <3>2, <4>1, <4>2, RequestHasId, SMTT(20)
      <4>a. OneAtATime(h)
        BY <1>2 DEF HelperInv, HelperSound
      <4>b. inbox[h][k].cmd = "release" /\ inbox[h][k].id < Len(slots[h])
        BY <2>9, <3>2, <4>1
      <4>c. Dev(h, inbox[h][k].id + 1) \notin granted[h]
        BY <1>2, <4>a, <4>b DEF OneAtATime
      <4>4. id \in Nat /\ id < Len(slots[h]) /\ Dev(h, id + 1) \notin granted[h]
        BY <4>3, <4>b, <4>c DEF Ids
      <4>5. id + 1 \in DOMAIN slots[h]
        BY <1>2, <4>4 DEF TypeOK
      <4>6. slots'[h][id + 1].dev = Dev(h, id + 1)
        BY <2>9, <4>5 DEF Dev
      <4> QED BY <1>2, <4>1, <4>3, <4>4, <4>6
    <3>3. reply'[h] = NoReply
      BY <1>2, <2>8
    <3> QED BY <3>1, <3>2, <3>3, Zenon DEF OneAtATime, Dev
  <2>20. ReplyTrue(h)'
    BY <2>8 DEF ReplyTrue
  <2> QED BY <2>13, <2>14, <2>15, <2>16, <2>17, <2>18, <2>19, <2>20, OneHelper DEF HelperSound
<1> QED BY <1>4, <1>5

-----------------------------------------------------------------------------
(* The theorems.                                                           *)

LEMMA InitSound == Init => HelperInv
<1> SUFFICES ASSUME Init PROVE HelperInv
  OBVIOUS
<1>1. NoReply \in Response /\ NoReply.cmd = "none"
  BY DEF NoReply, Response
<1>2. TypeOK /\ OneHolder
  BY <1>1, MaxDevicesAssumption DEF Init, TypeOK, OneHolder
<1>3. ASSUME NEW h \in Helpers PROVE HelperSound(h)
  <2>1. /\ slots[h] = <<>> /\ closed[h] = 0 /\ inbox[h] = <<>> /\ reply[h] = NoReply
        /\ granted[h] = {} /\ \A d \in Devices : h \notin flock[d]
    BY DEF Init
  <2> QED BY <1>1, <2>1 DEF HelperSound, SlotsDistinct, LockStateSound, LocksHaveSlots,
                            GrantBacked, OneAtATime, ReplyTrue
<1> QED BY <1>2, <1>3 DEF HelperInv

LEMMA NextSound == HelperInv /\ [Next]_vars => HelperInv'
<1> SUFFICES ASSUME HelperInv, [Next]_vars PROVE HelperInv'
  OBVIOUS
<1>1. CASE UNCHANGED vars
  <2>1. TypeOK'
    BY <1>1 DEF vars, HelperInv, TypeOK
  <2>2. OneHolder'
    BY <1>1 DEF vars, HelperInv, OneHolder
  <2>3. ASSUME NEW h \in Helpers PROVE HelperSound(h)'
    <3>1. HelperSound(h)
      BY SMTT(20) DEF HelperInv
    <3>2. (SlotsDistinct(h) /\ LockStateSound(h))'
      BY <1>1, <3>1, Zenon DEF vars, HelperSound, SlotsDistinct, LockStateSound, Running, Dev
    <3>3. LocksHaveSlots(h)'
      BY <1>1, <3>1 DEF vars, HelperSound, LocksHaveSlots, Running, Dev
    <3>4. GrantBacked(h)'
      BY <1>1, <3>1 DEF vars, HelperSound, GrantBacked, Running, Dev
    <3>5. OneAtATime(h)'
      BY <1>1, <3>1, SMTT(20) DEF vars, HelperSound, OneAtATime, Running, Dev
    <3>6. ReplyTrue(h)'
      BY <1>1, <3>1 DEF vars, HelperSound, ReplyTrue, Running, Dev
    <3> QED BY <3>2, <3>3, <3>4, <3>5, <3>6 DEF HelperSound
  <2> QED BY <2>1, <2>2, <2>3 DEF HelperInv
<1>2. CASE Next
  <2>1. PICK h \in Helpers :
          \/ \E r \in Requests : SendRequest(h, r)
          \/ ReadReply(h)
          \/ Open(h) \/ AcquireLock(h) \/ ReleaseLock(h)
          \/ SgGetReservedSize(h) \/ SgIo(h) \/ BadCommand(h)
          \/ Interrupt(h) \/ CloseSlot(h) \/ Exit(h) \/ Killed(h) \/ Start(h)
    BY <1>2 DEF Next
  <2>2. CASE \E r \in Requests : SendRequest(h, r)
    BY <2>2, SendRequestSound
  <2>3. CASE ReadReply(h)
    BY <2>3, ReadReplySound
  <2>4. CASE Open(h)
    BY <2>4, OpenSound
  <2>5. CASE AcquireLock(h)
    BY <2>5, AcquireLockSound
  <2>6. CASE ReleaseLock(h)
    BY <2>6, ReleaseLockSound
  <2>7. CASE SgGetReservedSize(h) \/ SgIo(h)
    BY <2>7, DriveCommandSound DEF SgGetReservedSize, SgIo
  <2>8. CASE Interrupt(h) \/ BadCommand(h)
    BY <2>8, InterruptSound
  <2>9. CASE CloseSlot(h) \/ Exit(h) \/ Killed(h) \/ Start(h)
    BY <2>9, CloseSlotSound, ExitSound, KilledSound, StartSound
  <2> QED BY <2>1, <2>2, <2>3, <2>4, <2>5, <2>6, <2>7, <2>8, <2>9
<1> QED BY <1>1, <1>2

(* For any number of stub domains, drives and slots: what each helper      *)
(* records of its slots agrees with the kernel's table of lock files, no   *)
(* lock file has two holders, and every grant is backed by its lock.       *)
THEOREM HelpersSound == Spec => []HelperInv
BY InitSound, NextSound, PTL DEF Spec

(* No two stub domains whose helpers run ever hold one drive at a time,    *)
(* whatever the order of requests, deaths and restarts.                    *)
THEOREM GrantsStayExclusive == Spec => []GrantsExclusive
<1>1. HelperInv => GrantsExclusive
  <2> SUFFICES ASSUME HelperInv, NEW g \in Helpers, NEW h \in Helpers, NEW d \in Devices,
                      g # h, d \in granted[g] \cap granted[h], Running(g), Running(h)
               PROVE  FALSE
    BY DEF GrantsExclusive, Running
  <2>1. g \in flock[d] /\ h \in flock[d]
    BY DEF HelperInv, HelperSound, GrantBacked
  <2> QED BY <2>1 DEF HelperInv, OneHolder
<1> QED BY <1>1, HelpersSound, PTL
=============================================================================
