---------------------------- MODULE XcpmdInputs ----------------------------
(***************************************************************************)
(* What reaches xcpmd's event loop: the battery timer, acpid's socket and  *)
(* the signals of xenmgr.  The loop runs one handler at a time and the     *)
(* handlers of VM signals share no state with the others, so a behaviour   *)
(* is about one of three scenes, chosen at the start.                      *)
(***************************************************************************)
EXTENDS AcpiEvents, VmEvents

VARIABLE scene    \* which part of the world moves: "batteries", "acpi" or "vms"

vars == <<batteryVars, acpiVars, vmVars, scene>>

Power(A) == scene # "vms" /\ A /\ UNCHANGED <<vmVars, scene>>
Virtual(A) == scene = "vms" /\ A /\ UNCHANGED <<batteryVars, acpiVars, scene>>

Init ==
    /\ scene \in {"batteries", "acpi", "vms"}
    /\ AcpiInit
    /\ VmInit
    /\ scene # "batteries" => slot = [i \in Slots |-> NoSlot]
    /\ scene = "batteries" => ac \in {"on_ac", "on_batt"}
    /\ scene # "acpi" => lid = "no_lid"
    /\ scene = "vms" => ac = "no_ac"
    /\ scene # "vms" => vms = [p \in Paths |-> NoVm]

Next ==
    \/ Power(Connect)
    \/ Power(Poll)
    \/ Power(Polling)
    \/ Power(acpi_initialize_state)
    \/ Power(acpi_events_read)
    \/ Power(scene = "acpi" /\ \E i \in Inputs : xcpmd_process_input(i))
    \/ Power(scene = "acpi" /\ AcChanges)
    \/ Power(scene = "acpi" /\ LidChanges)
    \/ Power(scene = "acpi" /\ OtherLine)
    \/ Power(scene = "batteries" /\ SlotChange)
    \/ Power(scene = "acpi" /\ AcpidStops)
    \/ Virtual(ReadName)
    \/ Virtual(TableDone)
    \/ Virtual(Receive)
    \/ Virtual(Deliver)
    \/ Virtual(NextAction)
    \/ Virtual(OtherRule)
    \/ Virtual(FillAgain)
    \/ Virtual(SendCall)
    \/ Virtual(VmChanges)
    \/ Virtual(XenmgrSignals)
    \/ Virtual(XenmgrFails)

Spec == Init /\ [][Next]_vars

(***************************************************************************)
(* Fairness.  main() goes on, the battery timer is set again at the end of *)
(* every refresh, and a refresh that has begun goes on.  No fairness is    *)
(* assumed of the hardware, of acpid or of xenmgr.                         *)
(***************************************************************************)
FairSpec ==
    /\ Spec
    /\ WF_vars(Power(Connect \/ Poll \/ Polling \/ acpi_initialize_state))

-----------------------------------------------------------------------------
(* Batteries                                                               *)

(* Types of the state the handlers keep.                                   *)
TypeOK ==
    /\ slot \in [Slots -> {NoSlot, Empty} \cup Cells]
    /\ last \in [Slots -> Cells \cup {Zero}]
    /\ allocd \in 0 .. MaxSlots
    /\ phase \in {"idle", "read", "write"}
    /\ stage \in {"connect", "first", "init", "second", "loop", "failed"}
    /\ xs.present \in {None, "0", "1"}
    /\ xs.level \in {None, "critical", "low", "warning"}
    /\ xsAc \in {None, "0", "1", "255"}
    /\ xsLid \in {None, "0", "1"}
    /\ value \in [ac : AcStates, lid : LidStates]
    /\ Len(lines) <= MaxLines
    /\ Len(mail) <= MaxMail

Settled == phase = "idle" /\ quiet /\ ~crashed

(***************************************************************************)
(* After a refresh during which the hardware stood still, QEMU reads what  *)
(* sysfs says of the batteries that are there, whatever went wrong before. *)
(* What it reads of absent batteries is right as long as some battery was  *)
(* always there and no change fell into a refresh: without a battery       *)
(* write_battery_status_to_xenstore() returns early, and it asks sysfs for *)
(* the number of batteries after the arrays were read.                     *)
(***************************************************************************)
XenstoreMatchesSysfs ==
    Settled =>
        /\ NumPresent > 0 => xs.present = "1"
        /\ \A i \in Slots : slot[i] \in Cells =>
             /\ xs.bat[i].bst = slot[i]
             /\ xs.bat[i].present = "1"
             /\ xs.bat[i].bif = slot[i].full
        /\ steady =>
             /\ NumPresent = 0 => xs.present # "1"
             /\ \A i \in Slots : slot[i] \notin Cells => xs.bat[i].bst = None /\ xs.bat[i].present # "1"

(***************************************************************************)
(* After such a refresh the level the guests are warned of is that of all  *)
(* batteries together: update_batteries() reads them all before it writes  *)
(* one.                                                                    *)
(***************************************************************************)
LevelIsOfAllBatteries == Settled /\ NumPresent > 0 => xs.level = XsLevel

(***************************************************************************)
(* num_batteries_changed is sent by exactly the refreshes that find other  *)
(* slots occupied than the refresh before, however the arrays grew or      *)
(* shrank.                                                                 *)
(***************************************************************************)
CountChangesSignalled ==
    [][phase = "write" /\ phase' = "idle" =>
          (<<"num_batteries_changed">> \in signals <=>
             {i \in Slots : i < oldSize /\ old[i].present} # Present)]_vars

(***************************************************************************)
(* The D-Bus methods about one battery take sysfs's word for a slot and    *)
(* index the arrays with it.  That reads beyond the arrays only for a slot *)
(* that appeared since the last refresh began; otherwise the answer is     *)
(* what sysfs says.                                                        *)
(***************************************************************************)
AnswersInBounds ==
    Settled => \A n \in Slots :
                 Answer(n) = CASE slot[n] = NoSlot -> "no such slot"
                               [] slot[n] = Empty -> "no battery"
                               [] slot[n] \in Cells -> "present"

(***************************************************************************)
(* Percentages and times agree: percentages are at most 100; a system that *)
(* charges and is not over-full is full exactly when the time says, and    *)
(* the times are exact.                                                    *)
(***************************************************************************)
TimesAreExact ==
    Settled =>
        /\ total_charge_rate > 0 /\ total_charge <= total_max_charge =>
             time_to_full = ((total_max_charge - total_charge) * Hour) \div total_charge_rate
        /\ total_charge_rate < 0 =>
             time_to_empty = (total_charge * Hour) \div (0 - total_charge_rate)
        /\ \A i \in Present : battery_percentage(i) \in 0 .. 100
        /\ Cardinality(Present) = 1 => \A i \in Present : battery_percentage(i) = overall_percentage

(***************************************************************************)
(* Once the hardware stands still with a battery in, guests are told there *)
(* is one, whatever happened during earlier refreshes.                     *)
(***************************************************************************)
PresenceConverges ==
    (scene # "vms" /\ changes = 0 /\ NumPresent > 0) ~>
        (crashed \/ stage = "failed" \/ xs.present = "1")

-----------------------------------------------------------------------------
(* ACPI                                                                    *)

Caught == scene = "acpi" /\ InLoop /\ lines = <<>> /\ acpid = "up"

(***************************************************************************)
(* Once xcpmd has read all that acpid wrote, the AC and lid states in      *)
(* xenstore are those of the hardware, unless the last line about it was   *)
(* read together with an earlier line: only that loses an event.           *)
(***************************************************************************)
StateIsCurrent ==
    Caught =>
        /\ "ac" \notin missed =>
             /\ ac = "on_ac" => xsAc = "1"
             /\ ac = "on_batt" => xsAc = "0"
             /\ ac = "unknown" => xsAc \in {"0", "255"}
             /\ ac = "no_ac" => xsAc = None
        /\ "lid" \notin missed =>
             xsLid = (IF lid = "no_lid" THEN None ELSE LidLeaf(lid))

(***************************************************************************)
(* Rules and guests are told the same: the condition whileUsingAc is true  *)
(* exactly when the AC leaf is 1, and whileLidClosed exactly when the lid  *)
(* leaf is 0, although the event's value is assigned as a Boolean here and *)
(* as an integer there.                                                    *)
(***************************************************************************)
RulesAgreeWithXenstore ==
    stage \in {"second", "loop"} =>
        /\ value.ac = "on_ac" <=> xsAc = "1"
        /\ value.lid = "closed" <=> xsLid = "0"

-----------------------------------------------------------------------------
(* VMs                                                                     *)

(***************************************************************************)
(* An action that names a VM calls a VM that bore that name at some time   *)
(* since the action began, even if VMs are renamed meanwhile.              *)
(***************************************************************************)
CallsReachTheNamed ==
    \A c \in calls :
        CASE c.whom.by = "name" -> <<c.path, c.whom.whom>> \in held
          [] c.whom.by = "uuid" -> c.path = c.whom.whom

(***************************************************************************)
(* A signal of a VM that has been there since the table was begun is never *)
(* dropped; rules that name a VM react to the name of the table, which the *)
(* VM bore at some time since.                                             *)
(***************************************************************************)
SettledVmsAreHeard ==
    [][job.kind = "signal" /\ job' = Idle /\ table # NoTable =>
          /\ job.vm \in settled => Found(job)
          /\ \A r \in Fired(job.event, job.vm) :
               Found(job) /\ r.cond.by = "name" => <<job.vm, r.cond.whom>> \in tabled]_vars

-----------------------------------------------------------------------------
(* Properties put together where they are about one thing                  *)

(* After a quiet refresh all battery leaves of xenstore are right, each    *)
(* battery's, their presence, and the level of all together; and the D-Bus *)
(* methods answer within their arrays, with the right percentages and      *)
(* times.                                                                  *)
BatteryRight ==
    TypeOK /\ XenstoreMatchesSysfs /\ LevelIsOfAllBatteries /\ AnswersInBounds /\ TimesAreExact

(* The AC and lid states are those of the hardware, and rules and guests   *)
(* are told the same ones.                                                 *)
AcpiStateRight == StateIsCurrent /\ RulesAgreeWithXenstore

(* Signals: those of changed battery counts are sent, those of VMs heard.  *)
SignalsKept == CountChangesSignalled /\ SettledVmsAreHeard
=============================================================================
