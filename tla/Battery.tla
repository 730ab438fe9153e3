------------------------------ MODULE Battery ------------------------------
(***************************************************************************)
(* The battery poller of xcpmd (battery.c): every four seconds             *)
(* update_batteries() copies what sysfs says of the battery slots into the *)
(* arrays last_status and last_info, and from there into xenstore, where   *)
(* QEMU reads it.  Batteries are pulled, inserted and docked while the     *)
(* refresh is under way, so each look at sysfs is a step of its own.       *)
(* Between refreshes the D-Bus methods answer from the arrays.             *)
(*                                                                         *)
(* One record stands for an entry of both arrays: present, the charge and  *)
(* the flow come from last_status, full and design from last_info.         *)
(***************************************************************************)
EXTENDS Integers, FiniteSets, FiniteSetsExt

CONSTANTS
    MaxSlots,     \* sysfs has the slots BAT0 .. BAT<MaxSlots - 1>, or some of them
    Cells,        \* the batteries there are, as sysfs reports them
    MaxChanges,   \* how often the hardware changes
    Hour,         \* seconds in an hour; scaled down with the widths below
    IntSpace,     \* 2^32, the values of an int
    LongSpace,    \* 2^64, the values of an unsigned long
    NoSlot,       \* sysfs has no such slot
    Empty,        \* the slot is empty
    None,         \* xenstore has no such leaf
    Garbage       \* what lies beyond an array

Slots == 0 .. MaxSlots - 1
AcStates == {"on_ac", "on_batt", "unknown", "no_ac"}
Readings ==
    [present: BOOLEAN, charge: Nat, full: Nat, design: Nat, flow: {"in", "out", "none"}, rate: Nat]

ASSUME BatteryAssumption ==
    /\ MaxSlots \in Nat \ {0}
    /\ Cells \subseteq {r \in Readings : r.present}
    /\ MaxChanges \in Nat
    /\ {Hour, IntSpace, LongSpace} \subseteq Nat \ {0}

Zero == [present |-> FALSE, charge |-> 0, full |-> 0, design |-> 0, flow |-> "none", rate |-> 0]
NoDir == [bst |-> None, present |-> None, bif |-> None]

VARIABLES
    slot,         \* sysfs: what each battery slot holds
    ac,           \* sysfs: get_ac_adapter_status()
    changes,      \* how many changes of the hardware are left
    last,         \* last_status and last_info; entries from allocd on are not allocated
    allocd,       \* num_battery_structs_allocd
    freed,        \* the arrays were freed and the pointers kept
    phase,        \* where update_batteries() is
    index,        \* i
    old,          \* old_status and old_info
    oldSize,      \* old_array_size
    signals,      \* the event leaves and notifications of the last refresh
    xs,           \* the battery part of /pm in xenstore
    quiet,        \* history: the hardware has not changed since the refresh began
    steady,       \* history: some battery was always there, and no refresh met a change
    crashed       \* the process is gone

hardware == <<slot, ac, changes>>
arrays == <<last, allocd, freed>>
refresh == <<phase, index, old, oldSize>>
batteryVars == <<hardware, arrays, refresh, signals, xs, quiet, steady, crashed>>

SlotExists(i) == slot[i] # NoSlot
Reading(i) == IF slot[i] \in Cells THEN slot[i] ELSE Zero
NumPresent == Cardinality({i \in Slots : slot[i] \in Cells})
MaxIndex == Max({i \in Slots : SlotExists(i)} \cup {-1})

-----------------------------------------------------------------------------
(* What the readers of the arrays compute                                  *)

Capacity(r) == IF r.full # 0 THEN r.full ELSE r.design
Present == {i \in Slots : i < allocd /\ last[i].present}

total_charge == MapThenSumSet(LAMBDA i : last[i].charge, Present)
total_max_charge == MapThenSumSet(LAMBDA i : Capacity(last[i]), Present)

Percentage(left, capacity) == IF capacity = 0 THEN 0 ELSE Min({100, (100 * left) \div capacity})

overall_percentage == Percentage(total_charge, total_max_charge)

battery_percentage(i) ==
    IF i >= allocd \/ ~SlotExists(i) \/ ~last[i].present
    THEN 0
    ELSE Percentage(last[i].charge, Capacity(last[i]))

battery_level ==
    CASE overall_percentage <= 2 -> "critical"
      [] overall_percentage > 2 /\ overall_percentage <= 4 -> "low"
      [] overall_percentage > 4 /\ overall_percentage <= 8 -> "warning"
      [] overall_percentage > 8 -> "normal"

(* The other battery that is charging or discharging, lowest index first.  *)
busy_others(i) == {j \in Present \ {i} : last[j].flow # "none"}

charge_state(i) ==
    CASE last[i].flow = "out" -> "discharging"
      [] last[i].flow = "in" -> IF last[i].charge = last[i].design THEN "full" ELSE "charging"
      [] last[i].flow = "none" ->
           LET percent == battery_percentage(i) IN
           CASE percent > 90 -> "full"
             [] percent < 10 -> "empty"
             [] percent \in 10 .. 90 /\ busy_others(i) = {} -> "unknown"
             [] percent \in 10 .. 90 /\ busy_others(i) # {} ->
                  IF last[Min(busy_others(i))].flow = "in" THEN "pending charge"
                                                           ELSE "pending discharge"

total_charge_rate ==
    LET of(state) == {i \in Present : charge_state(i) = state}
        rate(i) == last[i].rate
    IN MapThenSumSet(rate, of("charging")) - MapThenSumSet(rate, of("discharging"))

system_charge_state ==
    IF ac = "on_ac"
    THEN IF overall_percentage > 90 \/ total_charge_rate = 0 THEN "full" ELSE "charging"
    ELSE IF overall_percentage < 10 THEN "empty" ELSE "discharging"

(* The conversion of an unsigned long to int, and the times in seconds.    *)
ToInt(n) == LET low == n % IntSpace IN IF 2 * low < IntSpace THEN low ELSE low - IntSpace

\* Mutant: the charge is divided by the rate before it is scaled to seconds.
time_to_full_MutDividesFirst ==
    IF total_charge_rate <= 0 THEN 0
    ELSE ((total_max_charge - total_charge) \div total_charge_rate) * Hour

time_to_full ==
    IF total_charge_rate <= 0 THEN 0
    ELSE LET left == ((total_max_charge - total_charge) * Hour) % LongSpace
         IN Max({0, ToInt(left \div total_charge_rate)})

time_to_empty ==
    IF total_charge_rate >= 0 THEN 0
    ELSE ToInt((total_charge * Hour) \div (0 - total_charge_rate))

(***************************************************************************)
(* The D-Bus methods about one battery, xcpmd_battery_is_present() and     *)
(* _percentage() and _state(): they look for the slot in sysfs, and read   *)
(* the arrays at its index without comparing it with their size.           *)
(***************************************************************************)
Answer(n) ==
    CASE ~SlotExists(n) -> "no such slot"
      [] SlotExists(n) /\ n >= allocd -> "out of bounds"
      [] SlotExists(n) /\ n < allocd -> IF last[n].present THEN "present" ELSE "no battery"

-----------------------------------------------------------------------------
(* Writing to xenstore                                                     *)

Compat(i) == IF i = 0 THEN 0 ELSE 1
XsPresent == IF NumPresent = 0 THEN "0" ELSE "1"

\* Mutant: a normal level is written like the others.
XsLevel_MutNormalWritten == IF ac = "on_ac" THEN None ELSE battery_level

XsLevel == IF battery_level = "normal" \/ ac = "on_ac" THEN None ELSE battery_level

cleanup_removed_battery(x, i) ==
    [x EXCEPT !.bat[i] = NoDir,
              !.compat[Compat(i)] = [bst |-> None, bif |-> None],
              !.present = XsPresent]

\* Mutant: the flag of a battery that went is left as it was.
clear_status_MutFlagKept(x, i) == [x EXCEPT !.bat[i].bst = None]

clear_status(x, i) == [x EXCEPT !.bat[i].bst = None, !.bat[i].present = "0"]

\* Mutant: the level is written and never removed.
level_after_MutNeverRemoved(x) == IF XsLevel = None THEN x.level ELSE XsLevel

level_after(x) == XsLevel

(* Beyond the array, the flag and the values read are whatever is there:   *)
(* the parameter there is the flag.                                        *)
write_status(x, i, there) ==
    LET cleaned == IF i >= allocd THEN cleanup_removed_battery(x, i) ELSE x
        y == [cleaned EXCEPT !.present = XsPresent]
        bst == IF i < allocd THEN last[i] ELSE Garbage
    IN CASE NumPresent = 0 -> y
         [] NumPresent # 0 /\ ~there -> clear_status(y, i)
         [] NumPresent # 0 /\ there ->
              [y EXCEPT !.bat[i].bst = bst, !.bat[i].present = "1",
                        !.compat[Compat(i)].bst = bst, !.level = level_after(y)]

write_info(x, i) ==
    IF ~SlotExists(i) \/ i >= allocd
    THEN cleanup_removed_battery(x, i)
    ELSE [x EXCEPT !.bat[i].bif = last[i].full, !.compat[Compat(i)].bif = last[i].full]

-----------------------------------------------------------------------------
(* update_batteries()                                                      *)

Status(r) == <<r.present, r.charge, r.flow, r.rate>>
Info(r) == <<r.present, r.full, r.design>>
ToUpdate == Max({allocd, oldSize})

\* Mutant: the highest index is taken for the size.
new_array_size_MutOffByOne == Max({0, MaxIndex})

new_array_size == MaxIndex + 1

(***************************************************************************)
(* Copy the arrays and fit them to the slots there are.  Once every slot   *)
(* was removed the arrays are freed and the pointers are not cleared: the  *)
(* next realloc() is given a freed pointer, and the allocator may notice.  *)
(***************************************************************************)
BeginRefresh ==
    /\ phase = "idle"
    /\ ~crashed
    /\ old' = last
    /\ oldSize' = allocd
    /\ allocd' = new_array_size
    /\ last' = IF allocd' = allocd THEN last ELSE [i \in Slots |-> Zero]
    /\ freed' = (allocd' = 0 /\ (freed \/ allocd > 0))
    /\ crashed' \in (IF freed /\ allocd' > 0 THEN BOOLEAN ELSE {FALSE})
    /\ phase' = IF crashed' THEN "idle" ELSE "read"
    /\ index' = 0
    /\ signals' = {}
    /\ quiet' = TRUE
    /\ UNCHANGED <<hardware, xs, steady>>

(* update_battery_status(i) and update_battery_info(i)                     *)
UpdateBattery ==
    /\ phase = "read"
    /\ index < ToUpdate
    /\ index' = index + 1
    /\ last' = IF index < allocd THEN [last EXCEPT ![index] = Reading(index)] ELSE last
    /\ UNCHANGED <<hardware, allocd, freed, phase, old, oldSize, signals, xs, quiet, steady, crashed>>

AllRead ==
    /\ phase = "read"
    /\ index = ToUpdate
    /\ phase' = "write"
    /\ index' = 0
    /\ UNCHANGED <<hardware, arrays, old, oldSize, signals, xs, quiet, steady, crashed>>

\* Mutant: a battery beyond the shrunken array is not counted as gone.
present_changed_MutShrinkIgnored(i) ==
    CASE i < oldSize /\ i < allocd -> old[i].present # last[i].present
      [] i >= oldSize -> last[i].present
      [] i < oldSize /\ i >= allocd -> FALSE

present_changed(i) ==
    CASE i < oldSize /\ i < allocd -> old[i].present # last[i].present
      [] i >= oldSize -> last[i].present
      [] i < oldSize /\ i >= allocd -> old[i].present

(* The event leaves of battery i, and the flag present_batteries_changed.  *)
SlotSignals(i) ==
    LET both == i < oldSize /\ i < allocd IN
       {<<"info", i>> : x \in {x \in {0} : ~both \/ Info(old[i]) # Info(last[i])}}
    \cup {<<"status", i>> : x \in {x \in {0} : ~both \/ Status(old[i]) # Status(last[i])}}
    \cup (IF present_changed(i) THEN {<<"num_batteries_changed">>} ELSE {})

(***************************************************************************)
(* Write battery i.  last_status[i] is read although i may be beyond the   *)
(* array, and old_status[i] although i may be beyond the copy: what is     *)
(* there decides whether the battery is written.                           *)
(***************************************************************************)
WriteBattery ==
    /\ phase = "write"
    /\ index < ToUpdate
    /\ \E now, before \in BOOLEAN :
         /\ index < allocd => now = last[index].present
         /\ index < oldSize => before = old[index].present
         /\ IF now \/ before
            THEN /\ xs' = write_info(write_status(xs, index, now), index)
                 /\ signals' = signals \cup SlotSignals(index)
                      \cup (IF NumPresent # 0 /\ now /\ XsLevel # None
                            THEN {<<"battery_level">>} ELSE {})
            ELSE /\ signals' = signals \cup SlotSignals(index)
                 /\ xs' = xs
    /\ index' = index + 1
    /\ UNCHANGED <<hardware, arrays, phase, old, oldSize, quiet, steady, crashed>>

EndRefresh ==
    /\ phase = "write"
    /\ index = ToUpdate
    /\ phase' = "idle"
    /\ index' = 0
    /\ old' = [i \in Slots |-> Zero]
    /\ oldSize' = 0
    /\ LET of(Part(_)) == oldSize # allocd \/ \E i \in Slots : i < allocd /\ Part(old[i]) # Part(last[i])
       IN signals' = signals
            \cup (IF of(Info) THEN {<<"battery_info_changed">>} ELSE {})
            \cup (IF of(Status) THEN {<<"battery_status_changed">>} ELSE {})
    /\ UNCHANGED <<hardware, arrays, xs, quiet, steady, crashed>>

RefreshStep == UpdateBattery \/ AllRead \/ WriteBattery \/ EndRefresh

-----------------------------------------------------------------------------
(* The hardware                                                            *)

SlotChanges(i) ==
    /\ changes > 0
    /\ ~crashed
    /\ changes' = changes - 1
    /\ \E s \in {NoSlot, Empty} \cup Cells : s # slot[i] /\ slot' = [slot EXCEPT ![i] = s]
    /\ quiet' = FALSE
    /\ steady' = (steady /\ phase = "idle" /\ \E j \in Slots : slot'[j] \in Cells)
    /\ UNCHANGED <<ac, arrays, refresh, signals, xs, crashed>>

BatteryInit ==
    /\ slot \in [Slots -> {NoSlot, Empty} \cup Cells]
    /\ ac \in AcStates
    /\ changes = MaxChanges
    /\ last = [i \in Slots |-> Zero]
    /\ allocd = 0
    /\ freed = FALSE
    /\ phase = "idle"
    /\ index = 0
    /\ old = [i \in Slots |-> Zero]
    /\ oldSize = 0
    /\ signals = {}
    /\ xs = [present |-> None, level |-> None, bat |-> [i \in Slots |-> NoDir],
             compat |-> [c \in 0 .. 1 |-> [bst |-> None, bif |-> None]]]
    /\ quiet = FALSE
    /\ steady = TRUE
    /\ crashed = FALSE
=============================================================================
