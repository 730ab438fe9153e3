----------------------------- MODULE AcpiEvents -----------------------------
(***************************************************************************)
(* The ACPI side of xcpmd (acpi-events.c, and main() of xcpmd.c): xcpmd    *)
(* connects to acpid, initialises xenstore and the stateful events from    *)
(* sysfs, and then handles what acpid writes to the socket.  acpid's       *)
(* lines reach xcpmd through a stream: lines written before xcpmd reads    *)
(* arrive together, and process_acpi_message() parses the first alone.     *)
(*                                                                         *)
(* A call of handle_events() is recorded in event; what the rule engine    *)
(* makes of it is modelled in RuleEngine.                                  *)
(***************************************************************************)
EXTENDS Battery, Sequences, SequencesExt

CONSTANTS
    MaxAttempts,  \* how often connect() is retried, 5 in the code
    MaxLines,     \* lines acpid can have outstanding
    Keys,         \* the buttons acpid reports
    Inputs,       \* what the input daemon reports over D-Bus
    Quirks        \* whether the platform needs software-assisted brightness

Buttons == {"power", "sleep", "suspend", "brightnessup", "brightnessdown", "brightnesscycle"}

ASSUME AcpiAssumption ==
    /\ {MaxAttempts, MaxLines} \subseteq Nat
    /\ Keys \subseteq Buttons
    /\ Quirks \in BOOLEAN

VARIABLES
    lid,          \* sysfs: get_lid_status()
    stage,        \* how far main() is
    attempts,     \* failed calls of connect()
    acpid,        \* "up", or "gone": the socket is at end of file
    lines,        \* what acpid wrote and xcpmd has not read
    value,        \* the values of the stateful events
    xsAc,         \* XS_AC_ADAPTER_STATE_PATH
    xsLid,        \* XS_LID_STATE_PATH
    xsBcl,        \* XS_BCL_CMD
    event,        \* the last event given to handle_events()
    missed        \* history: classes whose last line was read and not parsed

acpiState == <<value, xsAc, xsLid, xsBcl, event>>
acpiVars == <<lid, stage, attempts, acpid, lines, acpiState, missed>>

LidStates == {"open", "closed", "unknown", "no_lid"}

(* A lid line may fail to name the state: then data is "unknown".          *)
Line(class, data) == [class |-> class, data |-> data]
Lines ==
    {Line("ac", d) : d \in {"on_ac", "on_batt", "unknown"}}
    \cup {Line("lid", d) : d \in {"open", "closed", "unknown"}}
    \cup {Line("button", b) : b \in Keys}
    \cup {Line("ignored", "none")}

-----------------------------------------------------------------------------
(* Handlers                                                                *)

(***************************************************************************)
(* handle_ac_adapter_event() assigns the status to the Boolean member of   *)
(* the event's value, and the conditions read the integer member: AC is 0, *)
(* battery is 1, and the status unknown (2) becomes 1 too.                 *)
(***************************************************************************)
AsBool(status) == IF status = "on_ac" THEN "on_ac" ELSE "on_batt"

handle_ac_adapter_event(data) ==
    /\ xsAc' = CASE data = "on_batt" -> "0" [] data = "on_ac" -> "1" [] data = "unknown" -> "255"
    /\ value' = [value EXCEPT !.ac = AsBool(data)]
    /\ event' = "on_ac"
    /\ UNCHANGED <<xsLid, xsBcl>>

LidLeaf(status) == IF status = "closed" THEN "0" ELSE "1"

\* Mutant: a line that does not name the state is taken to say open.
handle_lid_event_MutNoSysfs(status) ==
    LET lid_status == IF status = "unknown" THEN "open" ELSE status IN
    /\ xsLid' = LidLeaf(lid_status)
    /\ value' = [value EXCEPT !.lid = lid_status]
    /\ event' = "lid"
    /\ UNCHANGED <<xsAc, xsBcl>>

handle_lid_event(status) ==
    LET lid_status == IF status = "unknown" THEN lid ELSE status IN
    /\ xsLid' = LidLeaf(lid_status)
    /\ value' = [value EXCEPT !.lid = lid_status]
    /\ event' = "lid"
    /\ UNCHANGED <<xsAc, xsBcl>>

(* handle_{power,sleep,suspend}_button_event() and handle_bcl_event()      *)
handle_button_event(b) ==
    /\ xsBcl' = CASE b = "brightnessup" -> "1" [] b = "brightnessdown" -> "2" [] OTHER -> xsBcl
    /\ event' = b
    /\ UNCHANGED <<value, xsAc, xsLid>>

process_acpi_message(line) ==
    CASE line.class = "ac" -> handle_ac_adapter_event(line.data)
      [] line.class = "lid" -> handle_lid_event(line.data)
      [] line.class = "button" -> handle_button_event(line.data)
      [] line.class = "ignored" -> UNCHANGED acpiState

-----------------------------------------------------------------------------
(* main()                                                                  *)

Connect ==
    /\ stage = "connect"
    /\ \/ /\ stage' = "first"
          /\ attempts' = 0
       \/ /\ stage' = IF attempts = MaxAttempts THEN "failed" ELSE "connect"
          /\ attempts' = attempts + 1
    /\ UNCHANGED <<batteryVars, lid, acpid, lines, acpiState, missed>>

(* The poller runs when the ACPI events are initialised, once more from    *)
(* acpi_initialize_state(), and then whenever its timer expires.           *)
Poll ==
    /\ stage \in {"first", "second", "loop"}
    /\ BeginRefresh
    /\ stage' = CASE stage = "first" -> "init" [] stage = "second" -> "loop" [] stage = "loop" -> "loop"
    /\ UNCHANGED <<lid, attempts, acpid, lines, acpiState, missed>>

Polling == RefreshStep /\ UNCHANGED acpiVars

\* Mutant: an unreadable state counts as AC.
acpi_initialize_ac_MutUnknownIsAc(a) ==
    CASE a \in {"on_ac", "unknown"} -> "1" [] a = "on_batt" -> "0" [] a = "no_ac" -> None

acpi_initialize_ac(a) ==
    CASE a = "on_ac" -> "1" [] a \in {"on_batt", "unknown"} -> "0" [] a = "no_ac" -> None

acpi_initialize_state ==
    /\ stage = "init"
    /\ phase = "idle"
    /\ ~crashed
    /\ value' = [ac |-> ac, lid |-> lid]
    /\ xsAc' = acpi_initialize_ac(ac)
    /\ xsLid' = IF lid = "no_lid" THEN None ELSE LidLeaf(lid)
    /\ stage' = "second"
    /\ UNCHANGED <<batteryVars, lid, attempts, acpid, lines, xsBcl, event, missed>>

InLoop == stage = "loop" /\ phase = "idle" /\ ~crashed

(* acpi_events_read(): one recv() takes all that acpid has written.        *)
Unparsed(read) == {read[k].class : k \in 2 .. Len(read)}

acpi_events_read ==
    /\ InLoop
    /\ lines # <<>>
    /\ lines' = <<>>
    /\ process_acpi_message(Head(lines))
    /\ missed' = (missed \ {Head(lines).class}) \cup Unparsed(lines)
    /\ UNCHANGED <<batteryVars, lid, stage, attempts, acpid>>

(* The D-Bus method indicate_input.                                        *)
xcpmd_process_input(input) ==
    /\ InLoop
    /\ changes > 0
    /\ changes' = changes - 1
    /\ IF input = "sleep" \/ (input \in {"brightnessup", "brightnessdown"} /\ Quirks)
       THEN handle_button_event(input)
       ELSE UNCHANGED acpiState
    /\ UNCHANGED <<slot, ac, arrays, refresh, signals, xs, quiet, steady, crashed, lid, stage, attempts, acpid, lines, missed>>

-----------------------------------------------------------------------------
(* The hardware, and acpid                                                 *)

(* Before xcpmd is connected a change is no different from an initial      *)
(* state.                                                                  *)
Connected == stage \notin {"connect", "failed"}
Heard == acpid = "up"

(* acpid writes to the sockets connected to it.                            *)
Announce(line) ==
    /\ Len(lines) < MaxLines
    /\ lines' = IF Heard THEN Append(lines, line) ELSE lines

Hardware ==
    /\ Connected
    /\ changes > 0
    /\ ~crashed
    /\ changes' = changes - 1
    /\ UNCHANGED <<slot, arrays, refresh, signals, xs, steady, crashed>>
    /\ UNCHANGED <<stage, attempts, acpid, acpiState, missed>>

AcChanges ==
    /\ Hardware
    /\ ac # "no_ac"
    /\ ac' \in AcStates \ {"no_ac", ac}
    /\ Announce(Line("ac", ac'))
    /\ quiet' = FALSE
    /\ lid' = lid

LidChanges ==
    /\ Hardware
    /\ lid \in {"open", "closed"}
    /\ lid' \in {"open", "closed"} \ {lid}
    /\ \E said \in {lid', "unknown"} : Announce(Line("lid", said))
    /\ UNCHANGED <<ac, quiet>>

OtherLine ==
    /\ Hardware
    /\ \E line \in Lines : line.class \in {"button", "ignored"} /\ Announce(line)
    /\ UNCHANGED <<ac, lid, quiet>>

SlotChange == Connected /\ \E i \in Slots : SlotChanges(i) /\ UNCHANGED acpiVars

(* acpid stops: what it wrote can still be read, nothing follows.          *)
AcpidStops ==
    /\ Connected
    /\ acpid = "up"
    /\ acpid' = "gone"
    /\ UNCHANGED <<batteryVars, lid, stage, attempts, lines, acpiState, missed>>

AcpiInit ==
    /\ BatteryInit
    /\ lid \in LidStates
    /\ stage = "connect"
    /\ attempts = 0
    /\ acpid = "up"
    /\ lines = <<>>
    /\ value = [ac |-> "on_ac", lid |-> "open"]
    /\ xsAc = None
    /\ xsLid = None
    /\ xsBcl = None
    /\ event = None
    /\ missed = {}
=============================================================================
