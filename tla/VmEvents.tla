------------------------------ MODULE VmEvents ------------------------------
(***************************************************************************)
(* How xcpmd knows VMs: the identifier table of vm-utils.c, the events of  *)
(* vm-events-module.c that look VMs up in it, and the actions of           *)
(* vm-actions-module.c that act on one VM.  The table is filled over       *)
(* D-Bus, one name at a time, while xenmgr goes on creating, renaming and  *)
(* deleting VMs.  Actions fill it afresh; signals and conditions use the   *)
(* table there is, whatever its age.                                       *)
(*                                                                         *)
(* A uuid is the text of a path with other separators; both are members    *)
(* of Paths here.                                                          *)
(***************************************************************************)
EXTENDS Naturals, FiniteSets, Sequences, SequencesExt

CONSTANTS
    Paths,        \* VM paths, and the uuids in them
    Names,        \* VM names
    Rules,        \* rules: the event, whom the condition names, whom the action names
    MaxVmChanges, \* how often VMs are created, renamed or deleted
    MaxMail       \* signals that wait to be dispatched

By == {[by |-> "uuid", whom |-> p] : p \in Paths} \cup {[by |-> "name", whom |-> n] : n \in Names}
Anyone == [by |-> "any", whom |-> "any"]
VmStates == {"creating", "stopping", "rebooting", "running", "stopped", "paused"}

ASSUME VmEventsAssumption ==
    /\ {MaxVmChanges, MaxMail} \subseteq Nat
    /\ \A r \in Rules : r.when \in VmStates /\ r.cond \in By \cup {Anyone} /\ r.act \in By

NoVm == "no vm"
NoTable == [filled |-> FALSE, rows |-> <<>>]
Table(rows) == [filled |-> TRUE, rows |-> rows]
Idle == [kind |-> "idle"]

VARIABLES
    vms,          \* xenmgr: the name of each VM
    answers,      \* xenmgr answers list_vms
    vmChanges,    \* how many changes are left
    mail,         \* vm_state_changed signals not yet dispatched
    table,        \* vm_identifier_table
    filling,      \* populate_vm_identifier_table() is under way: rows so far, paths to come
    job,          \* the signal being delivered, or the action being carried out
    todo,         \* actions of the rules that the signal made true
    calls,        \* the method calls sent for the last action
    broken,       \* the process followed an uninitialised pointer
    held,         \* history: names that held at some time since the job began
    tabled,       \* history: names that held at some time since the table was begun
    settled       \* history: VMs that were there ever since the table was begun

xenmgr == <<vms, answers, vmChanges, mail>>
finding == <<table, filling, job, todo, calls, broken>>
vmVars == <<xenmgr, finding, held, tabled, settled>>

Live == {p \in Paths : vms[p] # NoVm}
NameOf == {<<p, vms[p]>> : p \in Live}
NotFilling == [on |-> FALSE, rows |-> <<>>, left |-> {}]
Row(p, n) == [path |-> p, name |-> n]

-----------------------------------------------------------------------------
(* vm-utils.c: the table                                                   *)

(* new_vmid_search_result_by_name() and _by_uuid(): the first row wins.    *)
SearchIn(rows, whom) ==
    LET hit(k) == CASE whom.by = "name" -> rows[k].name = whom.whom
                    [] whom.by = "uuid" -> rows[k].path = whom.whom
                    [] whom.by = "any" -> TRUE
        hits == {k \in DOMAIN rows : hit(k)}
    IN IF hits = {} THEN NoVm ELSE rows[Min(hits)].path

Search(whom) == SearchIn(table.rows, whom)

(* populate_vm_identifier_table() begins: list_vms.  If the call fails the *)
(* list is an uninitialised pointer, which is followed unless it is NULL.  *)
StartFilling ==
    IF answers
    THEN /\ filling' = [on |-> TRUE, rows |-> <<>>, left |-> Live]
         /\ broken' = broken
         /\ table' = table
    ELSE /\ broken' \in BOOLEAN
         /\ filling' = NotFilling
         /\ table' = NoTable

Named(p) == [filling EXCEPT !.rows = Append(@, Row(p, vms[p])), !.left = @ \ {p}]

\* Mutant: when a name is missing the rows so far are kept as the table.
ReadName_MutPartialTable ==
    /\ ~broken
    /\ filling.on
    /\ \E p \in filling.left :
         IF p \in Live
         THEN filling' = Named(p) /\ table' = table
         ELSE filling' = NotFilling /\ table' = Table(filling.rows)
    /\ UNCHANGED <<xenmgr, job, todo, calls, broken, held, tabled, settled>>

(* new_vm_identifier_table() asks for the name of one VM; when there is no *)
(* answer the whole table is given up.                                     *)
ReadName ==
    /\ ~broken
    /\ filling.on
    /\ \E p \in filling.left :
         IF p \in Live
         THEN filling' = Named(p) /\ table' = table
         ELSE filling' = NotFilling /\ table' = NoTable
    /\ UNCHANGED <<xenmgr, job, todo, calls, broken, held, tabled, settled>>

TableDone ==
    /\ ~broken
    /\ filling.on
    /\ filling.left = {}
    /\ table' = Table(filling.rows)
    /\ filling' = NotFilling
    /\ UNCHANGED <<xenmgr, job, todo, calls, broken, held, tabled, settled>>

BeginTable ==
    /\ StartFilling
    /\ tabled' = NameOf
    /\ settled' = Live

-----------------------------------------------------------------------------
(* vm-events-module.c: signals                                             *)

Ready == ~broken /\ ~filling.on

(* vm_state_changed(): of the repeated creating and stopping signals only  *)
(* those with the ACPI state meant for it count.                           *)
EventOf(m) ==
    IF (m.state = "creating" /\ m.acpi # 5) \/ (m.state = "stopping" /\ m.acpi # 0)
    THEN "none" ELSE m.state

Receive ==
    /\ Ready
    /\ job = Idle
    /\ todo = <<>>
    /\ mail # <<>>
    /\ mail' = Tail(mail)
    /\ held' = NameOf
    /\ calls' = {}
    /\ IF EventOf(Head(mail)) = "none"
       THEN UNCHANGED <<table, filling, job, broken, tabled, settled>>
       ELSE /\ job' = [kind |-> "signal", event |-> Head(mail).state, vm |-> Head(mail).vm]
            /\ IF table = NoTable
               THEN BeginTable
               ELSE UNCHANGED <<table, filling, broken, tabled, settled>>
    /\ UNCHANGED <<vms, answers, vmChanges, todo>>

(* The condition checkers, one of each kind for every state.               *)
any_vm(cond) == cond.by = "any"
vm_with_uuid(cond, path) == cond.by = "uuid" /\ Search(cond) = path
vm_with_name(cond, path) == cond.by = "name" /\ Search(cond) = path

Holds(cond, path) == any_vm(cond) \/ vm_with_uuid(cond, path) \/ vm_with_name(cond, path)

Fired(event, path) == {r \in Rules : r.when = event /\ Holds(r.cond, path)}

Found(s) == Search([by |-> "uuid", whom |-> s.vm]) # NoVm

Deliver ==
    /\ Ready
    /\ job.kind = "signal"
    /\ todo' = IF Found(job) THEN SetToSeq({r.act : r \in Fired(job.event, job.vm)}) ELSE <<>>
    /\ job' = Idle
    /\ UNCHANGED <<xenmgr, table, filling, calls, broken, held, tabled, settled>>

-----------------------------------------------------------------------------
(* vm-actions-module.c: sleepVm, shutdownVmUuid and their siblings         *)

\* Mutant: the action searches the table there is.
StartAction_MutOldTable(whom) ==
    /\ job' = [kind |-> "action", whom |-> whom, again |-> TRUE]
    /\ held' = NameOf
    /\ calls' = {}
    /\ UNCHANGED <<table, filling, broken, tabled, settled>>

(* The action fills the table, whatever is in it.                          *)
StartAction(whom) ==
    /\ job' = [kind |-> "action", whom |-> whom, again |-> TRUE]
    /\ held' = NameOf
    /\ calls' = {}
    /\ BeginTable

NextAction ==
    /\ Ready
    /\ job = Idle
    /\ todo # <<>>
    /\ StartAction(Head(todo))
    /\ todo' = Tail(todo)
    /\ UNCHANGED xenmgr

(* An action of a rule on some other event.                                *)
OtherRule ==
    /\ Ready
    /\ job = Idle
    /\ todo = <<>>
    /\ \E whom \in By : StartAction(whom)
    /\ UNCHANGED <<xenmgr, todo>>

(* The search fills the table once more if the first attempt left none.    *)
FillAgain ==
    /\ Ready
    /\ job.kind = "action"
    /\ job.again
    /\ table = NoTable
    /\ job' = [job EXCEPT !.again = FALSE]
    /\ BeginTable
    /\ UNCHANGED <<xenmgr, todo, calls, held>>

SendCall ==
    /\ Ready
    /\ job.kind = "action"
    /\ table # NoTable \/ ~job.again
    /\ calls' = {[whom |-> job.whom, path |-> p] : p \in {Search(job.whom)} \ {NoVm}}
    /\ job' = Idle
    /\ UNCHANGED <<xenmgr, table, filling, todo, broken, held, tabled, settled>>

-----------------------------------------------------------------------------
(* xenmgr                                                                  *)

VmChanges ==
    /\ vmChanges > 0
    /\ vmChanges' = vmChanges - 1
    /\ \E p \in Paths, n \in Names \cup {NoVm} : n # vms[p] /\ vms' = [vms EXCEPT ![p] = n]
    /\ held' = held \cup {<<p, vms'[p]>> : p \in {q \in Paths : vms'[q] # NoVm}}
    /\ tabled' = tabled \cup {<<p, vms'[p]>> : p \in {q \in Paths : vms'[q] # NoVm}}
    /\ settled' = settled \cap {q \in Paths : vms'[q] # NoVm}
    /\ UNCHANGED <<answers, mail, finding>>

XenmgrSignals ==
    /\ Len(mail) < MaxMail
    /\ vmChanges > 0
    /\ vmChanges' = vmChanges - 1
    /\ \E p \in Live, s \in {r.when : r \in Rules}, a \in {0, 5} :
         mail' = Append(mail, [vm |-> p, state |-> s, acpi |-> a])
    /\ UNCHANGED <<vms, answers, finding, held, tabled, settled>>

XenmgrFails ==
    /\ vmChanges > 0
    /\ vmChanges' = vmChanges - 1
    /\ answers' = ~answers
    /\ UNCHANGED <<vms, mail, finding, held, tabled, settled>>

VmInit ==
    /\ vms \in [Paths -> Names \cup {NoVm}]
    /\ answers = TRUE
    /\ vmChanges = MaxVmChanges
    /\ mail = <<>>
    /\ table = NoTable
    /\ filling = NotFilling
    /\ job = Idle
    /\ todo = <<>>
    /\ calls = {}
    /\ broken = FALSE
    /\ held = {}
    /\ tabled = {}
    /\ settled = {}
=============================================================================
