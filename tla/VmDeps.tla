------------------------------- MODULE VmDeps -------------------------------
(***************************************************************************)
(* shutdown_dependencies_of_vm() of xcpmd's vm-actions-module.c and its    *)
(* callers: shut down what a VM depends on, unless another VM still needs  *)
(* it.  The handler reads the state of every VM over D-Bus, one VM at a    *)
(* time, while xenmgr and the VMs go on changing it; it then works on that *)
(* snapshot alone and sends asynchronous shutdown requests.                *)
(*                                                                         *)
(* The lists of the code are sets here: no result depends on their order.  *)
(***************************************************************************)
EXTENDS Naturals

CONSTANTS
    Vms,          \* VM paths; the identifier table lists them all
    VpnVms,       \* the VMs of type "vpnvm"
    Graphs,       \* the dependency relations considered
    Restless      \* those in which VMs change state while the handler runs

ASSUME VmAssumption ==
    /\ Graphs \subseteq [Vms -> SUBSET Vms]
    /\ VpnVms \subseteq Vms
    /\ Restless \subseteq Graphs

VARIABLES
    running,      \* the VMs that are neither stopping nor stopped
    deps,         \* xenmgr's dependency property; fixed
    requests,     \* shutdown requests on their way to xenmgr
    pc,           \* where the handler is
    sweep,        \* VMs shutdown_vpnvm_dependencies() has still to look at
    root,         \* vm_path
    only_vpn,     \* vm_type is "vpnvm" rather than NULL
    unread,       \* VMs not yet in the snapshot
    live,         \* the VMs whose vm_state in the snapshot is neither
    pending,      \* VMs whose dependencies are still to be gathered
    jeopardy,     \* the jeopardy list
    safe,         \* the safe list
    visited,      \* the part of the safe list the closure loop is done with
    asked         \* VMs this call has sent a shutdown request to

outside == <<running, deps, requests>>
call == <<root, only_vpn, unread, live>>
lists == <<pending, jeopardy, safe, visited, asked>>
vars == <<outside, pc, sweep, call, lists>>

TypeOK ==
    /\ running \in SUBSET Vms
    /\ deps \in [Vms -> SUBSET Vms]
    /\ requests \in SUBSET Vms
    /\ pc \in {"idle", "sweep", "snapshot", "gather", "closure", "shutdown"}
    /\ sweep \in SUBSET Vms
    /\ root \in Vms
    /\ only_vpn \in BOOLEAN
    /\ unread \in SUBSET Vms
    /\ live \in SUBSET Vms
    /\ pending \in SUBSET Vms
    /\ jeopardy \in SUBSET Vms
    /\ safe \in SUBSET Vms
    /\ visited \in SUBSET Vms
    /\ asked \in SUBSET Vms

Init ==
    /\ running \in SUBSET Vms
    /\ deps \in Graphs
    /\ requests = {}
    /\ pc = "idle"
    /\ sweep = {}
    /\ root \in Vms
    /\ only_vpn = FALSE
    /\ unread = {}
    /\ live = {}
    /\ pending = {}
    /\ jeopardy = {}
    /\ safe = {}
    /\ visited = {}
    /\ asked = {}

-----------------------------------------------------------------------------
(* The callers                                                             *)

(***************************************************************************)
(* Entry to shutdown_dependencies_of_vm(): a fresh identifier table, empty *)
(* lists.                                                                  *)
(***************************************************************************)
Enter(v, vpn) ==
    /\ root' = v
    /\ only_vpn' = vpn
    /\ unread' = Vms
    /\ pending' = {}
    /\ jeopardy' = {}
    /\ safe' = {}
    /\ visited' = {}
    /\ asked' = {}
    /\ live' = {}
    /\ pc' = "snapshot"

(***************************************************************************)
(* The actions shutdown[Vpn]DependenciesOfVm, by name or by uuid.          *)
(***************************************************************************)
Call(v, vpn) ==
    /\ pc = "idle"
    /\ Enter(v, vpn)
    /\ UNCHANGED <<outside, sweep>>

(***************************************************************************)
(* shutdown_vpnvm_dependencies(): for every VM of the table, read its      *)
(* state, and call shutdown_dependencies_of_vm() if it stops or is         *)
(* stopped.                                                                *)
(***************************************************************************)
CallSweep ==
    /\ pc = "idle"
    /\ pc' = "sweep"
    /\ sweep' = Vms
    /\ UNCHANGED <<outside, call, lists>>

SweepVm(v) ==
    /\ pc = "sweep"
    /\ v \in sweep
    /\ sweep' = sweep \ {v}
    /\ IF v \in running THEN UNCHANGED <<pc, call, lists>> ELSE Enter(v, TRUE)
    /\ UNCHANGED outside

Return ==
    /\ pc = "sweep"
    /\ sweep = {}
    /\ pc' = "idle"
    /\ UNCHANGED <<outside, sweep, call, lists>>

-----------------------------------------------------------------------------
(* shutdown_dependencies_of_vm()                                           *)

(***************************************************************************)
(* Return to the caller; the lists and the snapshot are freed.             *)
(***************************************************************************)
Leave ==
    /\ pc' = "sweep"
    /\ only_vpn' = FALSE
    /\ live' = {}
    /\ pending' = {}
    /\ jeopardy' = {}
    /\ safe' = {}
    /\ visited' = {}
    /\ asked' = {}
    /\ UNCHANGED <<outside, sweep, root, unread>>

(***************************************************************************)
(* One round of the loop that caches the state of every VM.  The last one  *)
(* goes on to gather_dependencies(vm_path).                                *)
(***************************************************************************)
Snapshot(v) ==
    /\ pc = "snapshot"
    /\ v \in unread
    /\ live' = live \cup ({v} \cap running)
    /\ unread' = unread \ {v}
    /\ IF unread' = {} THEN pc' = "gather" /\ pending' = {root}
                       ELSE UNCHANGED <<pc, pending>>
    /\ UNCHANGED <<outside, sweep, root, only_vpn, jeopardy, safe, visited, asked>>

\* Mutant: dependencies of dependencies are not followed.
new_dependencies_MutDirectOnly(v) ==
    IF v = root THEN deps[v] \ jeopardy ELSE {}

\* Mutant: a dependency that is already listed is followed again.
new_dependencies_MutRevisit(v) ==
    IF v \in live \cup {root} THEN deps[v] ELSE {}

(***************************************************************************)
(* gather_dependencies(v): the dependencies of v that are not yet on the   *)
(* jeopardy list go on it, and are looked at in turn; a VM other than the  *)
(* root that is stopping or stopped is not followed, but is on the list.   *)
(***************************************************************************)
new_dependencies(v) ==
    IF v \in live \cup {root} THEN deps[v] \ jeopardy ELSE {}

Gather(v) ==
    /\ pc = "gather"
    /\ v \in pending
    /\ jeopardy' = jeopardy \cup new_dependencies(v)
    /\ pending' = (pending \ {v}) \cup new_dependencies(v)
    /\ UNCHANGED <<outside, pc, sweep, call, safe, visited, asked>>

(***************************************************************************)
(* Return early when there is nothing in jeopardy.  Otherwise build the    *)
(* safe list: every VM but the root that runs and is not in jeopardy, or   *)
(* is of the wrong type, which takes it off the jeopardy list.             *)
(***************************************************************************)
wrong_type(v) == only_vpn /\ v \notin VpnVms

NothingToDo ==
    /\ pc = "gather"
    /\ pending = {}
    /\ jeopardy = {}
    /\ Leave

\* Mutant: a VM of the wrong type is on neither list.
BuildSafeList_MutForgotten ==
    LET others == live \ {root}
    IN  /\ pc = "gather"
        /\ pending = {}
        /\ jeopardy # {}
        /\ jeopardy' = {v \in jeopardy : ~(v \in others /\ wrong_type(v))}
        /\ safe' = others \ jeopardy
        /\ visited' = {}
        /\ pc' = "closure"
        /\ UNCHANGED <<outside, sweep, call, pending, asked>>

BuildSafeList ==
    LET others == live \ {root}
        remaining == {v \in jeopardy : ~(v \in others /\ wrong_type(v))}
    IN  /\ pc = "gather"
        /\ pending = {}
        /\ jeopardy # {}
        /\ jeopardy' = remaining
        /\ safe' = others \ remaining
        /\ visited' = {}
        /\ pc' = "closure"
        /\ UNCHANGED <<outside, sweep, call, pending, asked>>

\* Mutant: what a safe VM depends on leaves the jeopardy list, but does not
\* join the safe list.
MoveDependencies_MutDropped(s) ==
    /\ pc = "closure"
    /\ s \in safe \ visited
    /\ jeopardy' = jeopardy \ deps[s]
    /\ visited' = visited \cup {s}
    /\ UNCHANGED <<outside, pc, sweep, call, pending, safe, asked>>

(***************************************************************************)
(* One round of the closure loop: what a safe VM depends on moves to the   *)
(* end of the safe list.                                                   *)
(***************************************************************************)
MoveDependencies(s) ==
    /\ pc = "closure"
    /\ s \in safe \ visited
    /\ jeopardy' = jeopardy \ deps[s]
    /\ safe' = safe \cup (jeopardy \cap deps[s])
    /\ visited' = visited \cup {s}
    /\ UNCHANGED <<outside, pc, sweep, call, pending, asked>>

ClosureDone ==
    /\ pc = "closure"
    /\ safe \subseteq visited
    /\ pc' = "shutdown"
    /\ UNCHANGED <<outside, sweep, call, lists>>

(***************************************************************************)
(* shutdown_vm_async() for one VM left in jeopardy; then return.           *)
(***************************************************************************)
Shutdown(v) ==
    /\ pc = "shutdown"
    /\ v \in jeopardy
    /\ requests' = requests \cup {v}
    /\ asked' = asked \cup {v}
    /\ jeopardy' = jeopardy \ {v}
    /\ UNCHANGED <<running, deps, pc, sweep, call, pending, safe, visited>>

ShutdownDone ==
    /\ pc = "shutdown"
    /\ jeopardy = {}
    /\ Leave

-----------------------------------------------------------------------------
(* xenmgr and the VMs (external): a request makes a running VM stop, and   *)
(* VMs stop and start on their own account.                                *)

HandleRequest(v) ==
    /\ v \in requests
    /\ requests' = requests \ {v}
    /\ running' = running \ {v}
    /\ UNCHANGED <<deps, pc, sweep, call, lists>>

VmChanges(v) ==
    /\ deps \in Restless
    /\ running' = IF v \in running THEN running \ {v} ELSE running \cup {v}
    /\ UNCHANGED <<deps, requests, pc, sweep, call, lists>>

Step ==
    \/ \E v \in Vms : \/ SweepVm(v) \/ Snapshot(v) \/ Gather(v)
                      \/ MoveDependencies(v) \/ Shutdown(v)
    \/ NothingToDo \/ BuildSafeList \/ ClosureDone \/ ShutdownDone \/ Return

Next ==
    \/ \E v \in Vms, vpn \in BOOLEAN : Call(v, vpn)
    \/ CallSweep
    \/ Step
    \/ \E v \in Vms : HandleRequest(v) \/ VmChanges(v)

Spec == Init /\ [][Next]_vars

\* The handler is running code: it does not stop between two steps.
FairSpec == Spec /\ WF_vars(Step)

-----------------------------------------------------------------------------
(* Properties                                                              *)

(***************************************************************************)
(* "... or any VMs that are still depended on by other VMs" (comment above *)
(* shutdown_dependencies_of_vm): no VM, other than the root, that ran when *)
(* it was looked at and is not itself shut down depends on a VM that is.   *)
(***************************************************************************)
doomed == jeopardy \cup asked

NoDependentLeftBehind ==
    pc = "shutdown" =>
        \A v \in live \ ({root} \cup doomed) : deps[v] \cap doomed = {}

(***************************************************************************)
(* The least set of VMs that holds `start' and is closed under `next'.     *)
(***************************************************************************)
Cone(start, next(_)) ==
    {v \in Vms : \A S \in SUBSET Vms :
        start \subseteq S /\ (\A u \in S : next(u) \subseteq S) => v \in S}

(***************************************************************************)
(* What the root needs, directly or through running VMs; what of it the    *)
(* type filter lets through, a stopped VM unseen; the running VMs that are *)
(* to stay; and what those need.                                           *)
(***************************************************************************)
Needed == Cone(deps[root], LAMBDA v : IF v \in live THEN deps[v] ELSE {})

Wanted == {v \in Needed : ~(v \in live \ {root} /\ wrong_type(v))}

Kept == (live \ {root}) \ Wanted

StillNeeded == Cone(Kept, LAMBDA v : deps[v] \cap Needed)

(***************************************************************************)
(* "... allows us to map the entire dependency cone with just one loop":   *)
(* what the loops leave in jeopardy is exactly what the root needs, of the *)
(* wanted type, less what the other running VMs need.                      *)
(***************************************************************************)
ShutdownSetIsExact == pc = "shutdown" => doomed = Wanted \ StillNeeded

(***************************************************************************)
(* Every call returns: the loops over growing and shrinking lists end,     *)
(* cyclic dependencies included.                                           *)
(***************************************************************************)
CallReturns == pc # "idle" ~> pc = "idle"

(***************************************************************************)
(* The loop invariant behind NoDependentLeftBehind: what the closure loop  *)
(* is done with needs nothing in jeopardy, and every running VM but the    *)
(* root is safe or in jeopardy.                                            *)
(***************************************************************************)
ClosureInv ==
    pc \in {"closure", "shutdown"} =>
        /\ live \subseteq {root} \cup safe \cup doomed
        /\ \A v \in visited : deps[v] \cap doomed = {}
        /\ pc = "closure" => asked = {}
        /\ pc = "shutdown" => safe \subseteq visited

VmDepsInv ==
    /\ TypeOK
    /\ ClosureInv
    /\ pc \in {"snapshot", "gather"} => asked = {}

(***************************************************************************)
(* The loop invariants behind ShutdownSetIsExact.  While dependencies are  *)
(* gathered, everything in jeopardy is needed, and what is no longer       *)
(* pending has been followed.  While the safe list is closed, it grows     *)
(* within what is still needed, and nothing wanted is on neither list or   *)
(* on both.                                                                *)
(***************************************************************************)
GatherInv ==
    /\ jeopardy \subseteq Needed
    /\ pending \subseteq {root} \cup jeopardy
    /\ \A v \in ({root} \cup (jeopardy \cap live)) \ pending : deps[v] \subseteq jeopardy

SafeInv ==
    /\ Kept \subseteq safe /\ safe \subseteq StillNeeded
    /\ jeopardy \subseteq Wanted /\ Wanted \subseteq jeopardy \cup safe
    /\ jeopardy \cap safe = {}

ExactInv ==
    /\ pc = "snapshot" => jeopardy = {}
    /\ pc = "gather" => GatherInv
    /\ pc = "closure" => SafeInv
    /\ ShutdownSetIsExact
=============================================================================
