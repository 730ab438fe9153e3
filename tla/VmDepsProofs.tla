---------------------------- MODULE VmDepsProofs ----------------------------
(***************************************************************************)
(* Proofs about VmDeps for every set of VMs and every dependency relation, *)
(* cyclic ones included, and with VMs changing state at any moment.        *)
(***************************************************************************)
EXTENDS VmDeps, TLAPS

(***************************************************************************)
(* Every step of the handler and of its environment preserves the type     *)
(* invariant.                                                              *)
(***************************************************************************)
LEMMA TypeStep == ASSUME TypeOK, [Next]_vars PROVE TypeOK'
<1> USE VmAssumption DEF TypeOK, outside, call, lists
<1>1. ASSUME NEW v \in Vms, NEW vpn \in BOOLEAN, Call(v, vpn) PROVE TypeOK'
  BY <1>1 DEF Call, Enter
<1>2. CASE CallSweep
  BY <1>2 DEF CallSweep
<1>3. ASSUME NEW v \in Vms, SweepVm(v) PROVE TypeOK'
  BY <1>3, Zenon DEF SweepVm, Enter
<1>4. ASSUME NEW v \in Vms, Snapshot(v) PROVE TypeOK'
  BY <1>4 DEF Snapshot
<1>5. ASSUME NEW v \in Vms, Gather(v) PROVE TypeOK'
  BY <1>5 DEF Gather, new_dependencies
<1>6. ASSUME NEW v \in Vms, MoveDependencies(v) PROVE TypeOK'
  BY <1>6 DEF MoveDependencies
<1>7. ASSUME NEW v \in Vms, Shutdown(v) PROVE TypeOK'
  BY <1>7 DEF Shutdown
<1>8. CASE NothingToDo \/ ShutdownDone
  BY <1>8, Zenon DEF NothingToDo, ShutdownDone, Leave
<1>9. CASE BuildSafeList
  BY <1>9 DEF BuildSafeList
<1>10. CASE ClosureDone \/ Return
  BY <1>10 DEF ClosureDone, Return
<1>11. ASSUME NEW v \in Vms, HandleRequest(v) \/ VmChanges(v) PROVE TypeOK'
  BY <1>11 DEF HandleRequest, VmChanges
<1>12. CASE UNCHANGED vars
  BY <1>12 DEF vars
<1> QED BY <1>1, <1>2, <1>3, <1>4, <1>5, <1>6, <1>7, <1>8, <1>9, <1>10,
           <1>11, <1>12 DEF Next, Step

(***************************************************************************)
(* The loop invariant of the closure loop is preserved.  The round on s    *)
(* takes everything s needs out of jeopardy, so s may join `visited'; what *)
(* it takes out joins the safe list and is visited in turn.                *)
(***************************************************************************)
LEMMA ClosureStep == ASSUME VmDepsInv, [Next]_vars PROVE VmDepsInv'
<1> USE DEF VmDepsInv
<1>0. TypeOK'
  BY TypeStep
<1> SUFFICES /\ ClosureInv'
             /\ pc' \in {"snapshot", "gather"} => asked' = {}
  BY <1>0
<1> USE DEF outside, call, lists, ClosureInv, doomed
<1>1. ASSUME NEW v \in Vms, NEW vpn \in BOOLEAN, Call(v, vpn)
      PROVE  ClosureInv' /\ asked' = {}
  BY <1>1 DEF Call, Enter
<1>2. CASE CallSweep
  BY <1>2 DEF CallSweep
<1>3. ASSUME NEW v \in Vms, SweepVm(v)
      PROVE  ClosureInv' /\ (pc' \in {"snapshot", "gather"} => asked' = {})
  BY <1>3 DEF SweepVm, Enter
<1>4. ASSUME NEW v \in Vms, Snapshot(v) PROVE ClosureInv' /\ asked' = {}
  BY <1>4 DEF Snapshot
<1>5. ASSUME NEW v \in Vms, Gather(v) PROVE ClosureInv' /\ asked' = {}
  BY <1>5 DEF Gather
<1>6. ASSUME NEW s \in Vms, MoveDependencies(s)
      PROVE  ClosureInv' /\ pc' = "closure"
  <2>1. /\ pc = "closure" /\ pc' = "closure"
        /\ jeopardy' = jeopardy \ deps[s]
        /\ safe' = safe \cup (jeopardy \cap deps[s])
        /\ visited' = visited \cup {s}
        /\ asked = {} /\ asked' = {}
        /\ live' = live /\ root' = root /\ deps' = deps
    BY <1>6 DEF MoveDependencies
  <2>2. live' \subseteq {root'} \cup safe' \cup doomed'
    BY <2>1
  <2>3. \A v \in visited' : deps'[v] \cap doomed' = {}
    BY <2>1
  <2> QED BY <2>1, <2>2, <2>3
<1>7. ASSUME NEW v \in Vms, Shutdown(v) PROVE ClosureInv' /\ pc' = "shutdown"
  <2>1. /\ pc = "shutdown" /\ pc' = "shutdown" /\ doomed' = doomed
        /\ live' = live /\ root' = root /\ deps' = deps
        /\ safe' = safe /\ visited' = visited
    BY <1>7 DEF Shutdown
  <2> QED BY <2>1
<1>8. CASE NothingToDo \/ ShutdownDone
  BY <1>8 DEF NothingToDo, ShutdownDone, Leave
<1>9. CASE BuildSafeList
  BY <1>9 DEF BuildSafeList, TypeOK
<1>10. CASE ClosureDone \/ Return
  BY <1>10 DEF ClosureDone, Return
<1>11. ASSUME NEW v \in Vms, HandleRequest(v) \/ VmChanges(v)
       PROVE  ClosureInv' /\ (pc' \in {"snapshot", "gather"} => asked' = {})
  BY <1>11 DEF HandleRequest, VmChanges
<1>12. CASE UNCHANGED vars
  BY <1>12 DEF vars
<1> QED BY <1>1, <1>2, <1>3, <1>4, <1>5, <1>6, <1>7, <1>8, <1>9, <1>10,
           <1>11, <1>12 DEF Next, Step

(***************************************************************************)
(* The loop invariant holds in every reachable state.                      *)
(***************************************************************************)
THEOREM LoopInvariant == Spec => []VmDepsInv
<1>1. Init => VmDepsInv
  BY VmAssumption, Zenon DEF Init, VmDepsInv, TypeOK, ClosureInv
<1>2. VmDepsInv /\ [Next]_vars => VmDepsInv'
  BY ClosureStep
<1> QED BY <1>1, <1>2, PTL DEF Spec

(***************************************************************************)
(* No running VM is left behind that needs a VM which is shut down: for    *)
(* every set of VMs, dependency relation, type filter and interleaving     *)
(* with the VMs' own changes, in the snapshot the handler decided on.      *)
(***************************************************************************)
THEOREM NobodyLeftBehind == Spec => []NoDependentLeftBehind
<1>1. VmDepsInv => NoDependentLeftBehind
  BY DEF VmDepsInv, ClosureInv, NoDependentLeftBehind
<1> QED BY <1>1, LoopInvariant, PTL
-----------------------------------------------------------------------------
(* What is shut down, exactly.                                             *)

(***************************************************************************)
(* What the root needs holds what it needs directly, is closed under the   *)
(* needs of running VMs, and is the least such set.                        *)
(***************************************************************************)
LEMMA NeededIsCone ==
    ASSUME TypeOK
    PROVE  /\ Needed \in SUBSET Vms
           /\ deps[root] \subseteq Needed
           /\ \A v \in Needed \cap live : deps[v] \subseteq Needed
           /\ \A S \in SUBSET Vms :
                 /\ deps[root] \subseteq S
                 /\ \A u \in S \cap live : deps[u] \subseteq S
                 => Needed \subseteq S
<1> DEFINE Closed(S) == /\ deps[root] \subseteq S
                        /\ \A u \in S : (IF u \in live THEN deps[u] ELSE {}) \subseteq S
<1>1. Needed = {v \in Vms : \A S \in SUBSET Vms : Closed(S) => v \in S}
  BY DEF Needed, Cone
<1>2. deps[root] \subseteq Vms /\ \A v \in live : deps[v] \subseteq Vms
  BY DEF TypeOK
<1>3. \A S : Closed(S) <=> /\ deps[root] \subseteq S
                           /\ \A u \in S \cap live : deps[u] \subseteq S
  OBVIOUS
<1> HIDE DEF Closed
<1>4. deps[root] \subseteq Needed
  BY <1>1, <1>2, <1>3
<1>5. ASSUME NEW v \in Needed \cap live PROVE deps[v] \subseteq Needed
  BY <1>1, <1>2, <1>3
<1> QED BY <1>1, <1>3, <1>4, <1>5

(***************************************************************************)
(* The same of what the VMs that stay need, among what the root needs.     *)
(***************************************************************************)
LEMMA StillNeededIsCone ==
    ASSUME TypeOK
    PROVE  /\ Kept \subseteq StillNeeded
           /\ \A v \in StillNeeded : deps[v] \cap Needed \subseteq StillNeeded
           /\ \A S \in SUBSET Vms :
                 Kept \subseteq S /\ (\A u \in S : deps[u] \cap Needed \subseteq S)
                 => StillNeeded \subseteq S
<1> DEFINE Closed(S) == Kept \subseteq S /\ \A u \in S : deps[u] \cap Needed \subseteq S
<1>1. StillNeeded = {v \in Vms : \A S \in SUBSET Vms : Closed(S) => v \in S}
  BY DEF StillNeeded, Cone
<1>2. Kept \subseteq Vms /\ Needed \subseteq Vms
  BY NeededIsCone DEF TypeOK, Kept
<1>3. \A S : Closed(S) <=> Kept \subseteq S /\ \A u \in S : deps[u] \cap Needed \subseteq S
  OBVIOUS
<1> HIDE DEF Closed
<1>4. Kept \subseteq StillNeeded
  BY <1>1, <1>2, <1>3
<1>5. ASSUME NEW v \in StillNeeded PROVE deps[v] \cap Needed \subseteq StillNeeded
  BY <1>1, <1>2, <1>3
<1> QED BY <1>1, <1>3, <1>4, <1>5

(***************************************************************************)
(* Both depend only on the graph, the root, the snapshot and the filter.   *)
(***************************************************************************)
LEMMA SameCones ==
    ASSUME UNCHANGED <<deps, root, live, only_vpn>>
    PROVE  UNCHANGED <<Needed, Wanted, Kept, StillNeeded>>
<1>1. Needed' = Needed
  BY DEF Needed, Cone
<1>2. Wanted' = Wanted
  BY <1>1 DEF Wanted, wrong_type
<1>3. Kept' = Kept
  BY <1>2 DEF Kept
<1>4. StillNeeded' = StillNeeded
  BY <1>1, <1>3 DEF StillNeeded, Cone
<1> QED BY <1>1, <1>2, <1>3, <1>4

(***************************************************************************)
(* Each loop keeps its invariant and hands over what the next one needs:   *)
(* when nothing is pending the jeopardy list is what the root needs, and   *)
(* when all of the safe list was visited it is what is still needed.       *)
(***************************************************************************)
LEMMA ExactStep ==
    ASSUME VmDepsInv, ExactInv, [Next]_vars PROVE ExactInv'
<1> USE DEF outside, call, lists
<1>0. TypeOK /\ TypeOK'
  BY TypeStep DEF VmDepsInv
<1>1. ASSUME NEW v \in Vms, NEW vpn \in BOOLEAN, Call(v, vpn) PROVE ExactInv'
  BY <1>1 DEF Call, Enter, ExactInv, ShutdownSetIsExact
<1>2. CASE CallSweep
  BY <1>2 DEF CallSweep, ExactInv, ShutdownSetIsExact
<1>3. ASSUME NEW v \in Vms, SweepVm(v) PROVE ExactInv'
  BY <1>3 DEF SweepVm, Enter, ExactInv, ShutdownSetIsExact
<1>4. ASSUME NEW v \in Vms, Snapshot(v) PROVE ExactInv'
  <2>1. CASE unread' = {}
    <3>1. pc' = "gather" /\ jeopardy' = {} /\ pending' = {root'}
      BY <1>4, <2>1 DEF Snapshot, ExactInv
    <3> QED BY <3>1 DEF ExactInv, ShutdownSetIsExact, GatherInv
  <2>2. CASE unread' # {}
    BY <1>4, <2>2 DEF Snapshot, ExactInv, ShutdownSetIsExact
  <2> QED BY <2>1, <2>2
<1>5. ASSUME NEW v \in Vms, Gather(v) PROVE ExactInv'
  <2>1. /\ pc = "gather" /\ pc' = "gather" /\ GatherInv
        /\ UNCHANGED <<deps, root, live, only_vpn>>
        /\ v \in pending
        /\ jeopardy' = jeopardy \cup new_dependencies(v)
        /\ pending' = (pending \ {v}) \cup new_dependencies(v)
    BY <1>5 DEF Gather, ExactInv
  <2>2. Needed' = Needed
    BY <2>1, SameCones
  <2>3. new_dependencies(v) \subseteq Needed
    BY <1>0, <2>1, NeededIsCone DEF GatherInv, new_dependencies
  <2>4. v \in live \cup {root} => deps[v] \subseteq jeopardy'
    BY <2>1 DEF new_dependencies
  <2>5. \A u \in ({root'} \cup (jeopardy' \cap live')) \ pending' : deps'[u] \subseteq jeopardy'
    BY <2>1, <2>4 DEF GatherInv
  <2>6. GatherInv'
    BY <2>1, <2>2, <2>3, <2>5 DEF GatherInv
  <2> QED BY <2>1, <2>6 DEF ExactInv, ShutdownSetIsExact
<1>6. ASSUME NEW s \in Vms, MoveDependencies(s) PROVE ExactInv'
  <2>1. /\ pc = "closure" /\ pc' = "closure" /\ SafeInv
        /\ UNCHANGED <<deps, root, live, only_vpn>>
        /\ s \in safe
        /\ jeopardy' = jeopardy \ deps[s]
        /\ safe' = safe \cup (jeopardy \cap deps[s])
    BY <1>6 DEF MoveDependencies, ExactInv
  <2>2. UNCHANGED <<Needed, Wanted, Kept, StillNeeded>>
    BY <2>1, SameCones
  <2>3. Wanted \subseteq Needed
    BY DEF Wanted
  <2>4. jeopardy \cap deps[s] \subseteq StillNeeded
    BY <1>0, <2>1, <2>3, StillNeededIsCone DEF SafeInv
  <2>5. SafeInv'
    BY <2>1, <2>2, <2>4 DEF SafeInv
  <2> QED BY <2>1, <2>5 DEF ExactInv, ShutdownSetIsExact
<1>7. ASSUME NEW v \in Vms, Shutdown(v) PROVE ExactInv'
  <2>1. /\ pc = "shutdown" /\ pc' = "shutdown" /\ doomed' = doomed
        /\ UNCHANGED <<deps, root, live, only_vpn>>
    BY <1>7 DEF Shutdown, doomed
  <2> QED BY <2>1, SameCones DEF ExactInv, ShutdownSetIsExact
<1>8. CASE NothingToDo \/ ShutdownDone
  BY <1>8 DEF NothingToDo, ShutdownDone, Leave, ExactInv, ShutdownSetIsExact
<1>9. CASE BuildSafeList
  <2>1. /\ pc = "gather" /\ pc' = "closure" /\ GatherInv /\ pending = {}
        /\ UNCHANGED <<deps, root, live, only_vpn>>
        /\ jeopardy' = {v \in jeopardy : ~(v \in live \ {root} /\ wrong_type(v))}
        /\ safe' = (live \ {root}) \ jeopardy'
    BY <1>9 DEF BuildSafeList, ExactInv
  <2>2. UNCHANGED <<Needed, Wanted, Kept, StillNeeded>>
    BY <2>1, SameCones
  <2>3. /\ jeopardy \in SUBSET Vms
        /\ deps[root] \subseteq jeopardy
        /\ \A u \in jeopardy \cap live : deps[u] \subseteq jeopardy
    BY <1>0, <2>1 DEF GatherInv, TypeOK
  <2>4. jeopardy = Needed
    BY <1>0, <2>1, <2>3, NeededIsCone, Zenon DEF GatherInv
  <2>5. jeopardy' = Wanted /\ safe' = Kept
    BY <2>1, <2>4 DEF Wanted, Kept
  <2>6. Kept \subseteq StillNeeded /\ Wanted \cap Kept = {}
    BY <1>0, StillNeededIsCone DEF Kept
  <2>7. SafeInv'
    BY <2>2, <2>5, <2>6 DEF SafeInv
  <2> QED BY <2>1, <2>7 DEF ExactInv, ShutdownSetIsExact
<1>10. CASE ClosureDone
  <2>1. /\ pc = "closure" /\ pc' = "shutdown" /\ SafeInv /\ safe \subseteq visited
        /\ UNCHANGED <<deps, root, live, only_vpn>>
        /\ doomed = jeopardy /\ doomed' = jeopardy
        /\ \A v \in visited : deps[v] \cap jeopardy = {}
    BY <1>10 DEF ClosureDone, ExactInv, VmDepsInv, ClosureInv, doomed
  <2>2. UNCHANGED <<Needed, Wanted, Kept, StillNeeded>>
    BY <2>1, SameCones
  <2>3. Needed \subseteq jeopardy \cup safe
    <3>1. Needed \ Wanted \subseteq Kept
      BY DEF Wanted, Kept
    <3> QED BY <2>1, <3>1 DEF SafeInv
  <2>4. \A u \in safe : deps[u] \cap Needed \subseteq safe
    BY <2>1, <2>3
  <2>5. safe \in SUBSET Vms
    BY <1>0 DEF TypeOK
  <2>6. StillNeeded = safe
    BY <1>0, <2>1, <2>4, <2>5, StillNeededIsCone, Zenon DEF SafeInv
  <2>7. jeopardy = Wanted \ StillNeeded
    BY <2>1, <2>6 DEF SafeInv
  <2> QED BY <2>1, <2>2, <2>7 DEF ExactInv, ShutdownSetIsExact
<1>11. CASE Return
  BY <1>11 DEF Return, ExactInv, ShutdownSetIsExact
<1>12. CASE (\E v \in Vms : HandleRequest(v) \/ VmChanges(v)) \/ UNCHANGED vars
  <2>1. UNCHANGED <<deps, root, live, only_vpn, pc, pending, jeopardy, safe, asked>>
    BY <1>12 DEF HandleRequest, VmChanges, vars
  <2>2. UNCHANGED <<Needed, Wanted, Kept, StillNeeded>>
    BY <2>1, SameCones
  <2> QED BY <2>1, <2>2 DEF ExactInv, ShutdownSetIsExact, GatherInv, SafeInv, doomed
<1> QED BY <1>1, <1>2, <1>3, <1>4, <1>5, <1>6, <1>7, <1>8, <1>9, <1>10,
           <1>11, <1>12 DEF Next, Step

(***************************************************************************)
(* The one loop maps the whole cone: for every set of VMs and every        *)
(* dependency relation, what shutdown_dependencies_of_vm() asks to stop is *)
(* what the root needs of the wanted type, less what the VMs that stay     *)
(* need, no more and no less.                                              *)
(***************************************************************************)
THEOREM ShutdownSetExact == Spec => []ShutdownSetIsExact
<1>1. Init => ExactInv
  BY DEF Init, ExactInv, ShutdownSetIsExact
<1>2. VmDepsInv /\ ExactInv /\ [Next]_vars => ExactInv'
  BY ExactStep
<1>3. ExactInv => ShutdownSetIsExact
  BY DEF ExactInv
<1> QED BY <1>1, <1>2, <1>3, LoopInvariant, PTL DEF Spec
=============================================================================
