------------------------------ MODULE MCVmDeps ------------------------------
(***************************************************************************)
(* Three VMs: with every irreflexive dependency relation between them,     *)
(* cycles included, while they stand still; and with a cyclic relation     *)
(* while they change state at any moment.                                  *)
(***************************************************************************)
EXTENDS VmDeps, TLC

CONSTANTS a, b, c

MCVms == {a, b, c}
AllGraphs == {g \in [MCVms -> SUBSET MCVms] : \A v \in MCVms : v \notin g[v]}

\* A user VM needs a network VM, and it and a VPN VM need one another.
CyclicGraph == {(a :> {b, c} @@ b :> {} @@ c :> {a})}
=============================================================================
