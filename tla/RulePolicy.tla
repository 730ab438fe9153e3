----------------------------- MODULE RulePolicy -----------------------------
(***************************************************************************)
(* What the xcpmd policy engine promises, as the header comment of rules.h *)
(* puts it, without events, conditions or listeners: a rule is listed or   *)
(* not, active or not.  A rule that becomes active has its actions run; a  *)
(* rule that becomes inactive has its undo actions run; a rule waiting for *)
(* a momentary (stateless) event may have its actions run again and again  *)
(* and is never active between two handlers.                               *)
(***************************************************************************)
CONSTANTS
    RuleIds,      \* the identifiers of rules
    Momentary     \* the rules with a condition on a stateless event

VARIABLES
    listed,       \* the rules in the policy
    active,       \* the rules that are active
    didActions,   \* the rules whose actions the last handler ran
    didUndos      \* the rules whose undo actions the last handler ran

vars == <<listed, active, didActions, didUndos>>

Init ==
    /\ listed = {}
    /\ active = {}
    /\ didActions = {}
    /\ didUndos = {}

(***************************************************************************)
(* Rules are added inactive, and removed in any state; nothing is run.     *)
(***************************************************************************)
EditPolicy ==
    /\ listed' \in SUBSET RuleIds
    /\ active' \in SUBSET (active \cap listed')
    /\ didActions' = {}
    /\ didUndos' = {}

(***************************************************************************)
(* One event, or the evaluation at start-up: undo exactly what becomes     *)
(* inactive, run the actions of what becomes active, and of momentary      *)
(* rules that hold for the length of the event.                            *)
(***************************************************************************)
React ==
    /\ UNCHANGED listed
    /\ active' \in SUBSET (listed \ Momentary)
    /\ didUndos' = active \ active'
    /\ \E pulsed \in SUBSET (listed \cap Momentary) :
          didActions' = (active' \ active) \cup pulsed

Next == EditPolicy \/ React

Spec == Init /\ [][Next]_vars
=============================================================================
