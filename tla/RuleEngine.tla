----------------------------- MODULE RuleEngine -----------------------------
(***************************************************************************)
(* The rule engine of xcpmd (rules.c, modules.c): the rule list, the       *)
(* listeners of each event, the cached truth of every condition, and the   *)
(* two evaluators, handle_events() for one event and evaluate_policy() for *)
(* the whole policy at start-up.  xcpmd is one libevent thread, so every   *)
(* handler runs to completion: one action per handler.                     *)
(*                                                                         *)
(* A rule identifier stands for its policy text.  Its conditions are the   *)
(* members c of Conds with RuleOf[c] = r that name a known condition type  *)
(* (apply_rule drops the others).  Sat[c] is what c's checker computes: it *)
(* is given the value of the event and may read the world outside the      *)
(* engine (policy variables, the battery and VM tables), here `world'.     *)
(***************************************************************************)
EXTENDS Naturals, FiniteSets

CONSTANTS
    Events,       \* struct ev_wrapper, by name
    Stateless,    \* the events with is_stateless set
    Values,       \* event values
    ResetValue,   \* reset_value of each event
    Worlds,       \* what checkers read besides the event
    RuleIds,      \* rule identifiers
    Malformed,    \* rules without name or actions, or with a bad prototype
    Conds,        \* condition objects
    RuleOf,       \* condition->rule
    EventOf,      \* condition->type->event
    Inverted,     \* conditions written with "!" (is_inverted)
    Sat           \* condition->type->check

ASSUME EngineAssumption ==
    /\ Stateless \subseteq Events
    /\ ResetValue \in [Events -> Values]
    /\ Malformed \subseteq RuleIds
    /\ IsFiniteSet(Conds)
    /\ RuleOf \in [Conds -> RuleIds]
    /\ EventOf \in [Conds -> Events]
    /\ Inverted \subseteq Conds
    /\ Sat \in [Conds -> SUBSET (Values \X Worlds)]

VARIABLES
    phase,        \* "loading" until evaluate_policy() ran, then "running"
    rules,        \* the rule list, as the set of its identifiers
    listeners,    \* event->listeners
    is_true,      \* the conditions with is_true set
    is_active,    \* the rules with is_active set
    value,        \* event->value
    world,        \* see above
    acted,        \* how often the last handler ran do_actions on a rule
    undone        \* how often the last handler ran do_undos on a rule

vars == <<phase, rules, listeners, is_true, is_active, value, world,
          acted, undone>>

ConditionsOf(r) == {c \in Conds : RuleOf[c] = r}

None == [r \in RuleIds |-> 0]

TypeOK ==
    /\ phase \in {"loading", "running"}
    /\ rules \in SUBSET RuleIds
    /\ listeners \in [Events -> SUBSET Conds]
    /\ is_true \in SUBSET Conds
    /\ is_active \in SUBSET RuleIds
    /\ value \in [Events -> Values]
    /\ world \in Worlds
    /\ acted \in [RuleIds -> Nat]
    /\ undone \in [RuleIds -> Nat]

-----------------------------------------------------------------------------
(* Building and deleting rules                                             *)

\* Mutant: an empty condition list is not refused.
validate_rule_MutEmptyAllowed(r, list) == r \notin list /\ r \notin Malformed

(***************************************************************************)
(* validate_rule(): every error code but NAME_COLLISION depends on the     *)
(* text alone.                                                             *)
(***************************************************************************)
validate_rule(r, list) ==
    /\ r \notin list
    /\ ConditionsOf(r) # {}
    /\ r \notin Malformed

(***************************************************************************)
(* The state after apply_rule() on every rule of `new', for a rule list    *)
(* `list' with listeners `heard'.  new_condition() registers each          *)
(* condition, false, with its event, add_rule() lists the rule, inactive;  *)
(* a rule that does not validate is deleted again, conditions included.    *)
(***************************************************************************)
apply_rules(new, list, heard) ==
    LET valid == {r \in new : validate_rule(r, list)}
        fresh == {c \in Conds : RuleOf[c] \in valid}
    IN  /\ rules' = list \cup valid
        /\ listeners' = [e \in Events |->
                            heard[e] \cup {c \in fresh : EventOf[c] = e}]
        /\ is_true' = {c \in is_true : RuleOf[c] \in list}
        /\ is_active' = is_active \cap list
        /\ acted' = None
        /\ undone' = None

\* Mutant: the conditions of a deleted rule stay registered.
listeners_without_MutKeep(gone) == listeners

(***************************************************************************)
(* delete_condition_from_listeners() for every condition of the rules      *)
(* `gone'.                                                                 *)
(***************************************************************************)
listeners_without(gone) ==
    [e \in Events |-> {c \in listeners[e] : RuleOf[c] \notin gone}]

-----------------------------------------------------------------------------
(* Evaluating                                                              *)

check(c, v) == <<v, world>> \in Sat[c]

evaluate_rule(r, truth) == ConditionsOf(r) \subseteq truth

(***************************************************************************)
(* The conditions of event e whose cached truth differs from what the      *)
(* checker says now.  Each one puts its rule on the checklist, so a rule   *)
(* is on it once per changed condition.                                    *)
(***************************************************************************)
changed_conditions(e, v) ==
    {c \in listeners[e] : ~(check(c, v) <=> c \in is_true)}

\* Mutant: the rule is put on the checklist once per condition it has.
checklist_count_MutWholeRule(r, changed) ==
    IF \E c \in changed : RuleOf[c] = r THEN Cardinality(ConditionsOf(r)) ELSE 0

checklist_count(r, changed) == Cardinality({c \in changed : RuleOf[c] = r})

(***************************************************************************)
(* handle_events(event), called once the source of the event has stored    *)
(* its value: check the listeners, undo the checklist rules that stopped   *)
(* holding, run the actions of those that began to, and, for a stateless   *)
(* event, leave is_active alone and put the value and the listeners back.  *)
(***************************************************************************)
truth_after(e, v) ==
    (is_true \ listeners[e]) \cup {c \in listeners[e] : check(c, v)}

\* Mutant: the rule is marked active for a stateless event too.
is_active_after_MutStateless(e, truth, changed) ==
    LET reset == {r \in RuleIds : checklist_count(r, changed) > 0}
    IN  (is_active \ reset) \cup {r \in reset : evaluate_rule(r, truth)}

\* Mutant: a rule that is undone stays marked active.
is_active_after_MutNeverCleared(e, truth, changed) ==
    is_active \cup {r \in RuleIds : /\ e \notin Stateless
                                  /\ checklist_count(r, changed) > 0
                                  /\ evaluate_rule(r, truth)}

is_active_after(e, truth, changed) ==
    LET reset == {r \in RuleIds : e \notin Stateless
                                   /\ checklist_count(r, changed) > 0}
    IN  (is_active \ reset) \cup {r \in reset : evaluate_rule(r, truth)}

\* Mutant: the conditions on a stateless event are not put back.
is_true_after_MutNoReset(e, truth) == truth

is_true_after(e, truth) ==
    IF e \in Stateless THEN truth \ listeners[e] ELSE truth

value_after(e, v) ==
    [value EXCEPT ![e] = IF e \in Stateless THEN ResetValue[e] ELSE v]

handle_events(e, v) ==
    LET changed == changed_conditions(e, v)
        truth == truth_after(e, v)
    IN  /\ phase = "running"
        /\ undone' = [r \in RuleIds |->
                         IF r \in is_active /\ ~evaluate_rule(r, truth)
                         THEN checklist_count(r, changed) ELSE 0]
        /\ acted' = [r \in RuleIds |->
                        IF r \notin is_active /\ evaluate_rule(r, truth)
                        THEN checklist_count(r, changed) ELSE 0]
        /\ is_active' = is_active_after(e, truth, changed)
        /\ is_true' = is_true_after(e, truth)
        /\ value' = value_after(e, v)
        /\ UNCHANGED <<phase, rules, listeners, world>>

(***************************************************************************)
(* evaluate_policy(): re-check the listeners of the stateful events, undo  *)
(* the active rules that do not hold, then mark active and run every rule  *)
(* that does.  main() calls it once, between loading the policy and        *)
(* entering the event loop.                                                *)
(***************************************************************************)
policy_truth ==
    LET rechecked == {c \in Conds : /\ EventOf[c] \notin Stateless
                                    /\ c \in listeners[EventOf[c]]}
    IN  (is_true \ rechecked)
            \cup {c \in rechecked : check(c, value[EventOf[c]])}

evaluate_policy ==
    LET holding == {r \in rules : evaluate_rule(r, policy_truth)}
    IN  /\ phase = "loading"
        /\ phase' = "running"
        /\ undone' = [r \in RuleIds |->
                         IF r \in (rules \cap is_active) \ holding THEN 1 ELSE 0]
        /\ acted' = [r \in RuleIds |-> IF r \in holding THEN 1 ELSE 0]
        /\ is_active' = (is_active \ rules) \cup holding
        /\ is_true' = policy_truth
        /\ UNCHANGED <<rules, listeners, value, world>>

-----------------------------------------------------------------------------
(* The handlers that edit the policy.  The rule list only; the database    *)
(* and the variables are the subject of PolicyStore.                       *)

(***************************************************************************)
(* add_rule over D-Bus (one rule), a policy file, or the database at       *)
(* start-up.                                                               *)
(***************************************************************************)
AddRules(new) ==
    /\ apply_rules(new, rules, listeners)
    /\ UNCHANGED <<phase, value, world>>

(***************************************************************************)
(* delete_rule() on some rules: remove_rule and clear_rules over D-Bus.  A *)
(* rule is freed whether or not it is active; no undo action is run.       *)
(***************************************************************************)
DeleteRules(gone) ==
    /\ phase = "running"
    /\ apply_rules({}, rules \ gone, listeners_without(gone))
    /\ UNCHANGED <<phase, value, world>>

(***************************************************************************)
(* load_policy_from_db over D-Bus: delete every rule, then add what the    *)
(* database holds.                                                         *)
(***************************************************************************)
ReloadPolicy(stored) ==
    /\ phase = "running"
    /\ apply_rules(stored, {}, listeners_without(rules))
    /\ UNCHANGED <<phase, value, world>>

(***************************************************************************)
(* Something a checker reads changes; no rule is evaluated (the TODO above *)
(* xcpmd_add_var).                                                         *)
(***************************************************************************)
WorldChanges ==
    /\ world' \in Worlds \ {world}
    /\ acted' = None
    /\ undone' = None
    /\ UNCHANGED <<phase, rules, listeners, is_true, is_active, value>>

(***************************************************************************)
(* init_rules(), the modules' constructors and acpi_initialize_state():    *)
(* no rule yet, stateless events at their reset value, stateful ones at    *)
(* what the hardware says.                                                 *)
(***************************************************************************)
Init ==
    /\ phase = "loading"
    /\ rules = {}
    /\ listeners = [e \in Events |-> {}]
    /\ is_true = {}
    /\ is_active = {}
    /\ value \in [Events -> Values]
    /\ \A e \in Stateless : value[e] = ResetValue[e]
    /\ world \in Worlds
    /\ acted = None
    /\ undone = None

Next ==
    \/ \E e \in Events, v \in Values : handle_events(e, v)
    \/ evaluate_policy
    \/ \E new \in SUBSET RuleIds : AddRules(new)
    \/ \E r \in rules : DeleteRules({r})
    \/ DeleteRules(rules)
    \/ \E stored \in SUBSET RuleIds : ReloadPolicy(stored)
    \/ WorldChanges

Spec == Init /\ [][Next]_vars

-----------------------------------------------------------------------------
(* Properties                                                              *)

(***************************************************************************)
(* Between handlers a listed rule is active exactly when the cached truth  *)
(* of all its conditions is TRUE.  This is what makes it enough for        *)
(* handle_events() to look only at the rules of conditions that changed.   *)
(* It rests on validate_rule() refusing a rule without conditions.         *)
(***************************************************************************)
ActiveIffAllTrue ==
    \A r \in rules : r \in is_active <=> evaluate_rule(r, is_true)

(***************************************************************************)
(* Between handlers a stateless event has its reset value and every        *)
(* condition on it is false, so the next occurrence is seen as a change    *)
(* ("this prevents repeated events from being ignored", modules.c).        *)
(***************************************************************************)
StatelessAtRest ==
    /\ \A e \in Stateless : value[e] = ResetValue[e]
    /\ \A c \in is_true : EventOf[c] \notin Stateless

(***************************************************************************)
(* The listeners of an event are exactly the conditions on it of the       *)
(* listed rules: handle_events() never follows a pointer to a condition    *)
(* that delete_rule() freed, and no listed rule is deaf to its event.      *)
(***************************************************************************)
ListenersAreLive ==
    \A e \in Events :
        listeners[e] = {c \in Conds : EventOf[c] = e /\ RuleOf[c] \in rules}

(***************************************************************************)
(* The three facts above are inductive together.                           *)
(***************************************************************************)
EngineInv ==
    /\ TypeOK
    /\ ActiveIffAllTrue
    /\ StatelessAtRest
    /\ ListenersAreLive
    /\ \A r \in rules : ConditionsOf(r) # {}
    /\ \A c \in is_true : RuleOf[c] \in rules
    /\ is_active \subseteq rules
    /\ phase = "loading" => is_true = {}

(***************************************************************************)
(* The undo actions of a rule never run in a handler that also runs its    *)
(* actions, and they run only for a rule that was active before it: what   *)
(* is undone had been done.                                                *)
(***************************************************************************)
UndoWhatWasDone ==
    [][\A r \in RuleIds : undone'[r] > 0 =>
            r \in is_active /\ r \notin is_active' /\ acted'[r] = 0]_vars

(***************************************************************************)
(* The rules with a condition on a stateless event.                        *)
(***************************************************************************)
Momentary == {RuleOf[c] : c \in {d \in Conds : EventOf[d] \in Stateless}}

(***************************************************************************)
(* The engine implements RulePolicy: seen from outside, handlers that run  *)
(* through listeners, cached conditions and a checklist activate, undo and *)
(* pulse rules as the comment of rules.h says, up to how often an action   *)
(* list is run in one handler.                                             *)
(***************************************************************************)
Policy ==
    INSTANCE RulePolicy WITH
        listed <- rules,
        active <- is_active,
        didActions <- {r \in RuleIds : acted[r] > 0},
        didUndos <- {r \in RuleIds : undone[r] > 0}

ImplementsRulePolicy == Policy!Spec

(***************************************************************************)
(* A handler runs the actions of a rule more than once only if the rule    *)
(* has several conditions on one event, and then at most once for each.    *)
(***************************************************************************)
RepeatsOnlyBySharedEvent ==
    \A r \in RuleIds : acted[r] > 1 =>
        \E e \in Events :
            acted[r] <= Cardinality({c \in ConditionsOf(r) : EventOf[c] = e})

-----------------------------------------------------------------------------
(* What the comments of the source say and the code does not do            *)

(***************************************************************************)
(* "A condition may also be inverted" (rules.h): a rule is not active      *)
(* while an inverted condition of it is true.                              *)
(***************************************************************************)
InvertedConditionsBlock ==
    \A r \in is_active : ConditionsOf(r) \cap Inverted \cap is_true = {}
=============================================================================
