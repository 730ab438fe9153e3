-------------------------- MODULE RuleEngineProofs --------------------------
(***************************************************************************)
(* Proofs about RuleEngine for every set of events, rules and conditions.  *)
(***************************************************************************)
EXTENDS RuleEngine, FiniteSetTheorems, TLAPS

(***************************************************************************)
(* The number of times a rule is on the checklist of handle_events(): a    *)
(* natural number, positive exactly when a condition of it changed.        *)
(***************************************************************************)
LEMMA ChecklistCount ==
    ASSUME NEW r \in RuleIds, NEW changed \in SUBSET Conds
    PROVE  /\ checklist_count(r, changed) \in Nat
           /\ checklist_count(r, changed) > 0 <=> \E c \in changed : RuleOf[c] = r
<1> DEFINE hits == {c \in changed : RuleOf[c] = r}
<1>1. IsFiniteSet(hits)
  <2>1. hits \subseteq Conds
    OBVIOUS
  <2> QED BY <2>1, EngineAssumption, FS_Subset
<1>2. Cardinality(hits) \in Nat
  BY <1>1, FS_CardinalityType
<1>3. Cardinality(hits) = 0 <=> hits = {}
  BY <1>1, FS_EmptySet
<1> QED BY <1>2, <1>3 DEF checklist_count

(***************************************************************************)
(* The start state of the daemon satisfies the invariant.                  *)
(***************************************************************************)
LEMMA InitEngineInv == Init => EngineInv
BY EngineAssumption
   DEF Init, EngineInv, TypeOK, ActiveIffAllTrue, StatelessAtRest,
       ListenersAreLive, None, ConditionsOf

(***************************************************************************)
(* Editing the policy preserves the invariant: apply_rules() on a part of  *)
(* the rule list whose listeners are those of that part.                   *)
(***************************************************************************)
LEMMA ApplyRulesInv ==
    ASSUME EngineInv, UNCHANGED <<phase, value, world>>,
           NEW new \in SUBSET RuleIds, NEW list \in SUBSET rules,
           NEW heard,
           heard = [e \in Events |->
                       {c \in Conds : EventOf[c] = e /\ RuleOf[c] \in list}],
           apply_rules(new, list, heard)
    PROVE  EngineInv'
<1> USE DEF EngineInv
<1> DEFINE valid == {r \in new : validate_rule(r, list)}
           fresh == {c \in Conds : RuleOf[c] \in valid}
<1>1. /\ rules' = list \cup valid
      /\ listeners' = [e \in Events |->
                          heard[e] \cup {c \in fresh : EventOf[c] = e}]
      /\ is_true' = {c \in is_true : RuleOf[c] \in list}
      /\ is_active' = is_active \cap list
      /\ acted' = None /\ undone' = None
  BY DEF apply_rules
<1>2. TypeOK'
  BY <1>1, EngineAssumption DEF TypeOK, None
<1>3. \A r \in valid : ConditionsOf(r) # {} /\ r \notin list
  BY DEF validate_rule
<1>4. \A r \in rules' : ConditionsOf(r) # {}
  BY <1>1, <1>3
<1>5. ActiveIffAllTrue'
  BY <1>1, <1>3 DEF ActiveIffAllTrue, evaluate_rule, ConditionsOf, TypeOK
<1>6. StatelessAtRest'
  BY <1>1 DEF StatelessAtRest
<1>7. ListenersAreLive'
  BY <1>1 DEF ListenersAreLive
<1>8. /\ \A c \in is_true' : RuleOf[c] \in rules'
      /\ is_active' \subseteq rules'
      /\ phase' = "loading" => is_true' = {}
  BY <1>1
<1> QED BY <1>2, <1>4, <1>5, <1>6, <1>7, <1>8 DEF ConditionsOf

(***************************************************************************)
(* handle_events() preserves the invariant.                                *)
(***************************************************************************)
LEMMA HandleEventsInv ==
    ASSUME EngineInv, NEW e \in Events, NEW v \in Values, handle_events(e, v)
    PROVE  EngineInv'
<1> USE DEF EngineInv
<1> DEFINE changed == changed_conditions(e, v)
           truth == truth_after(e, v)
<1>1. /\ phase = "running" /\ phase' = "running"
      /\ rules' = rules /\ listeners' = listeners /\ world' = world
      /\ is_active' = is_active_after(e, truth, changed)
      /\ is_true' = is_true_after(e, truth)
      /\ value' = value_after(e, v)
  BY DEF handle_events
<1>2. changed \in SUBSET Conds /\ truth \in SUBSET Conds
  BY DEF changed_conditions, truth_after, TypeOK
<1>3. \A c \in Conds :
         c \in truth <=> IF c \in listeners[e] THEN check(c, v) ELSE c \in is_true
  BY DEF truth_after
<1>4. is_true' = IF e \in Stateless THEN truth \ listeners[e] ELSE truth
  BY <1>1 DEF is_true_after
<1>5. \A r \in RuleIds : r \in is_active' <=>
         IF e \notin Stateless /\ \E c \in changed : RuleOf[c] = r
         THEN evaluate_rule(r, truth) ELSE r \in is_active
  BY <1>1, <1>2, ChecklistCount DEF is_active_after
<1>6. TypeOK'
  <2>1. undone' \in [RuleIds -> Nat] /\ acted' \in [RuleIds -> Nat]
    BY <1>2, ChecklistCount DEF handle_events
  <2>2. is_true' \in SUBSET Conds
    BY <1>4, <1>2
  <2>3. is_active' \in SUBSET RuleIds
    BY <1>1 DEF is_active_after, TypeOK
  <2>4. value' \in [Events -> Values]
    BY <1>1, EngineAssumption, Zenon DEF value_after, TypeOK
  <2> QED BY <2>1, <2>2, <2>3, <2>4, <1>1 DEF TypeOK
<1>7. ActiveIffAllTrue'
  <2> SUFFICES ASSUME NEW r \in rules
               PROVE  r \in is_active' <=> evaluate_rule(r, is_true')
    BY <1>1 DEF ActiveIffAllTrue, evaluate_rule, ConditionsOf
  <2>0. r \in RuleIds /\ ConditionsOf(r) \subseteq Conds
    BY DEF TypeOK, ConditionsOf
  <2>1. CASE e \in Stateless
    <3>1. r \in is_active' <=> r \in is_active
      BY <2>1, <1>5, <2>0
    <3>2. is_true' = is_true
      BY <1>4, <2>1 DEF truth_after, StatelessAtRest, ListenersAreLive, TypeOK
    <3> QED BY <3>1, <3>2 DEF ActiveIffAllTrue
  <2>2. CASE e \notin Stateless
    <3>1. is_true' = truth
      BY <1>4, <2>2
    <3>2. CASE \E c \in changed : RuleOf[c] = r
      BY <3>2, <3>1, <2>2, <1>5, <2>0
    <3>3. CASE ~ \E c \in changed : RuleOf[c] = r
      <4>1. \A c \in ConditionsOf(r) : c \in truth <=> c \in is_true
        BY <3>3, <1>3 DEF changed_conditions, ConditionsOf
      <4> QED BY <4>1, <3>1, <3>3, <2>2, <1>5, <2>0
              DEF ActiveIffAllTrue, evaluate_rule
    <3> QED BY <3>2, <3>3
  <2> QED BY <2>1, <2>2
<1>8. StatelessAtRest'
  <2>1. \A f \in Stateless : value'[f] = ResetValue[f]
    BY <1>1, EngineAssumption DEF value_after, StatelessAtRest, TypeOK
  <2>2. \A c \in is_true' : EventOf[c] \notin Stateless
    BY <1>4, <1>2, <1>3 DEF StatelessAtRest, ListenersAreLive, TypeOK
  <2> QED BY <2>1, <2>2 DEF StatelessAtRest
<1>9. ListenersAreLive'
  BY <1>1 DEF ListenersAreLive
<1>10. \A c \in is_true' : RuleOf[c] \in rules'
  BY <1>1, <1>2, <1>3, <1>4 DEF ListenersAreLive
<1>11. is_active' \subseteq rules'
  BY <1>1, <1>5, <1>6 DEF changed_conditions, ListenersAreLive, TypeOK
<1> QED BY <1>1, <1>6, <1>7, <1>8, <1>9, <1>10, <1>11 DEF ConditionsOf

(***************************************************************************)
(* evaluate_policy() preserves the invariant.                              *)
(***************************************************************************)
LEMMA EvaluatePolicyInv == ASSUME EngineInv, evaluate_policy PROVE EngineInv'
<1> USE DEF EngineInv
<1> DEFINE holding == {r \in rules : evaluate_rule(r, policy_truth)}
<1>1. /\ phase' = "running"
      /\ rules' = rules /\ listeners' = listeners
      /\ value' = value /\ world' = world
      /\ is_active' = holding
      /\ is_true' = policy_truth
  BY DEF evaluate_policy
<1>2. /\ policy_truth \in SUBSET Conds
      /\ \A c \in policy_truth : EventOf[c] \notin Stateless /\ RuleOf[c] \in rules
  BY EngineAssumption DEF policy_truth, TypeOK, StatelessAtRest, ListenersAreLive
<1>3. TypeOK'
  BY <1>1, <1>2 DEF TypeOK, evaluate_policy
<1>4. ActiveIffAllTrue'
  BY <1>1 DEF ActiveIffAllTrue, evaluate_rule, ConditionsOf
<1>5. StatelessAtRest' /\ ListenersAreLive'
  BY <1>1, <1>2 DEF StatelessAtRest, ListenersAreLive
<1> QED BY <1>1, <1>2, <1>3, <1>4, <1>5 DEF ConditionsOf

(***************************************************************************)
(* Every step of the engine preserves the invariant.                       *)
(***************************************************************************)
LEMMA NextEngineInv == ASSUME EngineInv, [Next]_vars PROVE EngineInv'
<1>0. /\ TypeOK
      /\ \A gone : listeners_without(gone) = [e \in Events |->
               {c \in Conds : EventOf[c] = e /\ RuleOf[c] \in rules \ gone}]
      /\ listeners = [e \in Events |->
               {c \in Conds : EventOf[c] = e /\ RuleOf[c] \in rules}]
  BY DEF EngineInv, ListenersAreLive, listeners_without, TypeOK
<1>1. ASSUME NEW e \in Events, NEW v \in Values, handle_events(e, v)
      PROVE  EngineInv'
  BY <1>1, HandleEventsInv
<1>2. CASE evaluate_policy
  BY <1>2, EvaluatePolicyInv
<1>3. ASSUME NEW new \in SUBSET RuleIds, AddRules(new) PROVE EngineInv'
  BY <1>0, <1>3, ApplyRulesInv DEF AddRules
<1>4. ASSUME NEW gone \in SUBSET rules, DeleteRules(gone) PROVE EngineInv'
  <2> DEFINE list == rules \ gone
  <2>1. list \in SUBSET rules /\ {} \in SUBSET RuleIds
    OBVIOUS
  <2>2. /\ apply_rules({}, list, listeners_without(gone))
        /\ UNCHANGED <<phase, value, world>>
    BY <1>4 DEF DeleteRules
  <2>3. listeners_without(gone) = [e \in Events |->
          {c \in Conds : EventOf[c] = e /\ RuleOf[c] \in list}]
    BY <1>0
  <2> HIDE DEF list
  <2> QED BY <2>1, <2>2, <2>3, ApplyRulesInv
<1>5. ASSUME NEW stored \in SUBSET RuleIds, ReloadPolicy(stored) PROVE EngineInv'
  <2>1. listeners_without(rules) = [e \in Events |->
          {c \in Conds : EventOf[c] = e /\ RuleOf[c] \in {}}]
    BY <1>0
  <2> QED BY <2>1, <1>5, ApplyRulesInv DEF ReloadPolicy
<1>6. CASE WorldChanges
  BY <1>6 DEF WorldChanges, EngineInv, TypeOK, None, ActiveIffAllTrue,
              evaluate_rule, ConditionsOf, StatelessAtRest, ListenersAreLive
<1>7. CASE UNCHANGED vars
  BY <1>7 DEF vars, EngineInv, TypeOK, ActiveIffAllTrue, evaluate_rule,
              ConditionsOf, StatelessAtRest, ListenersAreLive
<1> QED BY <1>1, <1>2, <1>3, <1>4, <1>5, <1>6, <1>7, Zenon DEF Next

(***************************************************************************)
(* The invariant of the rule engine holds in every state of the daemon,    *)
(* for every policy: a listed rule is active exactly when all its cached   *)
(* conditions are true, stateless events and their conditions are at rest, *)
(* and the listeners are the conditions of the listed rules.               *)
(***************************************************************************)
THEOREM EngineInvariant == Spec => []EngineInv
<1>1. Init => EngineInv
  BY InitEngineInv
<1>2. EngineInv /\ [Next]_vars => EngineInv'
  BY NextEngineInv
<1> QED BY <1>1, <1>2, PTL DEF Spec

(***************************************************************************)
(* What one handler may run.  handle_events() undoes an active rule that   *)
(* stops holding, and acts for an inactive rule that begins to, one of     *)
(* whose conditions is a changed listener of the event.                    *)
(***************************************************************************)
LEMMA HandleEventsEffects ==
    ASSUME EngineInv, NEW e \in Events, NEW v \in Values, handle_events(e, v),
           NEW r \in RuleIds
    PROVE  LET hit == \E c \in changed_conditions(e, v) : RuleOf[c] = r
               holds == evaluate_rule(r, truth_after(e, v))
           IN  /\ undone'[r] > 0 <=> hit /\ r \in is_active /\ ~holds
               /\ acted'[r] > 0 <=> hit /\ r \notin is_active /\ holds
               /\ r \in is_active' <=>
                     IF e \notin Stateless /\ hit THEN holds ELSE r \in is_active
<1> DEFINE changed == changed_conditions(e, v)
           truth == truth_after(e, v)
<1>1. changed \in SUBSET Conds
  BY DEF EngineInv, TypeOK, changed_conditions
<1>2. /\ checklist_count(r, changed) \in Nat
      /\ checklist_count(r, changed) > 0 <=> \E c \in changed : RuleOf[c] = r
  BY <1>1, ChecklistCount
<1>3. /\ undone'[r] = IF r \in is_active /\ ~evaluate_rule(r, truth)
                      THEN checklist_count(r, changed) ELSE 0
      /\ acted'[r] = IF r \notin is_active /\ evaluate_rule(r, truth)
                     THEN checklist_count(r, changed) ELSE 0
      /\ is_active' = is_active_after(e, truth, changed)
  BY DEF handle_events
<1>4. r \in is_active' <=>
        IF e \notin Stateless /\ checklist_count(r, changed) > 0
        THEN evaluate_rule(r, truth) ELSE r \in is_active
  BY <1>3 DEF is_active_after
<1> HIDE DEF changed, truth
<1>5. /\ undone'[r] > 0 <=> /\ \E c \in changed : RuleOf[c] = r
                            /\ r \in is_active /\ ~evaluate_rule(r, truth)
      /\ acted'[r] > 0 <=> /\ \E c \in changed : RuleOf[c] = r
                           /\ r \notin is_active /\ evaluate_rule(r, truth)
  BY <1>2, <1>3
<1> QED BY <1>2, <1>4, <1>5 DEF changed, truth

(***************************************************************************)
(* A rule with a condition on a stateless event is not active between      *)
(* handlers.                                                               *)
(***************************************************************************)
LEMMA MomentaryNeverActive == EngineInv => is_active \cap Momentary = {}
BY EngineAssumption
   DEF EngineInv, TypeOK, ActiveIffAllTrue, StatelessAtRest, evaluate_rule,
       ConditionsOf, Momentary

(***************************************************************************)
(* The rules on the checklist of a stateless event are listed rules with   *)
(* a condition on such an event.                                           *)
(***************************************************************************)
LEMMA StatelessHitsMomentary ==
    ASSUME EngineInv, NEW e \in Stateless, NEW v \in Values,
           NEW c \in changed_conditions(e, v)
    PROVE  RuleOf[c] \in Momentary /\ RuleOf[c] \in rules
BY EngineAssumption
   DEF EngineInv, TypeOK, ListenersAreLive, changed_conditions, Momentary

(***************************************************************************)
(* Handlers other than the two evaluators run nothing.                     *)
(***************************************************************************)
LEMMA EditsAreQuiet ==
    ASSUME EngineInv,
           NEW new \in SUBSET RuleIds, NEW list \in SUBSET rules, NEW heard,
           apply_rules(new, list, heard)
    PROVE  /\ acted' = None /\ undone' = None
           /\ rules' \in SUBSET RuleIds
           /\ is_active' = is_active \cap list /\ list \subseteq rules'
BY DEF apply_rules, EngineInv, TypeOK

(***************************************************************************)
(* Undo actions run only for a rule that was active and no longer is, and  *)
(* never together with its actions.                                        *)
(***************************************************************************)
THEOREM UndoneWasDone == Spec => UndoWhatWasDone
<1> DEFINE Undo == \A r \in RuleIds : undone'[r] > 0 =>
                      r \in is_active /\ r \notin is_active' /\ acted'[r] = 0
<1>1. ASSUME EngineInv, Next PROVE Undo
  <2> SUFFICES ASSUME NEW r \in RuleIds, undone'[r] > 0
               PROVE  r \in is_active /\ r \notin is_active' /\ acted'[r] = 0
    OBVIOUS
  <2>0. None[r] = 0
    BY DEF None
  <2>1. ASSUME NEW e \in Events, NEW v \in Values, handle_events(e, v)
        PROVE  r \in is_active /\ r \notin is_active' /\ acted'[r] = 0
    <3>1. EngineInv'
      BY <1>1, <2>1, HandleEventsInv
    <3>2. acted'[r] \in Nat
      BY <3>1 DEF EngineInv, TypeOK
    <3>3. r \in is_active /\ ~(acted'[r] > 0)
      BY <1>1, <2>1, HandleEventsEffects
    <3>4. e \notin Stateless
      BY <1>1, <2>1, <3>3, HandleEventsEffects, StatelessHitsMomentary,
         MomentaryNeverActive
    <3>5. r \notin is_active'
      BY <1>1, <2>1, <3>4, HandleEventsEffects
    <3> QED BY <3>2, <3>3, <3>5
  <2>2. CASE evaluate_policy
    BY <1>1, <2>2 DEF evaluate_policy, EngineInv
  <2>3. CASE \/ \E new \in SUBSET RuleIds : AddRules(new)
             \/ \E gone \in SUBSET rules : DeleteRules(gone)
             \/ \E stored \in SUBSET RuleIds : ReloadPolicy(stored)
    BY <2>3, <2>0 DEF AddRules, DeleteRules, ReloadPolicy, apply_rules
  <2>4. CASE WorldChanges
    BY <2>4, <2>0 DEF WorldChanges
  <2> QED BY <1>1, <2>1, <2>2, <2>3, <2>4, Zenon DEF Next
<1>2. EngineInv /\ [Next]_vars => [Undo]_vars
  BY <1>1
<1> QED BY <1>2, EngineInvariant, PTL DEF Spec, UndoWhatWasDone

(***************************************************************************)
(* An edit of the rule list is an EditPolicy step of RulePolicy.           *)
(***************************************************************************)
LEMMA EditRefines ==
    ASSUME EngineInv,
           NEW new \in SUBSET RuleIds, NEW list \in SUBSET rules, NEW heard,
           apply_rules(new, list, heard)
    PROVE  Policy!EditPolicy
<1>1. /\ acted' = None /\ undone' = None
      /\ rules' \in SUBSET RuleIds
      /\ is_active' = is_active \cap list /\ list \subseteq rules'
  BY EditsAreQuiet
<1>2. {r \in RuleIds : None[r] > 0} = {}
  BY DEF None
<1> QED BY <1>1, <1>2 DEF Policy!EditPolicy

(***************************************************************************)
(* One event is a React step of RulePolicy.                                *)
(***************************************************************************)
LEMMA HandleEventsRefines ==
    ASSUME EngineInv, NEW e \in Events, NEW v \in Values, handle_events(e, v)
    PROVE  Policy!React
<1> DEFINE did == {r \in RuleIds : acted'[r] > 0}
           undid == {r \in RuleIds : undone'[r] > 0}
           pulsed == IF e \in Stateless THEN did ELSE {}
<1>1. EngineInv'
  BY HandleEventsInv
<1>2. rules' = rules /\ Momentary' = Momentary
  BY DEF handle_events, Momentary
<1>3. is_active \in SUBSET RuleIds /\ is_active' \in SUBSET (rules \ Momentary)
  <2>1. is_active' \cap Momentary' = {}
    BY <1>1, EngineAssumption
       DEF EngineInv, TypeOK, ActiveIffAllTrue, StatelessAtRest,
           evaluate_rule, ConditionsOf, Momentary
  <2> QED BY <1>1, <1>2, <2>1 DEF EngineInv, TypeOK
<1>4. rules \subseteq RuleIds
  BY DEF EngineInv, TypeOK
<1>5. undid = is_active \ is_active'
  <2> SUFFICES ASSUME NEW r \in RuleIds
               PROVE  undone'[r] > 0 <=> r \in is_active /\ r \notin is_active'
    BY <1>3
  <2> QED BY HandleEventsEffects, StatelessHitsMomentary, MomentaryNeverActive
<1>6. pulsed \in SUBSET (rules \cap Momentary)
  BY HandleEventsEffects, StatelessHitsMomentary
<1>7. did = (is_active' \ is_active) \cup pulsed
  <2> SUFFICES ASSUME NEW r \in RuleIds
               PROVE  acted'[r] > 0 <=>
                        (r \in is_active' /\ r \notin is_active) \/ r \in pulsed
    BY <1>3, <1>4, <1>6
  <2>1. CASE e \in Stateless
    BY <2>1, HandleEventsEffects
  <2>2. CASE e \notin Stateless
    BY <2>2, HandleEventsEffects
  <2> QED BY <2>1, <2>2
<1> HIDE DEF pulsed
<1> QED BY <1>2, <1>3, <1>5, <1>6, <1>7 DEF Policy!React

(***************************************************************************)
(* The evaluation at start-up is a React step of RulePolicy.               *)
(***************************************************************************)
LEMMA EvaluatePolicyRefines ==
    ASSUME EngineInv, evaluate_policy PROVE Policy!React
<1> DEFINE holding == {r \in rules : evaluate_rule(r, policy_truth)}
<1>1. EngineInv'
  BY EvaluatePolicyInv
<1>2. is_active = {} /\ rules \subseteq RuleIds
  BY DEF evaluate_policy, EngineInv, TypeOK, ActiveIffAllTrue, evaluate_rule
<1>3. /\ rules' = rules /\ is_active' = holding
      /\ acted' = [r \in RuleIds |-> IF r \in holding THEN 1 ELSE 0]
      /\ undone' = [r \in RuleIds |->
                      IF r \in (rules \cap is_active) \ holding THEN 1 ELSE 0]
  BY <1>2 DEF evaluate_policy
<1>4. is_active' \cap Momentary = {}
  <2>1. is_active' \cap Momentary' = {}
    BY <1>1, EngineAssumption
       DEF EngineInv, TypeOK, ActiveIffAllTrue, StatelessAtRest,
           evaluate_rule, ConditionsOf, Momentary
  <2> QED BY <2>1 DEF Momentary
<1> HIDE DEF holding
<1>5. /\ {r \in RuleIds : acted'[r] > 0} = holding \cap RuleIds
      /\ {r \in RuleIds : undone'[r] > 0} = {}
  BY <1>2, <1>3
<1>6. holding \subseteq rules
  BY DEF holding
<1> QED BY <1>2, <1>3, <1>4, <1>5, <1>6 DEF Policy!React

(***************************************************************************)
(* The engine implements RulePolicy for every policy: seen from outside,   *)
(* the handlers activate, undo and pulse rules as rules.h promises.        *)
(***************************************************************************)
THEOREM EngineImplementsPolicy == Spec => ImplementsRulePolicy
<1>1. Init => Policy!Init
  BY DEF Init, Policy!Init, None
<1>2. ASSUME EngineInv, [Next]_vars PROVE [Policy!Next]_(Policy!vars)
  <2>1. ASSUME NEW e \in Events, NEW v \in Values, handle_events(e, v)
        PROVE  Policy!React
    BY <1>2, <2>1, HandleEventsRefines
  <2>2. CASE evaluate_policy
    BY <1>2, <2>2, EvaluatePolicyRefines DEF Policy!Next
  <2>3. ASSUME NEW new \in SUBSET RuleIds, AddRules(new)
        PROVE  Policy!EditPolicy
    BY <1>2, <2>3, EditRefines DEF AddRules
  <2>4. ASSUME NEW gone \in SUBSET rules, DeleteRules(gone)
        PROVE  Policy!EditPolicy
    <3>1. {} \in SUBSET RuleIds /\ rules \ gone \in SUBSET rules
      OBVIOUS
    <3> QED BY <1>2, <2>4, <3>1, EditRefines DEF DeleteRules
  <2>5. ASSUME NEW stored \in SUBSET RuleIds, ReloadPolicy(stored)
        PROVE  Policy!EditPolicy
    BY <1>2, <2>5, EditRefines DEF ReloadPolicy
  <2>6. CASE WorldChanges
    <3>1. {r \in RuleIds : None[r] > 0} = {}
      BY DEF None
    <3>2. Policy!EditPolicy
      BY <1>2, <2>6, <3>1
         DEF WorldChanges, EngineInv, TypeOK, Policy!EditPolicy
    <3> QED BY <3>2 DEF Policy!Next
  <2>7. CASE UNCHANGED vars
    BY <2>7 DEF vars, Policy!vars
  <2> QED BY <1>2, <2>1, <2>2, <2>3, <2>4, <2>5, <2>6, <2>7, Zenon DEF Next, Policy!Next
<1> QED BY <1>1, <1>2, EngineInvariant, PTL
        DEF Spec, ImplementsRulePolicy, Policy!Spec
(***************************************************************************)
(* A handler runs the actions of a rule once, or once for each of its      *)
(* conditions on the event handled that changed: more often than once only *)
(* for a rule with several conditions on that event, in every policy.      *)
(***************************************************************************)
THEOREM RepeatsOnlyWhenShared == Spec => []RepeatsOnlyBySharedEvent
<1>1. Init => RepeatsOnlyBySharedEvent
  BY DEF Init, RepeatsOnlyBySharedEvent, None
<1>2. ASSUME EngineInv, RepeatsOnlyBySharedEvent, [Next]_vars
      PROVE  RepeatsOnlyBySharedEvent'
  <2> SUFFICES ASSUME NEW r \in RuleIds, acted'[r] > 1
               PROVE  \E e \in Events : acted'[r] <=
                         Cardinality({c \in ConditionsOf(r) : EventOf[c] = e})
    BY DEF RepeatsOnlyBySharedEvent, ConditionsOf
  <2>0. None[r] = 0
    BY DEF None
  <2>1. ASSUME NEW e \in Events, NEW v \in Values, handle_events(e, v)
        PROVE  acted'[r] <= Cardinality({c \in ConditionsOf(r) : EventOf[c] = e})
    <3> DEFINE hit == {c \in changed_conditions(e, v) : RuleOf[c] = r}
               shared == {c \in ConditionsOf(r) : EventOf[c] = e}
    <3>1. acted'[r] \in {0, Cardinality(hit)}
      BY <2>1 DEF handle_events, checklist_count
    <3>2. hit \subseteq shared
      BY <1>2 DEF EngineInv, ListenersAreLive, changed_conditions, ConditionsOf
    <3>3. shared \subseteq Conds
      BY DEF ConditionsOf
    <3>4. IsFiniteSet(shared)
      BY <3>3, FS_Subset, EngineAssumption
    <3> HIDE DEF hit, shared
    <3>5. /\ Cardinality(hit) <= Cardinality(shared)
          /\ Cardinality(hit) \in Nat /\ Cardinality(shared) \in Nat
      BY <3>2, <3>4, FS_Subset, FS_CardinalityType
    <3> QED BY <3>1, <3>5 DEF shared
  <2>2. CASE evaluate_policy
    BY <2>2 DEF evaluate_policy
  <2>3. CASE \/ \E new \in SUBSET RuleIds : AddRules(new)
             \/ \E gone \in SUBSET rules : DeleteRules(gone)
             \/ \E stored \in SUBSET RuleIds : ReloadPolicy(stored)
             \/ WorldChanges
    BY <2>3, <2>0 DEF AddRules, DeleteRules, ReloadPolicy, WorldChanges, apply_rules
  <2>4. CASE UNCHANGED vars
    BY <1>2, <2>4 DEF vars, RepeatsOnlyBySharedEvent
  <2>5. \/ \E e \in Events, v \in Values : handle_events(e, v)
        \/ evaluate_policy
        \/ \E new \in SUBSET RuleIds : AddRules(new)
        \/ \E gone \in SUBSET rules : DeleteRules(gone)
        \/ \E stored \in SUBSET RuleIds : ReloadPolicy(stored)
        \/ WorldChanges
        \/ UNCHANGED vars
    BY <1>2, Zenon DEF Next
  <2> QED BY <2>1, <2>2, <2>3, <2>4, <2>5
<1> QED BY <1>1, <1>2, EngineInvariant, PTL DEF Spec
=============================================================================
