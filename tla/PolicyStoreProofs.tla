------------------------- MODULE PolicyStoreProofs -------------------------
(***************************************************************************)
(* Proofs about PolicyStore for any number of variables, rules and         *)
(* arguments, with other programs writing the DB at any moment, as long as *)
(* the clear_vars RPC is not called.                                       *)
(***************************************************************************)
EXTENDS PolicyStore, FiniteSetTheorems, TLAPS

(***************************************************************************)
(* References() counts: it is additive over disjoint sets of rules and     *)
(* zero only if no argument refers to the variable.                        *)
(***************************************************************************)
LEMMA ReferencesType ==
    ASSUME NEW x, NEW rs PROVE References(x, rs) \in Nat
<1> DEFINE R == {a \in Args : ArgVar[a] = x /\ ArgRule[a] \in rs}
<1>1. IsFiniteSet(R)
  <2>1. R \subseteq Args OBVIOUS
  <2> QED BY <2>1, FS_Subset, StoreAssumption
<1> QED BY <1>1, FS_CardinalityType DEF References

LEMMA ReferencesAdd ==
    ASSUME NEW x, NEW rs, NEW new, rs \cap new = {}
    PROVE  References(x, rs \cup new) = References(x, rs) + References(x, new)
<1> DEFINE Old == {a \in Args : ArgVar[a] = x /\ ArgRule[a] \in rs}
           New == {a \in Args : ArgVar[a] = x /\ ArgRule[a] \in new}
           All == {a \in Args : ArgVar[a] = x /\ ArgRule[a] \in rs \cup new}
<1>1. IsFiniteSet(Old) /\ IsFiniteSet(New)
  <2>1. Old \subseteq Args /\ New \subseteq Args OBVIOUS
  <2> QED BY <2>1, FS_Subset, StoreAssumption
<1>2. All = Old \cup New /\ Old \cap New = {} OBVIOUS
<1>3. /\ References(x, rs) = Cardinality(Old)
      /\ References(x, new) = Cardinality(New)
      /\ References(x, rs \cup new) = Cardinality(All)
  BY DEF References
<1> HIDE DEF Old, New, All
<1>4. Cardinality(All) = Cardinality(Old) + Cardinality(New) - Cardinality(Old \cap New)
  BY <1>1, <1>2, FS_Union
<1>5. Cardinality(Old) \in Nat /\ Cardinality(New) \in Nat
  BY <1>1, FS_CardinalityType
<1>6. Cardinality(Old \cap New) = 0
  BY <1>2, FS_EmptySet
<1> QED BY <1>3, <1>4, <1>5, <1>6

LEMMA ReferencesNone ==
    ASSUME NEW x, NEW rs
    PROVE  References(x, rs) = 0 <=> \A a \in Args : ArgVar[a] = x => ArgRule[a] \notin rs
<1> DEFINE R == {a \in Args : ArgVar[a] = x /\ ArgRule[a] \in rs}
<1>1. IsFiniteSet(R)
  <2>1. R \subseteq Args OBVIOUS
  <2> QED BY <2>1, FS_Subset, StoreAssumption
<1>2. Cardinality(R) = 0 <=> R = {} BY <1>1, FS_EmptySet
<1>3. References(x, rs) = Cardinality(R) BY DEF References
<1> QED BY <1>2, <1>3

(***************************************************************************)
(* Looking variables up and adding variables neither drops a cached        *)
(* variable nor changes its type.                                          *)
(***************************************************************************)
LEMMA LookedUpKeeps ==
    ASSUME NEW c \in [Vars -> Maybe], NEW xs, dbVars \in [Vars -> Maybe]
    PROVE  /\ looked_up(c, xs) \in [Vars -> Maybe]
           /\ \A x \in Vars : c[x] # NoVal => looked_up(c, xs)[x] = c[x]
BY DEF looked_up, lookup_var

LEMMA CacheAfterKeeps ==
    ASSUME NEW c \in [Vars -> Maybe], NEW new \in [Vars -> Maybe],
           dbVars \in [Vars -> Maybe]
    PROVE  /\ cache_after(c, new) \in [Vars -> Maybe]
           /\ \A x \in Vars : c[x] # NoVal =>
                 /\ cache_after(c, new)[x] # NoVal
                 /\ TypeOf[cache_after(c, new)[x]] = TypeOf[c[x]]
BY DEF cache_after, lookup_var, same_type

\* The cache c holds what is cached now, at the same types.
Keeps(c) ==
    \A x \in Vars : cache[x] # NoVal =>
        c[x] # NoVal /\ TypeOf[c[x]] = TypeOf[cache[x]]

(***************************************************************************)
(* No loaded rule refers to a variable that cannot be looked up.           *)
(***************************************************************************)
LEMMA NothingDangles ==
    ASSUME VarsHeld, NEW rs \in SUBSET rules
    PROVE  ~Dangling(rs)
BY DEF VarsHeld, Dangling, lookup_var

(***************************************************************************)
(* Loading the rules `added', all checked against the new cache, and       *)
(* counting their references keeps counts and references right.            *)
(***************************************************************************)
LEMMA RulesAdded ==
    ASSUME Intact, Keeps(cache'), NEW added, added \cap rules = {},
           \A r \in added : check_prototype(r, cache'),
           rules' = rules \cup added,
           ref_count' = inc_variable_refs(ref_count, added)
    PROVE  CountsExact' /\ VarsHeld'
<1> USE StoreAssumption DEF Intact, TypeOK
<1>1. CountsExact'
  <2>1. SUFFICES ASSUME NEW x \in Vars PROVE ref_count'[x] = References(x, rules')
    BY DEF CountsExact, References
  <2>2. ref_count'[x] = References(x, rules) + References(x, added)
    BY DEF CountsExact, inc_variable_refs
  <2> QED BY <2>2, ReferencesAdd
<1>2. VarsHeld'
  BY DEF VarsHeld, check_prototype, Keeps
<1> QED BY <1>1, <1>2

(***************************************************************************)
(* Dropping the rules `gone' and discounting their references does, too.   *)
(***************************************************************************)
LEMMA RulesDropped ==
    ASSUME Intact, Keeps(cache'), NEW gone \in SUBSET rules,
           rules' = rules \ gone,
           ref_count' = dec_variable_refs(ref_count, gone)
    PROVE  CountsExact' /\ VarsHeld'
<1> USE StoreAssumption DEF Intact, TypeOK
<1>1. CountsExact'
  <2>1. SUFFICES ASSUME NEW x \in Vars PROVE ref_count'[x] = References(x, rules')
    BY DEF CountsExact, References
  <2>2. ref_count'[x] = References(x, rules) - References(x, gone)
    BY DEF CountsExact, dec_variable_refs
  <2>3. References(x, rules) = References(x, rules') + References(x, gone)
    <3>1. rules = rules' \cup gone /\ rules' \cap gone = {} OBVIOUS
    <3> QED BY <3>1, ReferencesAdd
  <2>4. References(x, rules') \in Nat /\ References(x, gone) \in Nat
    BY ReferencesType
  <2> QED BY <2>2, <2>3, <2>4
<1>2. VarsHeld'
  BY DEF VarsHeld, Keeps
<1> QED BY <1>1, <1>2

(***************************************************************************)
(* So does leaving the rules alone.                                        *)
(***************************************************************************)
LEMMA RulesKept ==
    ASSUME Intact, Keeps(cache'), UNCHANGED <<rules, ref_count>>
    PROVE  CountsExact' /\ VarsHeld'
<1>1. CountsExact'
  BY DEF Intact, CountsExact, References
<1>2. VarsHeld'
  BY StoreAssumption DEF Intact, VarsHeld, Keeps
<1> QED BY <1>1, <1>2

(***************************************************************************)
(* Every step keeps the types; counts are sums and differences of          *)
(* References(), which are numbers.                                        *)
(***************************************************************************)
LEMMA CountTypes ==
    ASSUME NEW count \in [Vars -> Int], NEW rs
    PROVE  /\ inc_variable_refs(count, rs) \in [Vars -> Int]
           /\ dec_variable_refs(count, rs) \in [Vars -> Int]
<1>1. \A x \in Vars : References(x, rs) \in Int
  BY ReferencesType
<1> QED BY <1>1 DEF inc_variable_refs, dec_variable_refs

LEMMA ZeroCounts == \A x \in Vars : References(x, {}) = 0
BY ReferencesNone

LEMMA InitIntact == ASSUME Init PROVE Intact
<1> USE DEF Init
<1>1. TypeOK
  <2>1. NoVars \in [Vars -> Maybe]
    BY DEF NoVars, Maybe
  <2>2. ref_count \in [Vars -> Int]
    OBVIOUS
  <2> QED BY <2>1, <2>2, Zenon DEF TypeOK
<1>2. CountsExact
  BY ZeroCounts DEF CountsExact
<1>3. VarsHeld /\ NotCrashed
  BY DEF VarsHeld, NotCrashed
<1> QED BY <1>1, <1>2, <1>3 DEF Intact

(***************************************************************************)
(* A process that forgets its memory refers to nothing.                    *)
(***************************************************************************)
LEMMA MemorylessInv ==
    ASSUME Memoryless PROVE CountsExact' /\ VarsHeld'
<1>1. CountsExact'
  <2>1. SUFFICES ASSUME NEW x \in Vars PROVE ref_count'[x] = References(x, rules')
    BY DEF CountsExact, References
  <2> QED BY ZeroCounts DEF Memoryless
<1>2. VarsHeld'
  BY DEF Memoryless, VarsHeld
<1> QED BY <1>1, <1>2

(***************************************************************************)
(* The handlers that load rules.                                           *)
(***************************************************************************)
LEMMA AddRuleInv ==
    ASSUME Intact, NEW r \in Rules, xcpmd_add_rule(r)
    PROVE  Intact'
<1> DEFINE ok == /\ parse_db_vars(cache) /\ r \notin rules
                 /\ check_prototype(r, cache_after(cache, dbVars))
           added == IF ok THEN {r} ELSE {}
<1> USE DEF Intact, TypeOK
<1>1. /\ cache' = cache_after(cache, dbVars)
      /\ rules' = rules \cup added
      /\ ref_count' = inc_variable_refs(ref_count, added)
      /\ dbRules' = dbRules \cup added
      /\ reset' = FALSE
      /\ UNCHANGED <<status, dbVars>>
  BY DEF xcpmd_add_rule, Handled
<1>2. /\ added \cap rules = {}
      /\ added \subseteq Rules
      /\ \A s \in added : check_prototype(s, cache_after(cache, dbVars))
  OBVIOUS
<1> HIDE DEF added
<1>3. Keeps(cache') /\ cache' \in [Vars -> Maybe]
  BY <1>1, CacheAfterKeeps DEF Keeps
<1>4. CountsExact' /\ VarsHeld'
  BY <1>1, <1>2, <1>3, RulesAdded
<1>5. TypeOK' /\ NotCrashed'
  BY <1>1, <1>2, <1>3, CountTypes, Zenon DEF NotCrashed
<1> QED BY <1>4, <1>5

LEMMA LoadFileInv ==
    ASSUME Intact, NEW new \in [Vars -> Maybe], NEW texts \in SUBSET Rules,
           xcpmd_load_policy_from_file(new, texts)
    PROVE  Intact'
<1> DEFINE c == cache_after(cache, new)
           d == looked_up(c, parsed_vars(c, texts))
           added == {r \in texts \ rules : check_prototype(r, d)}
<1> USE DEF Intact, TypeOK
<1>1. /\ cache' = d
      /\ rules' = rules \cup added
      /\ ref_count' = inc_variable_refs(ref_count, added)
      /\ dbVars' = db_after(cache, new)
      /\ dbRules' = dbRules \cup rules'
      /\ reset' = FALSE
      /\ UNCHANGED status
  BY DEF xcpmd_load_policy_from_file, Handled
<1>2. /\ added \cap rules = {}
      /\ added \subseteq Rules
      /\ \A s \in added : check_prototype(s, d)
  OBVIOUS
<1>3. Keeps(d) /\ d \in [Vars -> Maybe]
  <2>1. Keeps(c) /\ c \in [Vars -> Maybe]
    BY CacheAfterKeeps DEF Keeps
  <2> HIDE DEF c
  <2> QED BY <2>1, LookedUpKeeps DEF Keeps
<1>4. dbVars' \in [Vars -> Maybe]
  BY <1>1 DEF db_after
<1> HIDE DEF added, c, d
<1>5. CountsExact' /\ VarsHeld'
  BY <1>1, <1>2, <1>3, RulesAdded
<1>6. TypeOK' /\ NotCrashed'
  BY <1>1, <1>2, <1>3, <1>4, CountTypes, Zenon DEF NotCrashed
<1> QED BY <1>5, <1>6

LEMMA LoadDbInv ==
    ASSUME Intact, xcpmd_load_policy_from_db
    PROVE  Intact'
<1> DEFINE c == looked_up(cache, VarsOf(rules))
           d == cache_after(c, dbVars)
<1> USE DEF Intact, TypeOK
<1>1. ~Dangling(rules)
  BY NothingDangles
<1>2. /\ cache' = d
      /\ rules' = IF parse_db_vars(c) THEN parse_db_rules(d) ELSE {}
      /\ ref_count' = inc_variable_refs(dec_variable_refs(ref_count, rules), rules')
      /\ reset' = parse_db_vars(c)
      /\ UNCHANGED <<status, dbVars, dbRules>>
  BY <1>1 DEF xcpmd_load_policy_from_db
<1>3. d \in [Vars -> Maybe]
  <2>1. c \in [Vars -> Maybe]
    BY LookedUpKeeps
  <2> HIDE DEF c
  <2> QED BY <2>1, CacheAfterKeeps
<1>4. reset' \in BOOLEAN
  BY <1>2 DEF parse_db_vars
<1> HIDE DEF c, d
<1>5. CountsExact'
  <2>1. SUFFICES ASSUME NEW x \in Vars PROVE ref_count'[x] = References(x, rules')
    BY Zenon DEF CountsExact, References
  <2>2. ref_count'[x] = (ref_count[x] - References(x, rules)) + References(x, rules')
    BY <1>2 DEF inc_variable_refs, dec_variable_refs
  <2>3. References(x, rules) \in Nat /\ References(x, rules') \in Nat
    BY ReferencesType
  <2> QED BY <2>2, <2>3 DEF CountsExact
<1>6. VarsHeld'
  BY <1>2, StoreAssumption DEF VarsHeld, parse_db_rules, check_prototype
<1>7. ref_count' \in [Vars -> Int] /\ rules' \subseteq Rules
  BY <1>2, CountTypes DEF parse_db_rules
<1> QED BY <1>2, <1>3, <1>4, <1>5, <1>6, <1>7 DEF NotCrashed

LEMMA StartedInv ==
    ASSUME Intact, NEW loaded \in SUBSET Rules, Started(loaded),
           cache' \in [Vars -> Maybe], dbVars' \in [Vars -> Maybe],
           dbRules' \subseteq Rules,
           \A r \in loaded : check_prototype(r, cache')
    PROVE  Intact'
<1> USE StoreAssumption DEF Intact, TypeOK
<1>1. /\ rules' = loaded /\ status' = "up" /\ reset' = FALSE
      /\ ref_count' = inc_variable_refs([x \in Vars |-> 0], loaded)
  BY DEF Started
<1>2. CountsExact'
  <2>1. SUFFICES ASSUME NEW x \in Vars PROVE ref_count'[x] = References(x, rules')
    BY Zenon DEF CountsExact, References
  <2> QED BY <1>1, ReferencesType DEF inc_variable_refs
<1>3. VarsHeld'
  BY <1>1 DEF VarsHeld, check_prototype
<1>4. ref_count' \in [Vars -> Int]
  BY <1>1, CountTypes
<1> QED BY <1>1, <1>2, <1>3, <1>4, Zenon DEF NotCrashed

LEMMA StartInv ==
    ASSUME Intact, Start PROVE Intact'
<1> DEFINE c == IF stored THEN dbVars ELSE DefaultVars
           loaded == {r \in (IF stored THEN dbRules ELSE DefaultRules) : check_prototype(r, c)}
<1>1. Started(loaded) /\ cache' = c /\ dbVars' = c /\ dbRules' = dbRules \cup rules'
  BY DEF Start
<1>2. c \in [Vars -> Maybe]
  BY StoreAssumption DEF Intact, TypeOK
<1>3. loaded \subseteq Rules
  BY StoreAssumption DEF Intact, TypeOK
<1>4. \A r \in loaded : check_prototype(r, c)
  OBVIOUS
<1> HIDE DEF c, loaded
<1>5. dbRules' \subseteq Rules
  BY <1>1, <1>3 DEF Intact, TypeOK, Started
<1> QED BY <1>1, <1>2, <1>3, <1>4, <1>5, StartedInv

LEMMA StartUnreadableInv ==
    ASSUME Intact, Start_unreadable PROVE Intact'
<1> DEFINE c == cache_after(NoVars, DefaultVars)
           d == looked_up(c, parsed_vars(c, DefaultRules))
<1> USE StoreAssumption DEF Intact, TypeOK
<1>1. NoVars \in [Vars -> Maybe]
  BY DEF NoVars, Maybe
<1>2. d \in [Vars -> Maybe]
  <2>1. c \in [Vars -> Maybe]
    BY <1>1, CacheAfterKeeps
  <2> HIDE DEF c
  <2> QED BY <2>1, LookedUpKeeps
<1>3. db_after(NoVars, DefaultVars) \in [Vars -> Maybe]
  BY DEF db_after
<1>4. CASE Started({}) /\ cache' = dbVars /\ UNCHANGED <<dbVars, dbRules>>
  BY <1>4, StartedInv
<1>5. CASE /\ Started({r \in DefaultRules : check_prototype(r, DefaultVars)})
           /\ cache' = DefaultVars /\ UNCHANGED <<dbVars, dbRules>>
  <2> DEFINE loaded == {r \in DefaultRules : check_prototype(r, DefaultVars)}
  <2>1. loaded \subseteq Rules /\ \A r \in loaded : check_prototype(r, cache')
    BY <1>5
  <2> HIDE DEF loaded
  <2> QED BY <1>5, <2>1, StartedInv DEF loaded
<1>6. CASE /\ Started({r \in DefaultRules : check_prototype(r, d)})
           /\ cache' = d /\ dbVars' = db_after(NoVars, DefaultVars)
           /\ dbRules' = dbRules \cup rules'
  <2> DEFINE loaded == {r \in DefaultRules : check_prototype(r, d)}
  <2> HIDE DEF d
  <2>1. loaded \subseteq Rules /\ \A r \in loaded : check_prototype(r, cache')
    BY <1>6
  <2>2. Started(loaded) /\ rules' = loaded
    BY <1>6 DEF Started
  <2> HIDE DEF loaded
  <2> QED BY <1>2, <1>3, <1>6, <2>1, <2>2, StartedInv
<1> QED BY <1>4, <1>5, <1>6 DEF Start_unreadable

(***************************************************************************)
(* The handlers that drop rules.                                           *)
(***************************************************************************)
LEMMA DropInv ==
    ASSUME Intact, NEW gone \in SUBSET rules,
           cache' = looked_up(cache, VarsOf(gone)),
           ref_count' = dec_variable_refs(ref_count, gone),
           rules' = rules \ gone, dbRules' \subseteq Rules,
           reset' = FALSE, UNCHANGED <<status, dbVars>>
    PROVE  Intact'
<1> USE DEF Intact, TypeOK
<1>1. Keeps(cache') /\ cache' \in [Vars -> Maybe]
  BY LookedUpKeeps DEF Keeps
<1>2. CountsExact' /\ VarsHeld'
  BY <1>1, RulesDropped
<1> QED BY <1>1, <1>2, CountTypes, Zenon DEF NotCrashed

(***************************************************************************)
(* The handlers on variables.  remove_var only takes a variable whose      *)
(* count, and so whose number of references, is zero.                      *)
(***************************************************************************)
LEMMA AddVarInv ==
    ASSUME Intact, NEW x \in Vars, NEW v \in Vals, xcpmd_add_var(x, v)
    PROVE  Intact'
<1> DEFINE new == [NoVars EXCEPT ![x] = v]
<1> USE DEF Intact, TypeOK
<1>1. /\ cache' = cache_after(cache, new)
      /\ dbVars' = db_after(cache, new)
      /\ reset' = FALSE
      /\ UNCHANGED <<status, ref_count, rules, dbRules>>
  BY DEF xcpmd_add_var, Handled
<1>2. new \in [Vars -> Maybe]
  BY DEF NoVars, Maybe
<1> HIDE DEF new
<1>3. Keeps(cache') /\ cache' \in [Vars -> Maybe]
  BY <1>1, <1>2, CacheAfterKeeps DEF Keeps
<1>4. dbVars' \in [Vars -> Maybe]
  BY <1>1, <1>2 DEF db_after
<1>5. CountsExact' /\ VarsHeld'
  BY <1>1, <1>3, RulesKept
<1> QED BY <1>1, <1>3, <1>4, <1>5, Zenon DEF NotCrashed

LEMMA RemoveVarInv ==
    ASSUME Intact, NEW x \in Vars, xcpmd_remove_var(x)
    PROVE  Intact'
<1> USE DEF Intact, TypeOK
<1>1. /\ ref_count[x] <= 0
      /\ cache' = [cache EXCEPT ![x] = NoVal]
      /\ ref_count' = [ref_count EXCEPT ![x] = 0]
      /\ dbVars' = [dbVars EXCEPT ![x] = NoVal]
      /\ reset' = FALSE
      /\ UNCHANGED <<status, rules, dbRules>>
  BY DEF xcpmd_remove_var, uncachable, Handled
<1>2. References(x, rules) = 0
  BY <1>1, ReferencesType DEF CountsExact
<1>3. \A a \in Args : ArgRule[a] \in rules => ArgVar[a] # x
  BY <1>2, ReferencesNone
<1>4. CountsExact'
  <2>1. SUFFICES ASSUME NEW y \in Vars PROVE ref_count'[y] = References(y, rules)
    BY <1>1 DEF CountsExact, References
  <2> QED BY <1>1, <1>2 DEF CountsExact
<1>5. VarsHeld'
  BY <1>1, <1>3, StoreAssumption DEF VarsHeld
<1>6. /\ cache' \in [Vars -> Maybe]
      /\ dbVars' \in [Vars -> Maybe]
      /\ ref_count' \in [Vars -> Int]
  BY <1>1 DEF Maybe
<1> QED BY <1>1, <1>4, <1>5, <1>6, Zenon DEF NotCrashed

LEMMA ForgetInv ==
    ASSUME Intact, Memoryless, status' \in {"up", "stopped"},
           dbVars' \in [Vars -> Maybe], dbRules' \subseteq Rules, reset' = FALSE
    PROVE  Intact'
<1>1. CountsExact' /\ VarsHeld'
  BY MemorylessInv
<1>2. NoVars \in [Vars -> Maybe]
  BY DEF NoVars, Maybe
<1>3. ref_count' \in [Vars -> Int] /\ rules' \subseteq Rules
  BY DEF Memoryless
<1> QED BY <1>1, <1>2, <1>3, Zenon DEF Intact, TypeOK, NotCrashed, Memoryless

(***************************************************************************)
(* The inductive step, one action at a time.                               *)
(***************************************************************************)
LEMMA IntactStep == ASSUME NoClear, Intact, [Next]_vars PROVE Intact'
<1>0. NoVars \in [Vars -> Maybe]
  BY DEF NoVars, Maybe
<1>1. CASE Handler
  <2>1. ASSUME NEW r \in Rules, xcpmd_add_rule(r) PROVE Intact'
    BY <2>1, AddRuleInv
  <2>2. ASSUME NEW r \in Rules, xcpmd_remove_rule(r) PROVE Intact'
    <3>1. {r} \in SUBSET rules
      BY <2>2 DEF xcpmd_remove_rule
    <3>2. ~Dangling({r})
      BY <3>1, NothingDangles DEF Intact
    <3> QED BY <2>2, <3>1, <3>2, DropInv, Zenon DEF xcpmd_remove_rule, Handled, Intact, TypeOK
  <2>3. ASSUME NEW new \in [Vars -> Maybe], NEW texts \in SUBSET Rules,
               xcpmd_load_policy_from_file(new, texts)
        PROVE  Intact'
    BY <2>3, LoadFileInv
  <2>4. CASE xcpmd_clear_policy
    <3>1. ~Dangling(rules)
      BY NothingDangles DEF Intact
    <3> QED BY <1>0, <2>4, <3>1, ForgetInv, Zenon DEF xcpmd_clear_policy, Handled
  <2>5. CASE xcpmd_clear_rules
    <3>1. ~Dangling(rules) /\ rules \in SUBSET rules
      BY NothingDangles DEF Intact
    <3> QED BY <2>5, <3>1, DropInv, Zenon DEF xcpmd_clear_rules, Handled
  <2>6. CASE xcpmd_clear_vars
    BY <2>6 DEF xcpmd_clear_vars, NoClear
  <2>7. ASSUME NEW x \in Vars, NEW v \in Vals, xcpmd_add_var(x, v) PROVE Intact'
    BY <2>7, AddVarInv
  <2>8. ASSUME NEW x \in Vars, xcpmd_remove_var(x) PROVE Intact'
    BY <2>8, RemoveVarInv
  <2>9. ASSUME NEW a \in Args, get_arg(a) PROVE Intact'
    <3> USE DEF Intact, TypeOK
    <3>1. lookup_var(cache, ArgVar[a]) # NoVal
      BY <2>9 DEF get_arg, VarsHeld, lookup_var
    <3>2. /\ cache' = looked_up(cache, {ArgVar[a]})
          /\ reset' = FALSE
          /\ UNCHANGED <<status, ref_count, rules, dbVars, dbRules>>
      BY <2>9, <3>1 DEF get_arg, Handled
    <3>3. Keeps(cache') /\ cache' \in [Vars -> Maybe]
      BY <3>2, LookedUpKeeps DEF Keeps
    <3>4. CountsExact' /\ VarsHeld'
      BY <3>2, <3>3, RulesKept
    <3> QED BY <3>2, <3>3, <3>4, Zenon DEF NotCrashed
  <2>10. CASE Stop \/ clear_policy_killed
    BY <2>10, ForgetInv, Zenon DEF Stop, clear_policy_killed, Killed, Handled, Intact, TypeOK
  <2>11. CASE xcpmd_load_policy_from_db
    BY <2>11, LoadDbInv
  <2>12. ASSUME NEW new \in [Vars -> Maybe], load_policy_from_file_killed(new) PROVE Intact'
    <3>1. dbVars' \in [Vars -> Maybe] /\ dbRules' \subseteq Rules
      BY <2>12 DEF load_policy_from_file_killed, db_after, Intact, TypeOK
    <3> QED BY <2>12, <3>1, ForgetInv, Zenon DEF load_policy_from_file_killed, Killed, Handled
  <2> QED BY <1>1, <2>1, <2>2, <2>3, <2>4, <2>5, <2>6, <2>7, <2>8, <2>9, <2>10, <2>11, <2>12
          DEF Handler
<1>2. CASE Start
  BY <1>2, StartInv
<1>3. CASE OtherWriter
  BY <1>3, Zenon DEF OtherWriter, memory, Intact, TypeOK, CountsExact, References,
              VarsHeld, NotCrashed
<1>4. CASE UNCHANGED vars
  BY <1>4 DEF vars, Intact, TypeOK, CountsExact, References, VarsHeld,
              NotCrashed
<1>5. CASE Start_unreadable
  BY <1>5, StartUnreadableInv
<1>6. CASE Start_killed
  <2>1. dbVars' \in [Vars -> Maybe] /\ dbRules' \subseteq Rules
    BY <1>6, StoreAssumption DEF Start_killed, Intact, TypeOK
  <2> QED BY <1>6, <2>1, Zenon DEF Start_killed, memory, Intact, TypeOK, CountsExact, References,
                            VarsHeld, NotCrashed
<1> QED BY <1>1, <1>2, <1>3, <1>4, <1>5, <1>6 DEF Next

(***************************************************************************)
(* The surroundings do not change.                                         *)
(***************************************************************************)
LEMMA EnvironmentFixed == ASSUME [Next]_vars PROVE UNCHANGED environment
<1>1. CASE Handler
  BY <1>1, Zenon DEF Handler, Handled, xcpmd_add_rule, xcpmd_remove_rule, xcpmd_add_var,
              xcpmd_load_policy_from_file, xcpmd_load_policy_from_db,
              xcpmd_clear_policy, xcpmd_clear_rules, xcpmd_clear_vars,
              xcpmd_remove_var, get_arg, Stop, Killed, clear_policy_killed,
              load_policy_from_file_killed
<1>2. CASE Start \/ Start_killed \/ Start_unreadable \/ OtherWriter \/ UNCHANGED vars
  BY <1>2 DEF Start, Start_killed, Start_unreadable, Started, OtherWriter, vars
<1> QED BY <1>1, <1>2 DEF Next

(***************************************************************************)
(* Where clear_vars is not called, reference counts are exact, every       *)
(* variable a loaded rule refers to stays cached at the type the rule was  *)
(* checked with, and no handler dereferences NULL - whatever the RPCs,     *)
(* restarts and other writers of the DB do, in any order.                  *)
(***************************************************************************)
THEOREM StoreInvariant == Spec => []StoreInv
<1>1. Init => StoreInv
  BY InitIntact, Zenon DEF Init, StoreInv
<1>2. StoreInv /\ [Next]_vars => StoreInv'
  <2>1. SUFFICES ASSUME StoreInv, [Next]_vars PROVE StoreInv'
    OBVIOUS
  <2>2. UNCHANGED environment
    BY <2>1, EnvironmentFixed
  <2>3. ASSUME NoClear PROVE Intact'
    BY <2>1, <2>3, IntactStep DEF StoreInv
  <2> QED BY <2>1, <2>2, <2>3 DEF StoreInv, NoClear
<1> QED BY <1>1, <1>2, PTL DEF Spec

(***************************************************************************)
(* In particular remove_var, add_var, reloads and other writers never take *)
(* a variable away from a rule that refers to it, nor retype it.           *)
(***************************************************************************)
THEOREM VariablesStayHeld == Spec => []ReferencedVarsHeld
<1>1. StoreInv => ReferencedVarsHeld
  BY DEF StoreInv, Intact, ReferencedVarsHeld
<1> QED BY <1>1, StoreInvariant, PTL

-----------------------------------------------------------------------------
(***************************************************************************)
(* The cache against the DB, in every environment without other writers.   *)
(***************************************************************************)
CoherenceInv ==
    /\ cache \in [Vars -> Maybe] /\ dbVars \in [Vars -> Maybe]
    /\ CacheCoherent

\* Reading what is in the DB into a cache that agrees with it changes nothing,
\* and adding variables changes both alike.
LEMMA CoherentReads ==
    ASSUME dbVars \in [Vars -> Maybe], NEW xs PROVE looked_up(dbVars, xs) = dbVars
BY DEF looked_up, lookup_var

LEMMA CoherentAdds ==
    ASSUME dbVars \in [Vars -> Maybe], NEW new \in [Vars -> Maybe]
    PROVE  cache_after(dbVars, new) = db_after(dbVars, new)
BY DEF cache_after, db_after, lookup_var, same_type

LEMMA CoherentReloads ==
    ASSUME dbVars \in [Vars -> Maybe] PROVE cache_after(dbVars, dbVars) = dbVars
BY DEF cache_after, lookup_var, same_type

LEMMA AddsAreTyped ==
    ASSUME NEW c \in [Vars -> Maybe], NEW new \in [Vars -> Maybe],
           dbVars \in [Vars -> Maybe]
    PROVE  db_after(c, new) \in [Vars -> Maybe]
BY DEF db_after

LEMMA CoherenceStep == ASSUME CoherenceInv, [Next]_vars PROVE CoherenceInv'
<1> USE DEF CoherenceInv, CacheCoherent, NoOthers
<1>0. NoVars \in [Vars -> Maybe]
  BY DEF NoVars, Maybe
<1>1. UNCHANGED environment
  BY EnvironmentFixed
<1>2. CASE Handler
  <2>0. status = "up"
    BY <1>2, Zenon DEF Handler, Handled, xcpmd_add_rule, xcpmd_remove_rule, xcpmd_add_var,
                xcpmd_load_policy_from_file, xcpmd_load_policy_from_db,
                xcpmd_clear_policy, xcpmd_clear_rules, xcpmd_clear_vars,
                xcpmd_remove_var, get_arg, Stop, Killed, clear_policy_killed,
                load_policy_from_file_killed
  <2>1. ASSUME NEW r \in Rules, xcpmd_add_rule(r) PROVE CoherenceInv'
    <3>1. cache' = cache_after(cache, dbVars) /\ UNCHANGED dbVars
      BY <2>1 DEF xcpmd_add_rule
    <3> QED BY <1>1, <2>0, <3>1, CacheAfterKeeps, CoherentReloads
  <2>2. ASSUME NEW r \in Rules, xcpmd_remove_rule(r) PROVE CoherenceInv'
    <3>1. \/ NullDereference
          \/ cache' = looked_up(cache, VarsOf({r})) /\ UNCHANGED dbVars
      BY <2>2 DEF xcpmd_remove_rule
    <3> QED BY <1>0, <1>1, <2>0, <3>1, LookedUpKeeps, CoherentReads DEF NullDereference, Memoryless
  <2>3. ASSUME NEW new \in [Vars -> Maybe], NEW texts \in SUBSET Rules,
               xcpmd_load_policy_from_file(new, texts)
        PROVE  CoherenceInv'
    <3> DEFINE c == cache_after(cache, new)
               xs == parsed_vars(c, texts)
    <3>1. cache' = looked_up(c, xs) /\ dbVars' = db_after(cache, new)
      BY <2>3 DEF xcpmd_load_policy_from_file
    <3>2. c \in [Vars -> Maybe] /\ dbVars' \in [Vars -> Maybe]
      BY <3>1, CacheAfterKeeps, AddsAreTyped
    <3>3. cache = dbVars => c = dbVars'
      BY <3>1, CoherentAdds
    <3> HIDE DEF c, xs
    <3>4. cache' \in [Vars -> Maybe]
      BY <3>1, <3>2, LookedUpKeeps
    <3>5. ASSUME cache = dbVars PROVE cache' = dbVars'
      \* What is added stays what lookup_var() finds; the rest is in both.
      <4>1. \A x \in Vars : c[x] = NoVal => dbVars[x] = NoVal
        BY <3>5, CacheAfterKeeps DEF c
      <4>2. \A x \in Vars : looked_up(c, xs)[x] = c[x]
        BY <4>1, <3>2 DEF looked_up, lookup_var
      <4>3. looked_up(c, xs) = c
        BY <4>2, <3>2, <3>4, <3>1
      <4> QED BY <3>1, <3>3, <3>5, <4>3
    <3> QED BY <1>1, <2>0, <3>2, <3>4, <3>5
  <2>4. CASE xcpmd_clear_policy \/ xcpmd_clear_vars
    BY <1>0, <1>1, <2>0, <2>4 DEF xcpmd_clear_policy, xcpmd_clear_vars, NullDereference, Memoryless
  <2>5. CASE xcpmd_clear_rules
    <3>1. \/ NullDereference
          \/ cache' = looked_up(cache, VarsOf(rules)) /\ UNCHANGED dbVars
      BY <2>5 DEF xcpmd_clear_rules
    <3> QED BY <1>0, <1>1, <2>0, <3>1, LookedUpKeeps, CoherentReads DEF NullDereference, Memoryless
  <2>6. ASSUME NEW x \in Vars, NEW v \in Vals, xcpmd_add_var(x, v) PROVE CoherenceInv'
    <3> DEFINE new == [NoVars EXCEPT ![x] = v]
    <3>1. cache' = cache_after(cache, new) /\ dbVars' = db_after(cache, new)
      BY <2>6 DEF xcpmd_add_var
    <3>2. new \in [Vars -> Maybe]
      BY DEF NoVars, Maybe
    <3> HIDE DEF new
    <3> QED BY <1>1, <2>0, <3>1, <3>2, CacheAfterKeeps, AddsAreTyped, CoherentAdds
  <2>7. ASSUME NEW x \in Vars, xcpmd_remove_var(x) PROVE CoherenceInv'
    BY <1>1, <2>0, <2>7, Zenon DEF xcpmd_remove_var, Maybe
  <2>8. ASSUME NEW a \in Args, get_arg(a) PROVE CoherenceInv'
    <3>1. \/ NullDereference
          \/ cache' = looked_up(cache, {ArgVar[a]}) /\ UNCHANGED dbVars
      BY <2>8 DEF get_arg
    <3> QED BY <1>0, <1>1, <2>0, <3>1, LookedUpKeeps, CoherentReads DEF NullDereference, Memoryless
  <2>9. CASE Stop \/ clear_policy_killed
    BY <1>0, <2>9 DEF Stop, clear_policy_killed, Killed, Memoryless
  <2>10. ASSUME NEW new \in [Vars -> Maybe], load_policy_from_file_killed(new)
         PROVE  CoherenceInv'
    BY <1>0, <2>10, AddsAreTyped DEF load_policy_from_file_killed, Killed, Memoryless
  <2>11. CASE xcpmd_load_policy_from_db
    <3> DEFINE c == looked_up(cache, VarsOf(rules))
    <3>1. \/ NullDereference
          \/ cache' = cache_after(c, dbVars) /\ UNCHANGED dbVars
      BY <2>11 DEF xcpmd_load_policy_from_db
    <3>2. c \in [Vars -> Maybe] /\ (cache = dbVars => c = dbVars)
      BY LookedUpKeeps, CoherentReads
    <3> HIDE DEF c
    <3> QED BY <1>0, <1>1, <2>0, <3>1, <3>2, CacheAfterKeeps, CoherentReloads
            DEF NullDereference, Memoryless
  <2> QED BY <1>2, <2>1, <2>2, <2>3, <2>4, <2>5, <2>6, <2>7, <2>8, <2>9, <2>10, <2>11, SMTT(20) DEF Handler
<1>3. CASE Start
  BY <1>3, StoreAssumption DEF Start
<1>4. CASE Start_unreadable
  <2>1. cache' \in [Vars -> Maybe] /\ dbVars' \in [Vars -> Maybe]
    <3> DEFINE c == cache_after(NoVars, DefaultVars)
               d == looked_up(c, parsed_vars(c, DefaultRules))
    <3>1. d \in [Vars -> Maybe]
      <4>1. c \in [Vars -> Maybe]
        BY <1>0, StoreAssumption, CacheAfterKeeps
      <4> HIDE DEF c
      <4> QED BY <4>1, LookedUpKeeps
    <3>2. /\ cache' \in {dbVars, DefaultVars, d}
          /\ dbVars' \in {dbVars, db_after(NoVars, DefaultVars)}
      BY <1>4 DEF Start_unreadable
    <3> HIDE DEF d
    <3> QED BY <1>0, <3>1, <3>2, StoreAssumption, AddsAreTyped
  <2> QED BY <1>1, <1>4, <2>1 DEF Start_unreadable
<1>5. CASE Start_killed
  <2>1. dbVars' \in [Vars -> Maybe]
    BY <1>5, StoreAssumption DEF Start_killed
  <2> QED BY <1>5, <2>1 DEF Start_killed, memory
<1>6. CASE OtherWriter
  BY <1>1, <1>6 DEF OtherWriter, memory
<1>7. CASE UNCHANGED vars
  BY <1>7 DEF vars
<1> QED BY <1>2, <1>3, <1>4, <1>5, <1>6, <1>7 DEF Next

LEMMA CoherenceAlways == Spec => []CoherenceInv
<1>1. Init => CoherenceInv
  BY DEF Init, CoherenceInv, CacheCoherent, NoVars, Maybe
<1> QED BY <1>1, CoherenceStep, PTL DEF Spec

\* While xcpmd is up its cache is the DB's contents, through every RPC, restart
\* and kill, if nobody else writes the DB and it can be read at start.
THEOREM CacheStaysCoherent == Spec => []CacheCoherent
<1>1. CoherenceInv => CacheCoherent
  BY DEF CoherenceInv
<1> QED BY <1>1, CoherenceAlways, PTL

-----------------------------------------------------------------------------
(***************************************************************************)
(* Rules in the DB.                                                        *)
(***************************************************************************)
\* A rule that can be loaded with the variables vs can be with others that keep
\* what vs has, at its types.
LEMMA ValidStaysValid ==
    ASSUME NEW vs \in [Vars -> Maybe], NEW ws \in [Vars -> Maybe],
           \A x \in Vars : vs[x] # NoVal => ws[x] # NoVal /\ TypeOf[ws[x]] = TypeOf[vs[x]],
           NEW r, check_prototype(r, vs)
    PROVE  check_prototype(r, ws)
BY StoreAssumption DEF check_prototype

\* The DB's variables after additions through a cache that agrees with it, or an
\* empty one, keep what was there at its types.
LEMMA AddsKeepTypes ==
    ASSUME NEW c \in {dbVars, NoVars}, NEW new \in [Vars -> Maybe], dbVars \in [Vars -> Maybe]
    PROVE  \A x \in Vars : dbVars[x] # NoVal =>
              /\ db_after(c, new)[x] # NoVal
              /\ TypeOf[db_after(c, new)[x]] = TypeOf[dbVars[x]]
BY DEF db_after, lookup_var, same_type, NoVars

\* No rule in the DB that can be loaded from there is lost when the process is
\* stopped, killed or started, whatever handler or load is cut short.
THEOREM StoredSurvive == Spec => StoredRulesSurvive
<1> DEFINE Survive == \/ status = "up" /\ (status' = "up" \/ ~NoOthers)
                      \/ clear_policy_killed \/ OtherWriter
                      \/ parse_db_rules(dbVars) \subseteq parse_db_rules(dbVars)'
<1>1. ASSUME CoherenceInv, Next PROVE Survive
  <2>0. NoVars \in [Vars -> Maybe]
    BY DEF NoVars, Maybe
  <2>1. ASSUME NEW c \in {dbVars, NoVars}, NEW new \in [Vars -> Maybe],
               dbVars' = db_after(c, new), dbRules \subseteq dbRules'
        PROVE  parse_db_rules(dbVars) \subseteq parse_db_rules(dbVars)'
    <3>1. dbVars \in [Vars -> Maybe] /\ dbVars' \in [Vars -> Maybe]
      BY <1>1, <2>0, <2>1, AddsAreTyped DEF CoherenceInv
    <3>2. \A x \in Vars : dbVars[x] # NoVal =>
             dbVars'[x] # NoVal /\ TypeOf[dbVars'[x]] = TypeOf[dbVars[x]]
      BY <2>1, <3>1, AddsKeepTypes
    <3>3. ASSUME NEW r, check_prototype(r, dbVars) PROVE check_prototype(r, dbVars')
      BY <3>1, <3>2, <3>3, ValidStaysValid
    <3> QED BY <2>1, <3>3 DEF parse_db_rules, check_prototype
  <2>2. ASSUME UNCHANGED <<dbVars, dbRules>> PROVE Survive
    BY <2>2 DEF parse_db_rules, check_prototype
  <2>3. ASSUME ~stored PROVE Survive
    BY <2>3 DEF stored, policy_exists
  <2>4. CASE Handler
    <3>1. CASE Stop
      BY <2>2, <3>1 DEF Stop
    <3>2. ASSUME NEW new \in [Vars -> Maybe], load_policy_from_file_killed(new) PROVE Survive
      <4>1. /\ status = "up" /\ dbVars' = db_after(cache, new) /\ dbRules \subseteq dbRules'
        BY <3>2 DEF load_policy_from_file_killed, Killed, Handled
      <4>2. CASE NoOthers
        <5>1. cache = dbVars
          BY <1>1, <4>1, <4>2 DEF CoherenceInv, CacheCoherent
        <5> QED BY <2>1, <4>1, <5>1
      <4> QED BY <4>1, <4>2
    <3>3. CASE NullDereference
      BY <2>2, <3>3 DEF NullDereference
    <3>4. CASE ~Stop /\ ~clear_policy_killed /\ ~NullDereference
               /\ ~(\E new \in [Vars -> Maybe] : load_policy_from_file_killed(new))
      <4>1. status = "up" /\ status' = "up"
        BY <2>4, <3>4, Zenon DEF Handler, Handled, xcpmd_add_rule, xcpmd_remove_rule, xcpmd_add_var,
                xcpmd_load_policy_from_file, xcpmd_load_policy_from_db,
                xcpmd_clear_policy, xcpmd_clear_rules, xcpmd_clear_vars,
                xcpmd_remove_var, get_arg
      <4> QED BY <4>1, SMTT(20)
    <3> QED BY <3>1, <3>2, <3>3, <3>4
  <2>5. CASE Start
    <3>1. CASE stored
      <4>1. dbVars' = dbVars /\ dbRules \subseteq dbRules'
        BY <2>5, <3>1 DEF Start
      <4> QED BY <4>1 DEF parse_db_rules, check_prototype
    <3> QED BY <2>3, <3>1
  <2>6. CASE Start_killed
    BY <2>3, <2>6 DEF Start_killed
  <2>7. CASE Start_unreadable
    <3>1. \/ UNCHANGED <<dbVars, dbRules>>
          \/ dbVars' = db_after(NoVars, DefaultVars) /\ dbRules \subseteq dbRules'
      BY <2>7 DEF Start_unreadable
    <3> QED BY <2>1, <2>2, <3>1, StoreAssumption
  <2> QED BY <1>1, <2>4, <2>5, <2>6, <2>7 DEF Next
<1>2. CoherenceInv /\ [Next]_vars => [Survive]_vars
  BY <1>1
<1>3. [][Survive]_vars => StoredRulesSurvive
  BY PTL DEF StoredRulesSurvive
<1> QED BY <1>2, <1>3, CoherenceAlways, PTL DEF Spec

\* Memory and DB hold the same rules while xcpmd is up, and what it leaves in the
\* DB can be loaded, cut short or not.
RestartInv ==
    NoClear /\ NoOthers =>
        IF status = "up" THEN dbRules = rules
        ELSE \A r \in dbRules : check_prototype(r, dbVars)

LEMMA HeldIsValid ==
    ASSUME VarsHeld, NEW r \in rules PROVE check_prototype(r, cache)
BY StoreAssumption DEF VarsHeld, check_prototype

LEMMA RestartStep ==
    ASSUME NoClear, NoOthers, Intact, CoherenceInv, RestartInv, [Next]_vars
    PROVE  RestartInv'
<1>0. dbVars \in [Vars -> Maybe] /\ cache \in [Vars -> Maybe]
  BY DEF CoherenceInv
<1>1. CASE Handler
  <2>0. status = "up"
    BY <1>1, Zenon DEF Handler, Handled, xcpmd_add_rule, xcpmd_remove_rule, xcpmd_add_var,
                xcpmd_load_policy_from_file, xcpmd_load_policy_from_db,
                xcpmd_clear_policy, xcpmd_clear_rules, xcpmd_clear_vars,
                xcpmd_remove_var, get_arg, Stop, Killed, clear_policy_killed,
                load_policy_from_file_killed
  <2>1. cache = dbVars /\ dbRules = rules
    BY <2>0 DEF CoherenceInv, CacheCoherent, RestartInv
  <2>2. \A r \in dbRules : check_prototype(r, dbVars)
    BY <2>1, HeldIsValid DEF Intact
  <2>3. ~Dangling(rules) /\ \A r \in rules : ~Dangling({r})
    BY NothingDangles DEF Intact
  <2>4. ASSUME NEW r \in Rules, xcpmd_add_rule(r) \/ xcpmd_remove_rule(r) PROVE RestartInv'
    BY <2>0, <2>1, <2>3, <2>4 DEF RestartInv, xcpmd_add_rule, xcpmd_remove_rule
  <2>5. ASSUME NEW new \in [Vars -> Maybe], NEW texts \in SUBSET Rules,
               xcpmd_load_policy_from_file(new, texts)
        PROVE  RestartInv'
    <3>1. /\ dbRules' = dbRules \cup rules' /\ rules \subseteq rules' /\ status' = "up"
      BY <2>0, <2>5 DEF xcpmd_load_policy_from_file
    <3> QED BY <2>1, <3>1 DEF RestartInv
  <2>6. CASE xcpmd_clear_policy \/ xcpmd_clear_rules
    BY <2>0, <2>3, <2>6 DEF RestartInv, xcpmd_clear_policy, xcpmd_clear_rules, Memoryless
  <2>7. CASE xcpmd_clear_vars
    BY <2>7 DEF xcpmd_clear_vars, NoClear
  <2>8. ASSUME NEW x \in Vars, xcpmd_remove_var(x) \/ \E v \in Vals : xcpmd_add_var(x, v)
        PROVE  RestartInv'
    BY <2>0, <2>1, <2>8, Zenon DEF RestartInv, xcpmd_remove_var, xcpmd_add_var
  <2>9. ASSUME NEW a \in Args, get_arg(a) PROVE RestartInv'
    <3>1. lookup_var(cache, ArgVar[a]) # NoVal
      BY <2>9 DEF get_arg, VarsHeld, lookup_var, Intact
    <3> QED BY <2>0, <2>1, <2>9, <3>1 DEF RestartInv, get_arg
  <2>10. CASE Stop
    BY <2>2, <2>10 DEF RestartInv, Stop, Killed
  <2>11. CASE clear_policy_killed
    BY <2>11 DEF RestartInv, clear_policy_killed, Killed
  <2>12. ASSUME NEW new \in [Vars -> Maybe], load_policy_from_file_killed(new)
         PROVE  RestartInv'
    <3> DEFINE c == cache_after(cache, new)
               d == looked_up(c, Vars)
    <3>1. /\ status' = "stopped" /\ dbVars' = db_after(cache, new)
          /\ dbRules' \subseteq dbRules \cup rules \cup {r \in Rules : check_prototype(r, d)}
      BY <2>12 DEF load_policy_from_file_killed, Killed
    <3>2. dbVars' \in [Vars -> Maybe] /\ c \in [Vars -> Maybe]
      BY <1>0, <3>1, AddsAreTyped, CacheAfterKeeps
    <3>3. c = dbVars'
      BY <1>0, <2>1, <3>1, CoherentAdds
    <3>4. \A x \in Vars : c[x] = NoVal => dbVars[x] = NoVal
      BY <1>0, <2>1, CacheAfterKeeps
    <3> HIDE DEF c
    <3>5. d = c
      <4>1. \A x \in Vars : d[x] = c[x]
        BY <3>2, <3>4 DEF looked_up, lookup_var
      <4>2. d \in [Vars -> Maybe]
        BY <1>0, <3>2, LookedUpKeeps
      <4> HIDE DEF d
      <4> QED BY <3>2, <4>1, <4>2
    <3> HIDE DEF d
    <3>6. \A x \in Vars : dbVars[x] # NoVal =>
             dbVars'[x] # NoVal /\ TypeOf[dbVars'[x]] = TypeOf[dbVars[x]]
      BY <1>0, <2>1, <3>1, AddsKeepTypes
    <3>7. ASSUME NEW r \in dbRules PROVE check_prototype(r, dbVars')
      BY <1>0, <2>2, <3>2, <3>6, ValidStaysValid
    <3> QED BY <2>1, <3>1, <3>3, <3>5, <3>7 DEF RestartInv
  <2>13. CASE xcpmd_load_policy_from_db
    <3> DEFINE c == looked_up(cache, VarsOf(rules))
    <3>1. /\ rules' = IF parse_db_vars(c) THEN parse_db_rules(cache_after(c, dbVars)) ELSE {}
          /\ UNCHANGED <<status, dbRules>>
      BY <2>3, <2>13 DEF xcpmd_load_policy_from_db
    <3>2. c = dbVars
      BY <1>0, <2>1, CoherentReads
    <3> HIDE DEF c
    <3>3. parse_db_vars(c)
      BY <3>2 DEF parse_db_vars, same_type, lookup_var
    <3>4. rules' = parse_db_rules(dbVars)
      BY <1>0, <3>1, <3>2, <3>3, CoherentReloads
    <3> QED BY <2>0, <2>2, <3>1, <3>4 DEF RestartInv, parse_db_rules
  <2> QED BY <1>1, <2>4, <2>5, <2>6, <2>7, <2>8, <2>9, <2>10, <2>11, <2>12, <2>13, SMTT(20) DEF Handler
<1>2. CASE Start \/ Start_killed
  <2>1. status # "up"
    BY <1>2 DEF Start, Started, Start_killed
  <2>2. \A r \in dbRules : check_prototype(r, dbVars)
    BY <2>1 DEF RestartInv
  <2>3. ~stored => dbRules = {}
    BY <2>2 DEF stored, policy_exists, parse_db_rules
  <2>4. CASE Start
    <3>1. /\ status' = "up" /\ dbRules' = dbRules \cup rules'
          /\ stored => rules' = {r \in dbRules : check_prototype(r, dbVars)}
      BY <2>4 DEF Start, Started
    <3>2. dbRules' = rules'
      BY <2>2, <2>3, <3>1
    <3> QED BY <3>1, <3>2 DEF RestartInv
  <2>5. CASE Start_killed
    <3>1. ~stored /\ status' = status
      BY <2>5 DEF Start_killed
    <3>2. \/ dbRules' = {}
          \/ dbVars' = DefaultVars /\ \A r \in dbRules' : check_prototype(r, DefaultVars)
      BY <2>3, <2>5, <3>1 DEF Start_killed
    <3> QED BY <2>1, <3>1, <3>2 DEF RestartInv
  <2> QED BY <1>2, <2>4, <2>5
<1>3. CASE Start_unreadable \/ OtherWriter
  BY <1>3 DEF Start_unreadable, OtherWriter, NoOthers
<1>4. CASE UNCHANGED vars
  BY <1>4 DEF vars, RestartInv, NoClear, NoOthers, check_prototype
<1> QED BY <1>1, <1>2, <1>3, <1>4 DEF Next

\* A restart restores exactly the rules that are loaded, whatever RPCs, restarts
\* and kills there were: what the handlers do to the rule list and to the DB,
\* each in a call of its own, stays the same.
THEOREM RestartRestores == Spec => []RestartKeepsRules
<1>1. Init => RestartInv
  BY DEF Init, RestartInv
<1>2. StoreInv /\ CoherenceInv /\ RestartInv /\ [Next]_vars => RestartInv'
  <2> SUFFICES ASSUME StoreInv, CoherenceInv, RestartInv, [Next]_vars PROVE RestartInv'
    OBVIOUS
  <2>1. UNCHANGED environment
    BY EnvironmentFixed
  <2>2. CASE NoClear /\ NoOthers
    BY <2>2, RestartStep DEF StoreInv
  <2>3. CASE ~(NoClear /\ NoOthers)
    BY <2>1, <2>3 DEF RestartInv, NoClear, NoOthers
  <2> QED BY <2>2, <2>3
<1>3. StoreInv /\ CoherenceInv /\ RestartInv => RestartKeepsRules
  <2> SUFFICES ASSUME StoreInv, CoherenceInv, RestartInv, NoClear, NoOthers, status = "up"
               PROVE  rules = parse_db_rules(dbVars)
    BY DEF RestartKeepsRules
  <2>1. cache = dbVars /\ dbRules = rules /\ VarsHeld
    BY DEF CoherenceInv, CacheCoherent, RestartInv, StoreInv, Intact
  <2>2. \A r \in rules : check_prototype(r, dbVars)
    BY <2>1, HeldIsValid
  <2> QED BY <2>1, <2>2 DEF parse_db_rules
<1> QED BY <1>1, <1>2, <1>3, StoreInvariant, CoherenceAlways, PTL DEF Spec

-----------------------------------------------------------------------------
(***************************************************************************)
(* What load_policy_from_db leaves.                                        *)
(***************************************************************************)
\* Every action but load_policy_from_db takes the mark off.
LEMMA OnlyReloadMarks ==
    ASSUME [Next]_vars, reset' PROVE xcpmd_load_policy_from_db \/ UNCHANGED vars
<1> USE DEF Handled
<1>1. CASE Handler
  <2>1. ~xcpmd_load_policy_from_db => ~reset'
    BY <1>1, Zenon DEF Handler, xcpmd_add_rule, xcpmd_remove_rule, xcpmd_add_var,
                xcpmd_load_policy_from_file, xcpmd_clear_policy, xcpmd_clear_rules,
                xcpmd_clear_vars, xcpmd_remove_var, get_arg, Stop, Killed,
                clear_policy_killed, load_policy_from_file_killed
  <2> QED BY <2>1, SMTT(20)
<1>2. CASE Start \/ Start_killed \/ Start_unreadable \/ OtherWriter
  BY <1>2 DEF Start, Start_killed, Start_unreadable, OtherWriter, Started
<1> QED BY <1>1, <1>2 DEF Next

\* After a successful load_policy_from_db the cache has every variable as the DB
\* has it and the rules are those of the DB that validate; for any rules and
\* variables, whatever other programs wrote to the DB before.
THEOREM ReloadIsExact == Spec => []ReloadReadsDb
<1>1. Init => ReloadReadsDb
  BY DEF Init, ReloadReadsDb
<1>2. ASSUME CoherenceInv, CoherenceInv', ReloadReadsDb, [Next]_vars PROVE ReloadReadsDb'
  <2> SUFFICES ASSUME reset' PROVE ReloadReadsDb'
    BY DEF ReloadReadsDb
  <2>1. CASE UNCHANGED vars
    BY <1>2, <2>1 DEF vars, ReloadReadsDb, NoOthers, parse_db_rules, check_prototype
  <2>2. CASE xcpmd_load_policy_from_db
    <3> DEFINE c == looked_up(cache, VarsOf(rules))
    <3>1. /\ status' = "up" /\ UNCHANGED <<dbVars, dbRules>>
          /\ parse_db_vars(c)
          /\ cache' = cache_after(c, dbVars)
          /\ rules' = parse_db_rules(cache')
      BY <2>2, Zenon DEF xcpmd_load_policy_from_db, Handled
    <3> HIDE DEF c
    <3>2. \A x \in Vars : dbVars[x] # NoVal => cache'[x] = dbVars[x]
      BY <3>1 DEF parse_db_vars, cache_after
    <3>3. cache' # dbVars' => ~NoOthers'
      BY <1>2, <3>1 DEF CoherenceInv, CacheCoherent
    <3>4. rules' = parse_db_rules(cache)'
      BY <3>1 DEF parse_db_rules, check_prototype
    <3> QED BY <3>1, <3>2, <3>3, <3>4 DEF ReloadReadsDb
  <2> QED BY <1>2, <2>1, <2>2, OnlyReloadMarks
<1> QED BY <1>1, <1>2, CoherenceAlways, PTL DEF Spec
=============================================================================
