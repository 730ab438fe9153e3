---------------------------- MODULE PolicyStore ----------------------------
(***************************************************************************)
(* The policy store of xcpmd: the rules and variables held in memory, the  *)
(* write-through variable cache of db-helper.c with its reference counts,  *)
(* the copy of both in the platform's DB, and the D-Bus handlers of        *)
(* xcpmd-dbus-server.c that change them.                                   *)
(*                                                                         *)
(* xcpmd is single threaded, so a handler is one action.  Between handlers *)
(* the process may stop, and other programs may write the DB.  Where one   *)
(* handler makes several writes to the DB the process may also be killed   *)
(* between them.  A variable that cannot be looked up is a NULL pointer    *)
(* that the code dereferences: the process dies.  A rule is its name and the variables its arguments   *)
(* refer to; what it does is the subject of RuleEngine.                    *)
(***************************************************************************)
EXTENDS Integers, FiniteSets

CONSTANTS
    Vars, Vals, Types,   \* variable names, values, argument types
    TypeOf,              \* the type of a value
    NoVal,               \* no variable of that name
    Rules,               \* rule names; a name stands for one rule text
    Args,                \* the variable arguments of all rules, numbered in
                         \* the order the parser meets them
    ArgRule, ArgVar,     \* the rule an argument belongs to; its variable
    ArgType,             \* the type its prototype asks for
    DefaultVars,         \* the policy file that is read when the DB is empty
    DefaultRules,
    Environments         \* the kinds of surroundings considered: sets of what
                         \* may happen besides the ordinary RPCs, "clear_vars"
                         \* (that RPC), "db_writers" (other programs) and
                         \* "db_down" (the DB may fail while xcpmd starts)

Maybe == Vals \cup {NoVal}

ASSUME StoreAssumption ==
    /\ NoVal \notin Vals
    /\ TypeOf \in [Vals -> Types]
    /\ IsFiniteSet(Args) /\ Args \subseteq Nat
    /\ ArgRule \in [Args -> Rules]
    /\ ArgVar \in [Args -> Vars]
    /\ ArgType \in [Args -> Types]
    /\ DefaultVars \in [Vars -> Maybe]
    /\ DefaultRules \subseteq Rules
    /\ Environments \subseteq SUBSET {"clear_vars", "db_writers", "db_down"}

VARIABLES
    status,       \* of the process: up, stopped or crashed
    cache,        \* db_vars: the value of each cached variable
    ref_count,    \* its reference count; 0 when it is not cached
    rules,        \* the rule list
    dbVars,       \* the variables in the DB
    dbRules,      \* the rules in the DB
    reset,        \* the last step was a successful load_policy_from_db
    environment   \* the surroundings of this behaviour; fixed

vars == <<status, cache, ref_count, rules, dbVars, dbRules, reset, environment>>
memory == <<cache, ref_count, rules>>

TypeOK ==
    /\ status \in {"up", "stopped", "crashed"}
    /\ cache \in [Vars -> Maybe]
    /\ ref_count \in [Vars -> Int]
    /\ rules \subseteq Rules
    /\ dbVars \in [Vars -> Maybe]
    /\ dbRules \subseteq Rules
    /\ reset \in BOOLEAN

NoVars == [x \in Vars |-> NoVal]

(***************************************************************************)
(* Looking up and adding variables                                         *)
(***************************************************************************)
\* How many arguments of the rules rs refer to x.
References(x, rs) ==
    Cardinality({a \in Args : ArgVar[a] = x /\ ArgRule[a] \in rs})

\* What lookup_var() finds when the cache is c: the cached value, else the
\* value in the DB, which it then caches.
lookup_var(c, x) == IF c[x] # NoVal THEN c[x] ELSE dbVars[x]

\* The cache c after the variables xs have been looked up.
looked_up(c, xs) ==
    [x \in Vars |-> IF x \in xs THEN lookup_var(c, x) ELSE c[x]]

same_type_MutAny(c, x, v) == TRUE

\* add_var() overwrites a variable only by a value of the same type.
same_type(c, x, v) ==
    lookup_var(c, x) = NoVal \/ TypeOf[lookup_var(c, x)] = TypeOf[v]

\* Mutant: a variable that is cached is left as it is.
cache_after_MutKeeps(c, new) ==
    [x \in Vars |-> IF new[x] = NoVal \/ c[x] # NoVal THEN c[x] ELSE new[x]]

\* The cache and the DB after add_var(x, new[x]) for every x that new gives a
\* value.  A value the cache already holds is not written to the DB again.
cache_after(c, new) ==
    [x \in Vars |-> IF new[x] = NoVal THEN c[x]
                    ELSE IF same_type(c, x, new[x]) THEN new[x]
                    ELSE lookup_var(c, x)]

db_after_MutCacheOnly(c, new) == dbVars

db_after(c, new) ==
    [x \in Vars |-> IF /\ new[x] # NoVal
                       /\ same_type(c, x, new[x])
                       /\ new[x] # lookup_var(c, x)
                    THEN new[x] ELSE dbVars[x]]

\* parse_db_vars() adds every variable of the DB, and fails if one is refused.
parse_db_vars(c) == \A x \in Vars : dbVars[x] # NoVal => same_type(c, x, dbVars[x])

\* check_prototype() for all arguments of a rule: every variable resolves, to a
\* value of the type the prototype has in that place.
check_prototype(r, c) ==
    \A a \in Args : ArgRule[a] = r => /\ c[ArgVar[a]] # NoVal
                                      /\ TypeOf[c[ArgVar[a]]] = ArgType[a]

\* parse_db_rules(): the rules of the DB that validate against the cache c.
parse_db_rules(c) == {r \in dbRules : check_prototype(r, c)}

\* policy_exists(): the rule list or the cache is not empty.
policy_exists(c, rs) == rs # {} \/ c # NoVars

\* The variables the parser looks up while it reads the rules rs: it gives up
\* a rule at the first variable it cannot resolve.
parsed_vars(c, rs) ==
    {ArgVar[a] : a \in {b \in Args :
        /\ ArgRule[b] \in rs
        /\ \A d \in Args : ArgRule[d] = ArgRule[b] /\ d < b =>
              lookup_var(c, ArgVar[d]) # NoVal}}

(***************************************************************************)
(* Reference counts                                                        *)
(***************************************************************************)
\* inc_variable_refs() for each of the rules rs.
inc_variable_refs(count, rs) == [x \in Vars |-> count[x] + References(x, rs)]

dec_variable_refs_MutOncePerRule(count, rs) ==
    [x \in Vars |-> count[x] - Cardinality({ArgRule[a] : a \in
                        {b \in Args : ArgVar[b] = x /\ ArgRule[b] \in rs}})]

\* dec_variable_refs() for each of the rules rs.
dec_variable_refs(count, rs) == [x \in Vars |-> count[x] - References(x, rs)]

\* A variable the rules rs refer to is neither cached nor in the DB.
Dangling(rs) ==
    \E a \in Args : ArgRule[a] \in rs /\ lookup_var(cache, ArgVar[a]) = NoVal

VarsOf(rs) == {ArgVar[a] : a \in {b \in Args : ArgRule[b] \in rs}}

\* The process is gone and its memory with it.
Memoryless ==
    /\ cache' = NoVars
    /\ ref_count' = [x \in Vars |-> 0]
    /\ rules' = {}

\* --var->ref_count or node->arg through the NULL that lookup_var() returned.
NullDereference ==
    /\ status' = "crashed"
    /\ Memoryless
    /\ UNCHANGED <<dbVars, dbRules>>

(***************************************************************************)
(* The D-Bus handlers                                                      *)
(***************************************************************************)
\* A handler of the running daemon, other than load_policy_from_db.
Handled == status = "up" /\ reset' = FALSE /\ UNCHANGED environment

\* The process is terminated, in a handler or between two.
Killed == Handled /\ status' = "stopped" /\ Memoryless

\* parse_rule() reads the DB's variables first and refuses the rule if that
\* fails.  A rule that is accepted is written to the DB.
xcpmd_add_rule(r) ==
    LET c == cache_after(cache, dbVars)
        ok == parse_db_vars(cache) /\ r \notin rules /\ check_prototype(r, c)
        added == IF ok THEN {r} ELSE {}
    IN  /\ Handled
        /\ cache' = c
        /\ rules' = rules \cup added
        /\ ref_count' = inc_variable_refs(ref_count, added)
        /\ dbRules' = dbRules \cup added
        /\ UNCHANGED <<status, dbVars>>

xcpmd_remove_rule_MutDbKept(r) ==
    /\ Handled
    /\ r \in rules
    /\ ~Dangling({r})
    /\ cache' = looked_up(cache, VarsOf({r}))
    /\ ref_count' = dec_variable_refs(ref_count, {r})
    /\ rules' = rules \ {r}
    /\ UNCHANGED <<status, dbVars, dbRules>>

xcpmd_remove_rule(r) ==
    /\ Handled
    /\ r \in rules
    /\ \/ Dangling({r}) /\ NullDereference
       \/ /\ ~Dangling({r})
          /\ cache' = looked_up(cache, VarsOf({r}))
          /\ ref_count' = dec_variable_refs(ref_count, {r})
          /\ rules' = rules \ {r}
          /\ dbRules' = dbRules \ {r}
          /\ UNCHANGED <<status, dbVars>>

\* The variables come first in a policy file; new gives their values.  Rules
\* are added to those already loaded, and all are written to the DB.
xcpmd_load_policy_from_file(new, texts) ==
    LET c == cache_after(cache, new)
        d == looked_up(c, parsed_vars(c, texts))
        added == {r \in texts \ rules : check_prototype(r, d)}
    IN  /\ Handled
        /\ cache' = d
        /\ dbVars' = db_after(cache, new)
        /\ rules' = rules \cup added
        /\ ref_count' = inc_variable_refs(ref_count, added)
        /\ dbRules' = dbRules \cup rules'
        /\ UNCHANGED status

\* The process is killed while it loads a file: after some of the variables (a
\* shorter file gives the same), or after all and some of the rules.
load_policy_from_file_killed(new) ==
    LET d == looked_up(cache_after(cache, new), Vars)
        written == rules \cup {r \in Rules : check_prototype(r, d)}
    IN  /\ Killed
        /\ dbVars' = db_after(cache, new)
        /\ \E some \in SUBSET written : dbRules' = dbRules \cup some

\* delete_rules(), then parse_config_from_db(): no rule is read if the DB's
\* variables contradict the cached ones.
xcpmd_load_policy_from_db ==
    \/ Handled /\ Dangling(rules) /\ NullDereference
    \/ /\ status = "up"
       /\ ~Dangling(rules)
       /\ LET c == looked_up(cache, VarsOf(rules))
              d == cache_after(c, dbVars)
          IN  /\ cache' = d
              /\ rules' = IF parse_db_vars(c) THEN parse_db_rules(d) ELSE {}
              /\ ref_count' = inc_variable_refs(dec_variable_refs(ref_count, rules), rules')
              /\ reset' = parse_db_vars(c)
       /\ UNCHANGED <<status, dbVars, dbRules, environment>>

xcpmd_clear_policy ==
    \/ Handled /\ Dangling(rules) /\ NullDereference
    \/ /\ Handled
       /\ ~Dangling(rules)
       /\ Memoryless
       /\ dbVars' = NoVars
       /\ dbRules' = {}
       /\ UNCHANGED status

\* The process is killed before delete_vars().
clear_policy_killed ==
    /\ Killed
    /\ dbRules' = {}
    /\ UNCHANGED dbVars

xcpmd_clear_rules ==
    \/ Handled /\ Dangling(rules) /\ NullDereference
    \/ /\ Handled
       /\ ~Dangling(rules)
       /\ cache' = looked_up(cache, VarsOf(rules))
       /\ ref_count' = dec_variable_refs(ref_count, rules)
       /\ rules' = {}
       /\ dbRules' = {}
       /\ UNCHANGED <<status, dbVars>>

\* delete_cached_vars() clears the cache "regardless of refcounts".
xcpmd_clear_vars ==
    /\ Handled
    /\ "clear_vars" \in environment
    /\ cache' = NoVars
    /\ ref_count' = [x \in Vars |-> 0]
    /\ dbVars' = NoVars
    /\ UNCHANGED <<status, rules, dbRules>>

xcpmd_add_var(x, v) ==
    LET new == [NoVars EXCEPT ![x] = v]
    IN  /\ Handled
        /\ cache' = cache_after(cache, new)
        /\ dbVars' = db_after(cache, new)
        /\ UNCHANGED <<status, ref_count, rules, dbRules>>

\* uncache_db_var() refuses a variable that is not cached or is in use.
uncachable_MutOffByOne(x) == cache[x] # NoVal /\ ref_count[x] <= 1

uncachable(x) == cache[x] # NoVal /\ ref_count[x] <= 0

xcpmd_remove_var(x) ==
    /\ Handled
    /\ uncachable(x)
    /\ cache' = [cache EXCEPT ![x] = NoVal]
    /\ ref_count' = [ref_count EXCEPT ![x] = 0]
    /\ dbVars' = [dbVars EXCEPT ![x] = NoVal]
    /\ UNCHANGED <<status, rules, dbRules>>

(***************************************************************************)
(* Everything else that happens to the store                               *)
(***************************************************************************)
\* A condition check or an action of a loaded rule reads an argument.
get_arg(a) ==
    /\ Handled
    /\ ArgRule[a] \in rules
    /\ \/ lookup_var(cache, ArgVar[a]) = NoVal /\ NullDereference
       \/ /\ lookup_var(cache, ArgVar[a]) # NoVal
          /\ cache' = looked_up(cache, {ArgVar[a]})
          /\ UNCHANGED <<status, ref_count, rules, dbVars, dbRules>>

Stop == Killed /\ UNCHANGED <<dbVars, dbRules>>

\* The process comes up with these rules.
Started(loaded) ==
    /\ status # "up" /\ status' = "up"
    /\ rules' = loaded
    /\ ref_count' = inc_variable_refs([x \in Vars |-> 0], loaded)
    /\ reset' = FALSE
    /\ UNCHANGED environment

stored == policy_exists(dbVars, parse_db_rules(dbVars))

\* main(): the policy is loaded from the DB into empty memory, and from the
\* default file if that brought neither a rule nor a variable.
Start ==
    LET c == IF stored THEN dbVars ELSE DefaultVars
        found == IF stored THEN dbRules ELSE DefaultRules
    IN  /\ Started({r \in found : check_prototype(r, c)})
        /\ cache' = c
        /\ dbVars' = c
        /\ dbRules' = dbRules \cup rules'

\* The process is killed while it loads the default file for the first time.
Start_killed ==
    /\ status # "up" /\ ~stored
    /\ \/ /\ \E some \in SUBSET Vars :
                dbVars' = [x \in Vars |-> IF x \in some THEN DefaultVars[x] ELSE dbVars[x]]
          /\ UNCHANGED dbRules
       \/ /\ dbVars' = DefaultVars
          /\ \E some \in SUBSET {r \in DefaultRules : check_prototype(r, DefaultVars)} :
                dbRules' = dbRules \cup some
    /\ reset' = FALSE
    /\ UNCHANGED <<status, memory, environment>>

\* A dump fails at start.  If it was that of the rules, there are none; if it
\* was that of the variables the default file is loaded, with the DB still down
\* or up again.
Start_unreadable ==
    LET c == cache_after(NoVars, DefaultVars)
        d == looked_up(c, parsed_vars(c, DefaultRules))
    IN  /\ "db_down" \in environment
        /\ \/ /\ dbVars # NoVars
              /\ Started({}) /\ cache' = dbVars
              /\ UNCHANGED <<dbVars, dbRules>>
           \/ /\ Started({r \in DefaultRules : check_prototype(r, DefaultVars)})
              /\ cache' = DefaultVars
              /\ UNCHANGED <<dbVars, dbRules>>
           \/ /\ Started({r \in DefaultRules : check_prototype(r, d)})
              /\ cache' = d
              /\ dbVars' = db_after(NoVars, DefaultVars)
              /\ dbRules' = dbRules \cup rules'

\* Another program writes the DB (db-write, db-rm).
OtherWriter ==
    /\ "db_writers" \in environment
    /\ \/ /\ \E x \in Vars, v \in Maybe : dbVars' = [dbVars EXCEPT ![x] = v]
          /\ UNCHANGED dbRules
       \/ /\ \E r \in Rules : dbRules' \in {dbRules \cup {r}, dbRules \ {r}}
          /\ UNCHANGED dbVars
    /\ reset' = FALSE
    /\ UNCHANGED <<status, memory, environment>>

Init ==
    /\ status = "stopped"
    /\ cache = NoVars
    /\ ref_count = [x \in Vars |-> 0]
    /\ rules = {}
    /\ dbVars = NoVars
    /\ dbRules = {}
    /\ reset = FALSE
    /\ environment \in Environments

Handler ==
    \/ \E r \in Rules : xcpmd_add_rule(r) \/ xcpmd_remove_rule(r)
    \/ \E new \in [Vars -> Maybe], texts \in SUBSET Rules :
          xcpmd_load_policy_from_file(new, texts)
    \/ \E new \in [Vars -> Maybe] : load_policy_from_file_killed(new)
    \/ xcpmd_load_policy_from_db
    \/ xcpmd_clear_policy \/ clear_policy_killed
    \/ xcpmd_clear_rules
    \/ xcpmd_clear_vars
    \/ \E x \in Vars, v \in Vals : xcpmd_add_var(x, v)
    \/ \E x \in Vars : xcpmd_remove_var(x)
    \/ \E a \in Args : get_arg(a)
    \/ Stop

Next == Handler \/ Start \/ Start_killed \/ Start_unreadable \/ OtherWriter

Spec == Init /\ [][Next]_vars

(***************************************************************************)
(* Properties                                                              *)
(***************************************************************************)
NoClear == "clear_vars" \notin environment
NoOthers == "db_writers" \notin environment /\ "db_down" \notin environment

\* The counter that remove_var relies on is exact: inc_variable_refs() and
\* dec_variable_refs() are called in pairs whatever the order of add_rule,
\* remove_rule, load and clear calls, and refused rules leave no trace.
CountsExact == \A x \in Vars : ref_count[x] = References(x, rules)

\* "Variables still referred to by rules are left alone" (comment above
\* xcpmd_clear_vars): a loaded rule can read every variable it refers to, at
\* the type its prototype was checked for when it was added.
VarsHeld ==
    \A a \in Args : ArgRule[a] \in rules =>
        /\ cache[ArgVar[a]] # NoVal
        /\ TypeOf[cache[ArgVar[a]]] = ArgType[a]

\* dec_variable_refs() and get_arg() never follow a NULL from lookup_var().
NotCrashed == status # "crashed"

\* remove_var, add_var, reloads and other writers of the DB cannot take a
\* variable away from a loaded rule or retype it.
ReferencedVarsHeld == NoClear => VarsHeld

\* "Cache incoherence is avoided entirely if variables are accessed through the
\* methods in db-helper.h": while xcpmd is up its cache is the DB's contents,
\* clear_vars and the crashes it leads to included.
CacheCoherent == NoOthers /\ status = "up" => cache = dbVars

\* Stopping xcpmd between handlers and starting it again restores exactly the
\* rules that were loaded: Start would load them from the DB as it stands,
\* whatever handlers and starts were cut short before.
RestartKeepsRules ==
    NoClear /\ NoOthers /\ status = "up" => rules = parse_db_rules(dbVars)

\* After a successful load_policy_from_db every variable of the DB is cached as
\* it stands there and the rules are those of the DB that validate; what the
\* cache has besides, another program removed from the DB.
ReloadReadsDb ==
    reset => /\ \A x \in Vars : dbVars[x] # NoVal => cache[x] = dbVars[x]
             /\ cache # dbVars => ~NoOthers
             /\ rules = parse_db_rules(cache)

\* A rule of the DB that can be loaded from there stays so whenever the process
\* is stopped or killed, in the middle of loading a file too, and when a start
\* finds the DB unreadable and takes the default policy instead.  The exceptions
\* are a clear_policy cut short, other writers, and variables retyped by a daemon
\* that could not read them.
StoredRulesSurvive ==
    [][\/ status = "up" /\ (status' = "up" \/ ~NoOthers)
       \/ clear_policy_killed \/ OtherWriter
       \/ parse_db_rules(dbVars) \subseteq parse_db_rules(dbVars)']_vars

\* The first three together are inductive: a count of zero means no rule refers
\* to the variable only because counts are exact, and looking up what a rule
\* refers to succeeds only because it is held.
Intact == TypeOK /\ CountsExact /\ VarsHeld /\ NotCrashed

\* The store as xcpmd's handlers keep it, where clear_vars is not called.
StoreInv == environment \in Environments /\ (NoClear => Intact)

=============================================================================
