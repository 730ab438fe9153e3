---------------------------- MODULE BrokerFilter ----------------------------
(***************************************************************************)
(* The message filter of rpc-broker (msg.c): whether a D-Bus message of a  *)
(* domain passes the policy in force.  A policy is what build_policy() of  *)
(* policy.c leaves in memory: the rules of the /etc file and, when the DB  *)
(* answered, a list of rules for each VM it knows.  Rules are those that   *)
(* parse.                                                                  *)
(***************************************************************************)
EXTENDS Integers, Sequences, SequencesExt, FiniteSetsExt

CONSTANTS
    Uuids, NoUuid,    \* VMs as the DB and xenmgr name them; none
    Doms,             \* domain ids of clients
    Stubdoms,         \* those of stub domains
    UuidOf,           \* the VM of a domain, as xenmgr knows it
    CacheLimit,       \* UUID_CACHE_LIMIT
    Properties        \* "org.freedesktop.DBus.Properties"

ASSUME FilterAssumption ==
    /\ Doms \subseteq Nat /\ Stubdoms \subseteq Doms
    /\ CacheLimit \in Nat
    /\ NoUuid \notin Uuids
    /\ UuidOf \in [Doms -> Uuids \cup {NoUuid}]

\* What xenstore and the DB say of the boolean a rule asks about: the domain has
\* no VM path, the key is not there, or it has a value.
Attributes == {"no_vm", "no_key", "true", "false", "other"}

\* Does the DB's answer contradict if-boolean?
filter_if_bool(flag, attr) ==
    attr = "no_key" \/ (attr = "true" /\ ~flag) \/ (attr = "false" /\ flag)

\* 1 the rule allows, 0 it denies, -1 it does not match.  A rule is [policy,
\* kind, fields, stubdom, domtype, if_bool]: fields maps the fields it names to
\* values, if_bool is the set of the flag it asks for.  dom-type is parsed but
\* its comparison is commented out: only the lookup of the VM is left of it.
rule_matches_request(r, database, m, is_client, domid, attr) ==
    LET policy == IF r.policy THEN 1 ELSE 0 IN
    IF domid = 0 THEN 1
    ELSE CASE r.kind = "all" -> policy
           [] r.kind = "out" -> IF is_client THEN -1 ELSE policy
           [] r.kind = "match" ->
                IF \/ r.stubdom /\ domid \notin Stubdoms
                   \/ \E f \in DOMAIN r.fields : r.fields[f] # m[f]
                   \/ /\ database
                      /\ \/ attr = "no_vm" /\ (r.domtype \/ r.if_bool # {})
                         \/ \E flag \in r.if_bool : filter_if_bool(flag, attr)
                THEN -1 ELSE policy

\* Mutant: the first match wins.
filter_rules_MutFirstMatch(rules, database, m, is_client, domid, attr, sofar) ==
    LET Judge(allowed, r) ==
            LET p == rule_matches_request(r, database, m, is_client, domid, attr)
            IN  IF p = -1 THEN allowed ELSE p = 1
    IN  FoldLeft(Judge, sofar, Reverse(rules))

\* The loop over one list of rules, from the verdict so far.
filter_rules(rules, database, m, is_client, domid, attr, sofar) ==
    LET Judge(allowed, r) ==
            LET p == rule_matches_request(r, database, m, is_client, domid, attr)
            IN  IF p = -1 THEN allowed ELSE p = 1
    IN  FoldLeft(Judge, sofar, rules)

\* Does the policy have a list for the domain?  uuid is the cached or freshly
\* asked uuid of the domain, NoUuid when xenmgr does not know it.
has_domain_policy(p, domid, uuid) ==
    p.database /\ domid < CacheLimit /\ uuid \in DOMAIN p.domains

\* The verdict of the two loops: /etc first, then the domain's own rules.
filter(p, m, is_client, domid, uuid, attr) ==
    LET etc == filter_rules(p.etc, p.database, m, is_client, domid, attr, FALSE)
    IN  IF has_domain_policy(p, domid, uuid)
        THEN filter_rules(p.domains[uuid], p.database, m, is_client, domid, attr, etc)
        ELSE etc

\* The message a property access is judged as: the property's interface and
\* name (a member "None" for GetAll) on path "/", as a request of a client.
property_request(m) ==
    [destination |-> m.destination, path |-> "/", interface |-> m.args[1],
     member |-> IF m.member = "GetAll" THEN "None" ELSE m.args[2], args |-> <<>>]

\* The property's message is not itself a property access: its arguments would
\* be memory nobody wrote.
is_request_allowed(p, m, is_client, domid, uuid, attr) ==
    IF has_domain_policy(p, domid, uuid) /\ m.interface = Properties
    THEN filter(p, property_request(m), TRUE, domid, uuid, attr)
    ELSE filter(p, m, is_client, domid, uuid, attr)

-----------------------------------------------------------------------------
(***************************************************************************)
(* The reference: "The policy rules are a last match precedence", with     *)
(* deny as the default (README.md of rpc-broker, the comment in            *)
(* is_request_allowed()).                                                  *)
(***************************************************************************)
Applies(r, database, m, is_client, domid, attr) ==
    \/ domid = 0
    \/ r.kind = "all"
    \/ r.kind = "out" /\ ~is_client
    \/ /\ r.kind = "match"
       /\ \A f \in DOMAIN r.fields : m[f] = r.fields[f]
       /\ r.stubdom => domid \in Stubdoms
       /\ (database /\ r.domtype) => attr # "no_vm"
       /\ (database /\ TRUE \in r.if_bool) => attr \in {"true", "other"}
       /\ (database /\ FALSE \in r.if_bool) => attr \in {"false", "other"}

LastMatch(p, m, is_client, domid, uuid, attr) ==
    LET known == has_domain_policy(p, domid, uuid)
        property == known /\ m.interface = Properties
        judged == IF property THEN property_request(m) ELSE m
        client == is_client \/ property
        rules == p.etc \o (IF known THEN p.domains[uuid] ELSE <<>>)
        matching == {i \in DOMAIN rules :
                       Applies(rules[i], p.database, judged, client, domid, attr)}
    IN  matching # {} /\ (domid = 0 \/ rules[Max(matching)].policy)
=============================================================================
