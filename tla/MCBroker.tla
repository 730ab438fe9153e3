------------------------------ MODULE MCBroker ------------------------------
(***************************************************************************)
(* One VM, running as domain 1; domain 2 is its stub domain, beyond the    *)
(* uuid cache; domain 0.  The lists hold every kind of rule, in orders in  *)
(* which an earlier rule and a later one disagree.  The rules that are     *)
(* read are all of up to five words over a small vocabulary, and lists of  *)
(* up to three over chosen texts, good and bad.  Calls are of a method of  *)
(* up to two arguments, listed before or after what it returns; replies    *)
(* nest dictionaries, arrays and variants to depth three.                  *)
(***************************************************************************)
EXTENDS RpcCalls

CONSTANTS vm, c1, c2

All == [policy |-> FALSE, kind |-> "all", fields |-> <<>>, stubdom |-> FALSE,
        domtype |-> FALSE, if_bool |-> {}]
Rule(allow, fields) == [All EXCEPT !.policy = allow, !.kind = "match", !.fields = fields]
Dest == [destination |-> "bus"]
Method == [destination |-> "bus", member |-> "AddMatch"]
Property == [path |-> "/", interface |-> "i", member |-> "p"]

MCEtcFiles == {
    <<All, Rule(TRUE, Dest), [Rule(FALSE, Method) EXCEPT !.stubdom = TRUE]>>,
    <<[All EXCEPT !.policy = TRUE], Rule(FALSE, Method), [All EXCEPT !.kind = "out"]>>}
MCDbRules == {
    <<[Rule(TRUE, Method) EXCEPT !.if_bool = {TRUE}], Rule(FALSE, Property)>>,
    <<[Rule(FALSE, Dest) EXCEPT !.domtype = TRUE],
      [Rule(TRUE, Dest) EXCEPT !.if_bool = {FALSE}]>>}

MCRequests == {
    [destination |-> "bus", path |-> "/", interface |-> "i", member |-> "AddMatch", args |-> <<>>],
    [destination |-> "bus", path |-> "/o", interface |-> "Properties", member |-> "Get", args |-> <<"i", "p">>],
    [destination |-> "other", path |-> "/", interface |-> "Properties", member |-> "GetAll", args |-> <<"i">>]}

MCUuids == {vm}
MCDoms == 0..2
MCUuidOf == [d \in MCDoms |-> IF d = 0 THEN NoUuid ELSE vm]

Words == {"all", "destination", "if-boolean", "stubdom", "true", "word", "sword"}
Texts == {<<"#", "word">>, <<"allow", "all">>, <<"deny", "out-any">>, <<"allow">>,
          <<"allow", "destination", "word">>, <<"deny", "stubdom", "true">>,
          <<"allow", "if-boolean", "word", "true", "stubdom">>,
          <<"deny", "destination", "true", "if-boolean">>,
          <<"allow", "destination", "word", "sword">>}
Lists(S, n) == UNION {[1..k -> S] : k \in 1..n}
MCFiles ==
    {[db |-> TRUE, texts |-> <<<<"allow">> \o t>>, newline |-> TRUE] : t \in Lists(Words, 4)}
        \cup [db : BOOLEAN, texts : Lists(Texts, 3), newline : BOOLEAN]
Pairs(S) == Lists(S, 2) \cup {<<>>}
Json(type, v) == [json |-> type, v |-> v]
JsonArgs == {Json("null", 0), Json("int", 3), Json("int", 9), Json("boolean", 1),
             Json("string", 5), Json("string", 120), Json("double", 15), Json("array", 0)}
Call(args) == [kind |-> "call", interface |-> "i", member |-> "m", args |-> args, missing |-> "none"]
MCJsonRequests ==
    {Call(args) : args \in Pairs(JsonArgs)}
        \cup {[Call(<<>>) EXCEPT !.missing = "id"], [Call(<<>>) EXCEPT !.member = "Hello"],
              [Call(<<>>) EXCEPT !.kind = "neither"], [Call(<<>>) EXCEPT !.interface = "none"],
              [Call(<<Json("int", 1), Json("int", 0)>>) EXCEPT !.kind = "signal"]}

Param(direction, type) == [direction |-> direction, type |-> type]
Ins(types) == [i \in DOMAIN types |-> Param("in", types[i])]
Service(params) ==
    <<[name |-> "other", members |-> <<[name |-> "m", params |-> Ins(<<"s">>)]>>],
      [name |-> "i", members |-> <<[name |-> "n", params |-> Ins(<<"b", "b">>)], [name |-> "m", params |-> params]>>]>>
MCIntrospections ==
    LET types == Pairs({"s", "u", "i", "b", "v", "d", "a"})
    IN  UNION {{Service(Ins(t)), Service(Append(Ins(t), Param("out", "s"))),
                Service(<<Param("out", "s")>> \o Ins(t))} : t \in types}

Basic == {[t |-> "i", v |-> 3], [t |-> "u", v |-> 9], [t |-> "s", v |-> 120], [t |-> "b", v |-> 0],
          [t |-> "x", v |-> 2], [t |-> "y", v |-> 1]}
Variants(S) == {[t |-> "v", val |-> x] : x \in S}
Entry(k, x) == [t |-> "e", key |-> k, val |-> x]
Array(of, items) == [t |-> "a", of |-> of, items |-> items]
Dicts(S) == {Array("{", d) : d \in {<<>>} \cup {<<Entry("k", x)>> : x \in S}
                                   \cup {<<Entry("k", x), Entry("l", y)>> : x, y \in S}}
Some == {[t |-> "i", v |-> 3], [t |-> "s", v |-> 120]}
Strings == {Array("s", l) : l \in Pairs({[t |-> "s", v |-> 120], [t |-> "s", v |-> 5]})}
Small == Dicts(Some)
MCReplies ==
    Pairs(Basic \cup Variants(Some) \cup Strings)
        \cup {<<Array("i", l)>> : l \in Pairs({[t |-> "i", v |-> 3], [t |-> "i", v |-> 0]})}
        \cup {<<Array("v", l)>> : l \in Pairs(Variants(Basic \cup Small))}
        \cup {<<Array("a", l)>> : l \in Pairs(Small) \cup Pairs(Strings)}
        \cup {<<d>> : d \in Dicts(Variants(Some) \cup Small \cup Strings)}
MCClients == {c1, c2}
=============================================================================
