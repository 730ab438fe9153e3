--------------------------- MODULE MCPolicyStore ---------------------------
(***************************************************************************)
(* Two variables, an integer type with two values and a string type with   *)
(* one, and three rules: one refers to x twice and to y, one to y as a     *)
(* string, one to no variable.                                             *)
(***************************************************************************)
EXTENDS PolicyStore

CONSTANTS x, y, i1, i2, s1, r1, r2, r3

MCVars == {x, y}
MCVals == {i1, i2, s1}
MCTypeOf == [v \in MCVals |-> IF v = s1 THEN "s" ELSE "i"]
MCRules == {r1, r2, r3}
MCArgs == 1..4
MCArgRule == <<r1, r1, r1, r2>>
MCArgVar == <<x, x, y, y>>
MCArgType == <<"i", "i", "i", "s">>
MCDefaultVars == [v \in MCVars |-> IF v = x THEN i1 ELSE NoVal]
MCDefaultRules == {r1, r3}

\* Several at once would only mix behaviours about which nothing is claimed.
MCEnvironments == {{}, {"clear_vars"}, {"db_writers"}, {"db_down"}}

=============================================================================
