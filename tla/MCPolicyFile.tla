---------------------------- MODULE MCPolicyFile ----------------------------
(***************************************************************************)
(* Policies for TLC.  "a" is a registered type, "x" is not; "v" is a       *)
(* variable that is known from the start, "u" one that nobody defined.     *)
(***************************************************************************)
EXTENDS PolicyFile

MCLetters == {"a", "u", "v", "x", "r"}
MCKnown == {<<"a">>}
MCCached == {[name |-> <<"v">>, value |-> Arg("int", <<"1">>)]}
MCRuleName == <<"r">>

Single(S) == {<<c>> : c \in S}
a == <<"a", "(">>
call == a \o <<")">>

MCPieces ==
    [rule |-> Single({"1", "9", "-", ".", "t", "q", " ", ")", "nul"})
                \cup {a, <<"!">> \o a, <<"x", "(">>, <<"$", "v">>, call \o <<"nul">>,
                      <<"nul">> \o call \o <<"nul", "nul">>, <<"nul", "nul">>},
     var_map |-> Single({"0", "1", "9", "-", ".", "y", "q", " ", ")", "nul", "nl", "?"})
                \cup {a, <<"v", "(">>, <<"$", "v">>, <<"$", "u">>}]
MCInString == {<<"q">>, <<" ", "-">>, a, <<"nul">>}
MCMaxPieces == [rule |-> 7, var_map |-> 7]

MCChunks ==
    { <<"a", "(", "1", ")", "nl">>,
      <<"a", "(", "t", ")", "nl">>,
      <<"v", "(", "t", ")", "nl">>,
      <<"u", "(", "1", " ", "$", "x", ")", "nl">>,
      <<"u", "(", "1", " ", "?", "nl">>,
      <<"=", "nl">>,
      <<"#", "=", "nl">>,
      <<"#">>,
      <<"a", "(">>,
      <<" ", "nl">>,
      <<"r", " ", "|", "a", "(", "$", "v", ")", "|", "a", "(", "q", "|", "q", ")", "nl">>,
      <<"x", "|", "a", "(", "1", " ", "?", "|", "a", "(", ")", "nl">>,
      <<"x", "|", "!", "a", "(", "$", "a", ")", "|", "|", "a", "(", ")", "|", "nl">>,
      <<" ", "|", "a", "(", ")", "|", "a", "(", ")", "nl">>,
      <<"u", "|", "a", "(", ")", "|", "a", "(", "q", "=", "q", ")", "nl">>,
      <<"u", "|", "a", "(", "q", ")", "|", "a", "(", ")", "nl">>,
      <<"q", "u", "|", "a", "(", ")", "nl">> }
=============================================================================
