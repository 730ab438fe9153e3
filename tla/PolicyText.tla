----------------------------- MODULE PolicyText -----------------------------
(***************************************************************************)
(* The text of a policy: the character state machine of parser.c, and the  *)
(* conversion of rules back to text through the DB (rule_to_json() and     *)
(* json_rule_to_parseable() of db-helper.c).  A text is a sequence of      *)
(* characters; "q" is the double quote, "nl" newline, "nul" the end.       *)
(*                                                                         *)
(* An argument is a type and the canonical text of its value: leading      *)
(* zeros go, integers wrap at the width of int, trailing zeros of a        *)
(* fraction go.  sscanf() leaves the value alone when there is no digit:   *)
(* its text is then empty, and the program's value undefined.              *)
(***************************************************************************)
EXTENDS Integers, Sequences, SequencesExt

CONSTANTS
    Letters,      \* characters of a name that are neither digits nor below
    Known,        \* names of the registered condition and action types
    IntSpace,     \* number of values of int
    FracDigits    \* digits that "%f" prints after the point

ASSUME TextAssumption == IntSpace \in Nat \ {0} /\ FracDigits \in Nat \ {0}

-----------------------------------------------------------------------------
(* Characters: the conditions of the state machine                         *)

DigitSeq == <<"0", "1", "2", "3", "4", "5", "6", "7", "8", "9">>
Digits == Range(DigitSeq)
isTrue == {"t", "T", "y", "Y"}
isFalse == {"f", "F", "n", "N"}
isAlphanumeric_ == Letters \cup isTrue \cup isFalse \cup Digits \cup {"_"}
isDigitOrMinus == Digits \cup {"-"}
isEnd == {"nul", "nl"}

-----------------------------------------------------------------------------
(* Numbers                                                                 *)

DigitValue(c) == (CHOOSE k \in 1 .. 10 : DigitSeq[k] = c) - 1

Value(digits) == FoldLeft(LAMBDA n, c : 10 * n + DigitValue(c), 0, digits)

(* Enough for the values of int.                                           *)
Decimal[n \in 0 .. IntSpace] ==
    IF n < 10 THEN <<DigitSeq[n + 1]>> ELSE Decimal[n \div 10] \o <<DigitSeq[(n % 10) + 1]>>

Signed(n) == IF n < 0 THEN <<"-">> \o Decimal[0 - n] ELSE Decimal[n]

ToInt(n) == LET low == n % IntSpace IN IF 2 * low < IntSpace THEN low ELSE low - IntSpace

IsNegative(text) == text # <<>> /\ text[1] = "-"
Unsigned(text) == IF IsNegative(text) THEN Tail(text) ELSE text
HasDigit(text) == \E k \in DOMAIN text : text[k] \in Digits

(* sscanf("%ld"), and the assignment to an int.                            *)
IntText(text) ==
    IF ~HasDigit(text) THEN <<>>
    ELSE LET n == Value(Unsigned(text)) IN Signed(ToInt(IF IsNegative(text) THEN 0 - n ELSE n))

Whole(text) == SelectInSeq(text, LAMBDA c : c = ".") - 1
StripLeft(s) == LET k == SelectInSeq(s, LAMBDA c : c # "0") IN IF k = 0 THEN <<>> ELSE SubSeq(s, k, Len(s))
StripRight(s) == LET k == SelectLastInSeq(s, LAMBDA c : c # "0") IN SubSeq(s, 1, k)

(* sscanf("%f")                                                            *)
FloatText(text) ==
    IF ~HasDigit(text) THEN <<>>
    ELSE LET u == Unsigned(text) IN
         (IF IsNegative(text) THEN <<"-">> ELSE <<>>)
           \o StripLeft(SubSeq(u, 1, Whole(u))) \o <<".">>
           \o StripRight(SubSeq(u, Whole(u) + 2, Len(u)))

(* "%f": at least one digit before the point, FracDigits after it.  The    *)
(* texts used here have no more digits, so that nothing is rounded.        *)
PrintFloat(text) ==
    LET u == Unsigned(text)
        whole == SubSeq(u, 1, Whole(u))
        frac == SubSeq(u, Whole(u) + 2, Len(u))
    IN (IF IsNegative(text) THEN <<"-">> ELSE <<>>)
         \o (IF whole = <<>> THEN <<"0">> ELSE whole) \o <<".">>
         \o [k \in 1 .. FracDigits |-> IF k <= Len(frac) THEN frac[k] ELSE "0"]

Arg(type, text) == [type |-> type, text |-> text]

\* Mutant: a string is printed without its quotes.
arg_to_string_MutBareString(a) ==
    CASE a.type \in {"str", "int", "bool"} -> a.text
      [] a.type = "float" -> PrintFloat(a.text)
      [] a.type = "var" -> <<"$">> \o a.text

arg_to_string(a) ==
    CASE a.type = "str" -> <<"q">> \o a.text \o <<"q">>
      [] a.type = "float" -> PrintFloat(a.text)
      [] a.type = "var" -> <<"$">> \o a.text
      [] a.type \in {"int", "bool"} -> a.text

-----------------------------------------------------------------------------
(* struct parse_data                                                       *)

\* Mutant: the arguments of a text given up are kept for the next one.
init_parse_data_MutKeepsArgs(d, subject, name) ==
    [d EXCEPT !.state = "start", !.subject = subject,
              !.parsing = IF subject = "rule" THEN "condition" ELSE subject,
              !.rule_name = name, !.undo = TRUE, !.finished = FALSE,
              !.error = "none", !.message = FALSE, !.rule = <<>>, !.returned = "no", !.name = <<>>, !.arg = <<>>, !.arg_type = "undetermined",
              !.conditions = <<>>, !.actions = <<>>, !.undo_actions = <<>>,
              !.parsed_arg = <<>>, !.refused = FALSE]

(* init_parse_data(), cleanup_parse_data() and the first load_parse_string *)
(* of parse(): only the variable map, the cache and the rules stay.        *)
init_parse_data(d, subject, name) ==
    [d EXCEPT !.state = "start", !.subject = subject,
              !.parsing = IF subject = "rule" THEN "condition" ELSE subject,
              !.rule_name = name, !.undo = TRUE, !.finished = FALSE,
              !.error = "none", !.message = FALSE, !.rule = <<>>, !.returned = "no", !.name = <<>>, !.arg = <<>>, !.arg_type = "undetermined",
              !.args = <<>>,
              !.conditions = <<>>, !.actions = <<>>, !.undo_actions = <<>>,
              !.parsed_arg = <<>>, !.refused = FALSE]

(* vars is the variable map; cache the variables of db-helper.c; rules the *)
(* names of the rules; rule what apply_rule() added; refused records that  *)
(* a variable of this text was not added.                                  *)
NewData(vars, cache, rules) ==
    [state |-> "start", subject |-> "none", parsing |-> "none", undo |-> TRUE,
     finished |-> FALSE, error |-> "none", message |-> FALSE, returned |-> "no",
     name |-> <<>>, arg |-> <<>>, arg_type |-> "undetermined", args |-> <<>>,
     conditions |-> <<>>, actions |-> <<>>, undo_actions |-> <<>>, parsed_arg |-> <<>>,
     rule_name |-> <<>>, rule |-> <<>>, refused |-> FALSE,
     vars |-> vars, cache |-> cache, rules |-> rules]

Fail(d, code) == [d EXCEPT !.error = code, !.message = TRUE, !.finished = TRUE]

Fn(d, undo) == [name |-> d.name, args |-> d.args, undo |-> undo]

-----------------------------------------------------------------------------
(* The actions of the state machine                                        *)

AccumArg(d, type, c) == [d EXCEPT !.arg_type = type, !.arg = Append(@, c)]

(* lookup_var() for a $name, which may also be a variable of this file.    *)
Resolves(d, name) == \E v \in d.vars \cup d.cache : v.name = name

ArgValue(d) ==
    CASE d.arg_type = "int" -> IntText(d.arg)
      [] d.arg_type = "float" -> FloatText(d.arg)
      [] d.arg_type \in {"str", "bool", "var"} -> d.arg

(* An argument without characters is not an argument: "" vanishes.         *)
action_acceptArg(d) ==
    CASE d.arg = <<>> -> d
      [] d.arg # <<>> /\ d.arg_type = "var" /\ ~Resolves(d, d.arg) -> Fail(d, "var_missing")
      [] d.arg # <<>> /\ ~(d.arg_type = "var" /\ ~Resolves(d, d.arg)) ->
           [d EXCEPT !.args = Append(@, Arg(d.arg_type, ArgValue(d))), !.arg = <<>>]

(***************************************************************************)
(* add_to_var_map_as_arg(), and the caller's assignment to error_code: the *)
(* function returns bool, so each of its error codes becomes 1, which is   *)
(* no error code; and a variable that is added resets it to 0.             *)
(***************************************************************************)
Repeats(d) == \E v \in d.vars : v.name = d.name
Conflicts(d) == \E v \in d.cache : v.name = d.name /\ v.value.type # d.args[1].type

Added(d) ==
    LET var == [name |-> d.name, value |-> d.args[1]]
    IN [d EXCEPT !.error = "none", !.vars = @ \cup {var},
                 !.cache = {v \in @ : v.name # d.name} \cup {var}]

\* Mutant: a variable of another type is refused without a message.
add_to_var_map_MutSilent(d) ==
    IF Repeats(d) \/ Conflicts(d) THEN [d EXCEPT !.error = "one", !.refused = TRUE] ELSE Added(d)

\* Mutant: a refused variable sets no error code.
add_to_var_map_MutNoCode(d) ==
    IF Repeats(d) \/ Conflicts(d) THEN [d EXCEPT !.error = "none", !.refused = TRUE] ELSE Added(d)

add_to_var_map(d) ==
    IF Repeats(d) THEN [d EXCEPT !.error = "one", !.refused = TRUE]
    ELSE IF Conflicts(d) THEN [d EXCEPT !.error = "one", !.message = TRUE, !.refused = TRUE]
    ELSE Added(d)

Consumed(d) == [d EXCEPT !.args = <<>>, !.name = <<>>, !.undo = TRUE]

AcceptVar(d) ==
    CASE d.args = <<>> -> Fail(d, "var_missing")
      [] Len(d.args) > 1 -> Fail(d, "overlapping_vars")
      [] Len(d.args) = 1 /\ d.args[1].type = "var" -> Fail(d, "invalid_var_type")
      [] Len(d.args) = 1 /\ d.args[1].type # "var" -> Consumed(add_to_var_map(d))

Accepted(d) ==
    CASE d.parsing = "condition" -> Consumed([d EXCEPT !.conditions = Append(@, Fn(d, d.undo))])
      [] d.parsing = "action" -> Consumed([d EXCEPT !.actions = Append(@, Fn(d, d.undo))])
      [] d.parsing = "undo" -> Consumed([d EXCEPT !.undo_actions = Append(@, Fn(d, FALSE))])
      [] d.parsing = "arg" -> Consumed([d EXCEPT !.parsed_arg = <<Fn(d, FALSE)>>])
      [] d.parsing = "var_map" -> AcceptVar(d)

(* An argument that is refused ends the parse, but not this function: its  *)
(* function is accepted with the arguments before that one.                *)
AcceptNamed(d) == IF d.name = <<>> THEN d ELSE Accepted(d)

action_acceptFn(d) == AcceptNamed(action_acceptArg(d))

(***************************************************************************)
(* apply_rule(): functions of no known type are left out, only conditions  *)
(* keep an inversion, and validate_rule() asks for a new name, a condition *)
(* and an action.  Argument types are checked in PolicyStore.              *)
(***************************************************************************)
KnownFns(fns) == SelectSeq(fns, LAMBDA f : f.name \in Known)

RuleOf(d) ==
    LET plain(fns) == [k \in DOMAIN fns |-> [name |-> fns[k].name, args |-> fns[k].args]]
        conditions == KnownFns(d.conditions)
    IN [conditions |-> [k \in DOMAIN conditions |->
                          [name |-> conditions[k].name, args |-> conditions[k].args,
                           is_inverted |-> ~conditions[k].undo]],
        actions |-> plain(KnownFns(d.actions)), undos |-> plain(KnownFns(d.undo_actions))]

validate_rule(d, r) ==
    /\ d.rule_name # <<>> /\ d.rule_name \notin d.rules
    /\ r.conditions # <<>>
    /\ r.actions \o r.undos # <<>>

\* Mutant: only conditions of an unknown type are reported.
Recoverable_MutConditions(d) == KnownFns(d.conditions) # d.conditions

Recoverable(d) ==
    \E fns \in {d.conditions, d.actions, d.undo_actions} : KnownFns(fns) # fns

add_rule(d, r) ==
    IF validate_rule(d, r)
    THEN [d EXCEPT !.rule = <<r>>, !.rules = @ \cup {d.rule_name},
                   !.error = IF Recoverable(d) THEN "recoverable" ELSE "none"]
    ELSE [d EXCEPT !.error = "rule_invalid"]

apply_rule(d) == add_rule(d, RuleOf(d))

(* The next field of a rule, or the end.                                   *)
EndField(d) ==
    CASE d.parsing = "condition" -> [d EXCEPT !.parsing = "action", !.name = <<>>, !.arg = <<>>]
      [] d.parsing = "action" -> [d EXCEPT !.parsing = "undo", !.name = <<>>, !.arg = <<>>]
      [] d.parsing \in {"var_map", "arg"} -> [d EXCEPT !.parsing = "none", !.finished = TRUE]
      [] d.parsing = "undo" ->
           [apply_rule(d) EXCEPT !.parsing = "none", !.finished = TRUE,
                                 !.conditions = <<>>, !.actions = <<>>, !.undo_actions = <<>>]

action_acceptFns(d) == EndField(action_acceptFn(d))

-----------------------------------------------------------------------------
(* build_parse_state_list(): states, and what each does with a character   *)

Edge(from, on, act, to) == [from |-> from, on |-> on, act |-> act, to |-> to]

Transitions == {
    Edge("start", isAlphanumeric_, "accumName", "accumName"),
    Edge("start", {"!"}, "invertFn", "invertFn"),
    Edge("start", {" "}, "none", "start"),
    Edge("start", isEnd, "acceptFns", "acceptRule"),
    Edge("invertFn", isAlphanumeric_, "accumName", "accumName"),
    Edge("accumName", isAlphanumeric_, "accumName", "accumName"),
    Edge("accumName", {"("}, "none", "beginAccumArg"),
    Edge("beginAccumArg", {"$"}, "beginAccumVar", "accumVar"),
    Edge("beginAccumArg", isDigitOrMinus, "beginAccumInt", "accumInt"),
    Edge("beginAccumArg", {"q"}, "beginAccumStr", "accumStr"),
    Edge("beginAccumArg", isTrue, "beginAccumTrue", "accumBool"),
    Edge("beginAccumArg", isFalse, "beginAccumFalse", "accumBool"),
    Edge("beginAccumArg", {")"}, "acceptFn", "acceptFn"),
    Edge("accumVar", isAlphanumeric_, "accumArg", "accumVar"),
    Edge("accumVar", {" "}, "acceptArg", "beginAccumArg"),
    Edge("accumVar", {")"}, "acceptFn", "acceptFn"),
    Edge("accumInt", Digits, "accumArg", "accumInt"),
    Edge("accumInt", {"."}, "beginAccumFloat", "beginAccumFloat"),
    Edge("accumInt", {" "}, "acceptArg", "beginAccumArg"),
    Edge("accumInt", {")"}, "acceptFn", "acceptFn"),
    Edge("beginAccumFloat", Digits, "accumArg", "accumFloat"),
    Edge("beginAccumFloat", {")"}, "acceptFn", "acceptFn"),
    Edge("accumFloat", Digits, "accumArg", "accumFloat"),
    Edge("accumFloat", {" "}, "acceptArg", "beginAccumArg"),
    Edge("accumFloat", {")"}, "acceptFn", "acceptFn"),
    Edge("endAccumStr", {" "}, "acceptArg", "beginAccumArg"),
    Edge("endAccumStr", {")"}, "acceptFn", "acceptFn"),
    Edge("accumBool", {" "}, "acceptArg", "beginAccumArg"),
    Edge("accumBool", {")"}, "acceptFn", "acceptFn"),
    Edge("acceptFn", {" "}, "none", "start"),
    Edge("acceptFn", isEnd, "acceptFns", "acceptRule")}

(* Within a string every character but the quote belongs to it.  The end   *)
(* closes it too, but is then met again in endAccumStr, which refuses it.  *)
Edges(state, c) ==
    IF state = "accumStr" /\ c # "nul"
    THEN {IF c = "q" THEN Edge(state, {c}, "none", "endAccumStr")
                     ELSE Edge(state, {c}, "accumArg", "accumStr")}
    ELSE {e \in Transitions : e.from = state /\ c \in e.on}

Perform(act, d, c) ==
    CASE act = "none" -> d
      [] act = "accumName" -> [d EXCEPT !.name = Append(@, c)]
      [] act = "invertFn" -> [d EXCEPT !.undo = FALSE]
      [] act = "accumArg" -> [d EXCEPT !.arg = Append(@, c)]
      [] act = "beginAccumVar" -> [d EXCEPT !.arg_type = "var"]
      [] act = "beginAccumStr" -> [d EXCEPT !.arg_type = "str"]
      [] act = "beginAccumInt" -> AccumArg(d, "int", c)
      [] act = "beginAccumFloat" -> AccumArg(d, "float", c)
      [] act = "beginAccumTrue" -> AccumArg(d, "bool", "t")
      [] act = "beginAccumFalse" -> AccumArg(d, "bool", "f")
      [] act = "acceptArg" -> action_acceptArg(d)
      [] act = "acceptFn" -> action_acceptFn(d)
      [] act = "acceptFns" -> action_acceptFns(d)

(***************************************************************************)
(* One round of parse().  It returns false where no transition is left; a  *)
(* text that ends well is true unless an error code is set.                *)
(***************************************************************************)
Enter(d, to) ==
    CASE ~d.finished -> [d EXCEPT !.state = IF to = "acceptRule" THEN "start" ELSE to]
      [] d.finished ->
           [d EXCEPT !.state = to,
                     !.returned = IF to = "acceptRule" /\ d.error = "none" THEN "true" ELSE "false"]

Follow(d, c, edges) ==
    IF edges = {}
    THEN [d EXCEPT !.error = "fsm_error", !.message = TRUE, !.returned = "false"]
    ELSE LET e == CHOOSE edge \in edges : TRUE IN Enter(Perform(e.act, d, c), e.to)

parse(d, c) == Follow(d, c, Edges(d.state, c))

Parse(d, text) == FoldLeft(LAMBDA e, c : IF e.returned = "no" THEN parse(e, c) ELSE e, d, text)

(* The fields of a rule one after the other, each up to its end.           *)
ParseRule(d, name, conditions, actions, undos) ==
    Parse(init_parse_data(d, "rule", name),
          conditions \o <<"nul">> \o actions \o <<"nul">> \o undos \o <<"nul">>)

(* extract_parse_error() measures a message that is not there.             *)
MessageMissing(d) == d.returned = "false" /\ d.error = "one" /\ ~d.message

-----------------------------------------------------------------------------
(* Rules, and their way through the DB                                     *)

(* rule_to_json(): lists become objects keyed by index; the arguments are  *)
(* text; no arguments, and no undo actions, are the empty string.          *)
ArgsJson(args) == [k \in DOMAIN args |-> arg_to_string(args[k])]

\* Mutant: the inversion is written the other way round.
rule_to_json_MutInverted(r) ==
    [conditions |-> [k \in DOMAIN r.conditions |->
                       [type |-> r.conditions[k].name, args |-> ArgsJson(r.conditions[k].args),
                        is_inverted |-> IF r.conditions[k].is_inverted THEN "false" ELSE "true"]],
     actions |-> [k \in DOMAIN r.actions |->
                    [type |-> r.actions[k].name, args |-> ArgsJson(r.actions[k].args)]],
     undos |-> [k \in DOMAIN r.undos |->
                    [type |-> r.undos[k].name, args |-> ArgsJson(r.undos[k].args)]]]

rule_to_json(r) ==
    [conditions |-> [k \in DOMAIN r.conditions |->
                       [type |-> r.conditions[k].name, args |-> ArgsJson(r.conditions[k].args),
                        is_inverted |-> IF r.conditions[k].is_inverted THEN "true" ELSE "false"]],
     actions |-> [k \in DOMAIN r.actions |->
                    [type |-> r.actions[k].name, args |-> ArgsJson(r.actions[k].args)]],
     undos |-> [k \in DOMAIN r.undos |->
                    [type |-> r.undos[k].name, args |-> ArgsJson(r.undos[k].args)]]]

(* json_rule_to_parseable(), on what rule_to_json() wrote.                 *)
Joined(texts) ==
    FoldLeft(LAMBDA s, t : IF s = <<>> THEN t ELSE s \o <<" ">> \o t, <<>>, texts)

Call(type, args) == type \o <<"(">> \o Joined(args) \o <<")">>

Inverter(c) == IF c.is_inverted = "true" THEN <<"!">> ELSE <<>>

CallsOf(fns) == Joined([k \in DOMAIN fns |-> Call(fns[k].type, fns[k].args)])

ConditionsText(fns) ==
    Joined([k \in DOMAIN fns |-> Inverter(fns[k]) \o Call(fns[k].type, fns[k].args)])

(* No undo actions are the empty string, not an empty object.              *)
UndosText(fns) == IF fns = <<>> THEN <<>> ELSE CallsOf(fns)

json_rule_to_parseable(j) ==
    [conditions |-> ConditionsText(j.conditions), actions |-> CallsOf(j.actions),
     undos |-> UndosText(j.undos)]

(* What a restart makes of a rule that was written to the DB.              *)
Reread(d, name, r) ==
    LET t == json_rule_to_parseable(rule_to_json(r)) IN ParseRule(d, name, t.conditions, t.actions, t.undos)

(* get_db_var() on what write_db_var() wrote.                              *)
RereadVar(d, v) ==
    Parse(init_parse_data(d, "arg", <<>>), v.name \o <<"(">> \o arg_to_string(v.value) \o <<")", "nul">>)
=============================================================================
