----------------------------- MODULE PolicyFile -----------------------------
(***************************************************************************)
(* The parser of policies at work: a rule or a line of variables given to  *)
(* it piece by piece ("text"), and parse_config_from_file() reading a file *)
(* ("file").  A file is the sequence of what fgets() returns: a line, the  *)
(* first part of a line longer than the buffer, or a last line that has no *)
(* newline.                                                                *)
(***************************************************************************)
EXTENDS PolicyText

CONSTANTS
    Pieces,       \* [subject |-> the set of texts that may come next]
    InString,     \* the ones that may come next within a string
    MaxPieces,    \* [subject |-> the number of pieces of a text]
    Chunks,       \* what fgets() may return
    MaxLines,     \* bound on the chunks of a file
    Cached,       \* the variables known at the start
    RuleName      \* the name of the rule of the scene "text"

VARIABLES
    scene,            \* "text" or "file"
    d,                \* struct parse_data, the variable map, the cache
    text,             \* the text given so far
    count,            \* pieces, or chunks, so far
    in_var_section,
    skipping,         \* within a line that is too long
    status,           \* "running", "done", "hung" or "crashed"
    underrun,         \* the chomping of a name left the line
    line,             \* the line just handled
    before            \* vars, cache and rules when it was reached

vars == <<scene, d, text, count, in_var_section, skipping, status, underrun, line, before>>

Known0 == NewData({}, Cached, {})

Init ==
    /\ scene \in {"text", "file"}
    /\ d \in IF scene = "file" THEN {Known0}
             ELSE {init_parse_data(Known0, "rule", RuleName), init_parse_data(Known0, "var_map", <<>>)}
    /\ text = <<>> /\ count = 0
    /\ in_var_section = TRUE /\ skipping = FALSE
    /\ status = "running" /\ underrun = FALSE
    /\ line = [text |-> <<>>, as |-> "none"]
    /\ before = Known0

-----------------------------------------------------------------------------
(* A rule or a line of variables, as parse_rule() and parse_var() get them *)

Feed ==
    /\ scene = "text" /\ d.returned = "no" /\ count < MaxPieces[d.subject]
    /\ \E piece \in IF d.state = "accumStr" THEN InString ELSE Pieces[d.subject] :
         /\ Parse(d, Front(piece)).returned = "no"     \* nothing follows the end
         /\ text' = text \o piece
         /\ d' = Parse(d, piece)
    /\ count' = count + 1
    /\ status' = IF d'.returned = "no" THEN "running"
                 ELSE IF MessageMissing(d') THEN "crashed" ELSE "done"
    /\ UNCHANGED <<scene, in_var_section, skipping, underrun, line, before>>

-----------------------------------------------------------------------------
(* parse_config_from_file()                                                *)

HasChar(chunk, c) == \E k \in DOMAIN chunk : chunk[k] = c
IsComment(chunk) == chunk[1] = "#"
IsBlank(chunk) == \A k \in DOMAIN chunk : chunk[k] \in {" ", "nl"}

(* The fields of a rule line: a bar or the newline ends one, outside of    *)
(* quotes; the fourth is the last.                                         *)
NextChar(f, c) ==
    LET quoted == IF c = "q" THEN ~f.quoted ELSE f.quoted
    IN IF c \in {"|", "nl"} /\ ~quoted
       THEN [fields |-> Append(f.fields, f.field), field |-> <<>>, quoted |-> quoted]
       ELSE [f EXCEPT !.field = Append(@, c), !.quoted = quoted]

\* Mutant: a bar within a string ends the field too.
SplitLine_MutBarInQuotes(chunk) ==
    FoldLeft(LAMBDA f, c : IF c \in {"|", "nl"}
                           THEN [fields |-> Append(f.fields, f.field), field |-> <<>>, quoted |-> FALSE]
                           ELSE [f EXCEPT !.field = Append(@, c)],
             [fields |-> <<>>, field |-> <<>>, quoted |-> FALSE], chunk).fields

SplitLine(chunk) ==
    FoldLeft(NextChar, [fields |-> <<>>, field |-> <<>>, quoted |-> FALSE], chunk).fields

Field(fields, k) == IF k <= Len(fields) THEN fields[k] ELSE <<>>

(* Trailing characters that do not print are cut off.                      *)
Chomp(name) == SubSeq(name, 1, SelectLastInSeq(name, LAMBDA c : c # " "))

(* No name at all: apply_rule() then copies a null pointer.                *)
NameMissing(chunk) == SplitLine(chunk) = <<>>

ParseVarLine(e, chunk) == Parse(init_parse_data(e, "var_map", <<>>), chunk \o <<"nul">>)

ParseRuleLine(e, chunk) ==
    LET f == SplitLine(chunk)
    IN ParseRule(e, Chomp(Field(f, 1)), Field(f, 2), Field(f, 3), Field(f, 4))

(* How the loop treats a line: the order of the tests is the code's.       *)
Kind(chunk) ==
    IF IsComment(chunk) THEN "comment"
    ELSE IF IsBlank(chunk) THEN "blank"
    ELSE IF ~HasChar(chunk, "nl") THEN "long"
    ELSE IF HasChar(chunk, "=") THEN "separator"
    ELSE IF in_var_section THEN "var"
    ELSE "rule"

ReadLine ==
    /\ scene = "file" /\ status = "running" /\ count < MaxLines /\ ~skipping
    /\ count' = count + 1
    /\ before' = d
    /\ \E chunk \in Chunks :
         LET kind == Kind(chunk) IN
         /\ line' = [text |-> chunk, as |-> kind]
         /\ skipping' = (kind = "long")
         /\ in_var_section' = (in_var_section /\ kind # "separator")
         /\ d' = CASE kind = "var" -> ParseVarLine(d, chunk)
                   [] kind = "rule" -> ParseRuleLine(d, chunk)
                   [] kind \notin {"var", "rule"} -> d
         /\ underrun' = (underrun \/ (kind = "rule" /\ ~NameMissing(chunk) /\ Chomp(SplitLine(chunk)[1]) = <<>>))
         /\ status' = IF (kind \in {"var", "rule"} /\ MessageMissing(d')) \/ (kind = "rule" /\ NameMissing(chunk))
                      THEN "crashed" ELSE "running"
    /\ UNCHANGED <<scene, text>>

(* The rest of a line that is too long.                                    *)
SkipRest ==
    /\ scene = "file" /\ status = "running" /\ count < MaxLines /\ skipping
    /\ count' = count + 1
    /\ \E chunk \in Chunks :
         /\ line' = [text |-> chunk, as |-> "skipped"]
         /\ skipping' = ~HasChar(chunk, "nl")
    /\ before' = d
    /\ UNCHANGED <<scene, d, text, in_var_section, status, underrun>>

(* fgets() fails: the loop ends, but the one that skips a line does not.   *)
EndOfFile ==
    /\ scene = "file" /\ status = "running"
    /\ status' = IF skipping THEN "hung" ELSE "done"
    /\ UNCHANGED <<scene, d, text, count, in_var_section, skipping, underrun, line, before>>

Next == Feed \/ ReadLine \/ SkipRest \/ EndOfFile

Spec == Init /\ [][Next]_vars

-----------------------------------------------------------------------------
(* Properties                                                              *)

(* The calls of a text by a reading of its own: the names in front of an   *)
(* opening parenthesis that is not within a string.                        *)
Scan(s, c) ==
    CASE c = "q" -> [s EXCEPT !.quoted = ~@, !.name = <<>>]
      [] c # "q" /\ s.quoted -> s
      [] c \in isAlphanumeric_ /\ ~s.quoted -> [s EXCEPT !.name = Append(@, c)]
      [] c = "(" /\ ~s.quoted -> [s EXCEPT !.names = Append(@, s.name), !.name = <<>>]
      [] c = "!" /\ ~s.quoted -> [s EXCEPT !.bangs[s.field] = @ + 1, !.name = <<>>]
      [] c = "nul" /\ ~s.quoted -> [s EXCEPT !.field = @ + 1, !.name = <<>>]
      [] c \notin isAlphanumeric_ \cup {"q", "(", "!", "nul"} /\ ~s.quoted -> [s EXCEPT !.name = <<>>]

Scanned(t) ==
    FoldLeft(Scan, [quoted |-> FALSE, name |-> <<>>, names |-> <<>>, field |-> 1, bangs |-> <<0, 0, 0>>], t)
Names(fns) == [k \in DOMAIN fns |-> fns[k].name]

(***************************************************************************)
(* A rule that parse() accepts has all the calls of its text, in their     *)
(* order, and as many inverted conditions as its first field has           *)
(* exclamation marks (those of actions are dropped).                       *)
(***************************************************************************)
CallsKept ==
    (scene = "text" /\ d.subject = "rule" /\ d.returned = "true") =>
        LET r == d.rule[1]
            inverted == SelectSeq(r.conditions, LAMBDA f : f.is_inverted)
        IN /\ Names(r.conditions) \o Names(r.actions) \o Names(r.undos) = Scanned(text).names
           /\ Len(inverted) = Scanned(text).bangs[1]

IsDefined(args) == \A k \in DOMAIN args : args[k].text # <<>>
AllDefined(fns) == \A k \in DOMAIN fns : IsDefined(fns[k].args)

(***************************************************************************)
(* Whatever rule is added, write_db_rule() and the next start of the       *)
(* daemon make the same rule of it: strings keep their spaces and bars,    *)
(* integers their wrapped value, floats their digits, variables their      *)
(* names, conditions their inversion.  Left out are values sscanf() never  *)
(* set (a lone minus).                                                     *)
(***************************************************************************)
RuleRoundTrip ==
    (scene = "text" /\ d.rule # <<>>) =>
        LET r == d.rule[1]
            again == Reread(NewData({}, d.cache, {}), d.rule_name, r)
        IN (AllDefined(r.conditions) /\ AllDefined(r.actions) /\ AllDefined(r.undos))
             => again.returned = "true" /\ again.rule = <<r>>

(* The same of variables: get_db_var() finds the one value that add_var()  *)
(* wrote, and finds a value: parse_arg() reads the first one unasked.      *)
VarRoundTrip ==
    (d.subject = "var_map" /\ d.returned # "no") =>
        \A v \in {w \in d.vars : w.value.text # <<>>} :
            LET again == RereadVar(NewData({}, {}, {}), v)
            IN /\ again.returned = "true"
               /\ again.parsed_arg[1].args = <<v.value>>

(* A line of one variable that was not added is never reported as parsed.  *)
(* (With two on a line the second one's success hides it.)                 *)
RefusalReported ==
    (scene = "text" /\ d.subject = "var_map" /\ d.refused /\ Len(Scanned(text).names) = 1)
        => d.returned # "true"

(* The data that parse_config_from_file() uses again for each line leaves  *)
(* no trace: a line means what it means to a new parser that knows the     *)
(* same variables and rules, whatever became of the lines before it.       *)
LinesStandAlone ==
    (scene = "file" /\ line.as \in {"var", "rule"}) =>
        LET fresh == NewData(before.vars, before.cache, before.rules)
            alone == IF line.as = "var" THEN ParseVarLine(fresh, line.text) ELSE ParseRuleLine(fresh, line.text)
        IN /\ d.returned = alone.returned /\ d.rule = alone.rule
           /\ d.vars = alone.vars /\ d.cache = alone.cache /\ d.rules = alone.rules

Quotes(t) == Len(SelectSeq(t, LAMBDA c : c = "q"))

(* The fields of a rule line are whole: no string is divided between two,  *)
(* and if quotes match, the fields put together are the line.              *)
FieldsWhole ==
    (scene = "file" /\ line.as = "rule") =>
        LET f == SplitLine(line.text)
            joined == FoldLeft(LAMBDA s, t : s \o t \o <<"|">>, <<>>, f)
        IN /\ \A k \in DOMAIN f : Quotes(f[k]) % 2 = 0
           /\ Quotes(line.text) % 2 = 0 =>
                SubSeq(joined, 1, Len(joined) - 1) \o <<"nl">> = line.text

(***************************************************************************)
(* What stops the daemon while it reads a policy: it hangs only in a file  *)
(* whose last line has no newline; it reads a message that is not there    *)
(* only for a variable defined twice, and a name that is not there only in *)
(* a line with an odd number of quotes; it leaves the line's buffer only   *)
(* for a rule line that begins with its first bar, or with blanks.         *)
(***************************************************************************)
Repeated(t) ==
    LET n == Scanned(t).names
    IN \E j \in DOMAIN n : (\E v \in before.vars : v.name = n[j]) \/ (\E i \in 1 .. j - 1 : n[i] = n[j])

ReaderStops ==
    /\ status = "hung" => ~HasChar(line.text, "nl")
    /\ status = "crashed" => IF scene = "text" THEN Repeated(text)
                             ELSE Repeated(line.text) \/ (line.as = "rule" /\ Quotes(line.text) % 2 = 1)
    /\ underrun => \E c \in Chunks : HasChar(c, "|") /\ c[1] \in {" ", "|"}

(* What is accepted is what was written: no call is lost, and no refusal.  *)
TextKept == CallsKept /\ RefusalReported

(* What is written to the DB is read back as it was, rules and variables.  *)
RoundTrip == RuleRoundTrip /\ VarRoundTrip

(* A line of a file is read by itself, and cut at the right places.        *)
LinesSound == LinesStandAlone /\ FieldsWhole
=============================================================================
