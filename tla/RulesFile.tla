------------------------------ MODULE RulesFile ------------------------------
(***************************************************************************)
(* How rpc-broker reads its rules (policy.c): create_rule() takes a text   *)
(* apart into a slot of an array, for the lines of the /etc file and for   *)
(* the entries the DB has for a VM.  A text is the sequence of its words.  *)
(* free_rule() gets a copy of the slot, so pointers it frees stay in the   *)
(* array.                                                                  *)
(***************************************************************************)
EXTENDS Integers, Sequences, SequencesExt, FiniteSetsExt

CONSTANTS
    Keys,         \* keywords followed by a value that is kept
    SWords,       \* words that begin with an s
    Files,        \* what is read: [db, texts, newline], newline telling whether
                  \* the last line of a file ends in one
    MaxRules      \* MAX_RULES

ASSUME RulesAssumption == "if-boolean" \in Keys /\ "stubdom" \in SWords

VARIABLES
    input,        \* the file, or the entries of one VM; fixed
    loader,       \* "reading", "done" or "crashed"
    at,           \* texts read so far
    slots,        \* the array
    count         \* rules in force: the slots 1..count

rulesVars == <<input, loader, at, slots, count>>

\* The pointers of a slot: Null, Freed, or the word they point to.
Null == "(null)"
Freed == "(freed)"
Pointers == Keys \cup {"rule_string"}
EmptySlot ==
    [policy |-> FALSE, all |-> FALSE, out |-> FALSE, stubdom |-> FALSE, flag |-> FALSE,
     ptr |-> [k \in Pointers |-> Null]]

free_rule(slot) ==
    [slot EXCEPT !.ptr = [k \in Pointers |-> IF slot.ptr[k] = Null THEN Null ELSE Freed]]

RulesInit(files) ==
    /\ input \in files
    /\ loader = "reading"
    /\ at = 0
    /\ slots = [i \in 1..MaxRules |-> EmptySlot]
    /\ count = 0

-----------------------------------------------------------------------------
\* Mutant: the flag of an if-boolean is taken for the next keyword.
Word_MutNoFlag(acc, word) ==
    CASE acc.ret # "ok" -> acc
      [] acc.want = "key" -> [acc EXCEPT !.want = word]
      [] acc.want \in Keys -> [acc EXCEPT !.slot.ptr[acc.want] = word, !.want = "key"]
      [] acc.want = "stubdom" -> [acc EXCEPT !.slot.stubdom = TRUE, !.want = "key"]
      [] OTHER -> [acc EXCEPT !.ret = "unrecognized"]

\* One word of the loop of create_rule().  want is "key" or the keyword whose
\* value comes next, "flag" for the truth value an if-boolean ends in.
Word(acc, word) ==
    CASE acc.ret # "ok" -> acc
      [] acc.want = "key" -> [acc EXCEPT !.want = word]
      [] acc.want = "flag" -> [acc EXCEPT !.slot.flag = (word = "true"), !.want = "key"]
      [] acc.want \in Keys ->
           [acc EXCEPT !.slot.ptr[acc.want] = word,
                       !.want = IF acc.want = "if-boolean" THEN "flag" ELSE "key"]
      [] acc.want = "stubdom" -> [acc EXCEPT !.slot.stubdom = TRUE, !.want = "key"]
      [] OTHER -> [acc EXCEPT !.ret = "unrecognized"]

\* The words have run out: a keyword may lack its value only if it begins with
\* an s, and strcmp() does not take the flag's NULL.
End(acc) ==
    CASE acc.ret # "ok" \/ acc.want = "key" -> acc
      [] acc.want = "flag" -> [acc EXCEPT !.ret = "crash"]
      [] acc.want = "stubdom" -> [acc EXCEPT !.slot.stubdom = TRUE]
      [] OTHER -> [acc EXCEPT !.ret = IF acc.want \in SWords \cup {"s cut"} THEN "unrecognized" ELSE "short"]

\* create_rule(): the slot it leaves, and how it ended.  A word it does not know
\* makes it free the rule, which its caller then does again.
create_rule(slot, text) ==
    LET named == [slot EXCEPT !.policy = (Head(text) = "allow"), !.ptr["rule_string"] = "text"]
        start == [slot |-> named, want |-> "key", ret |-> "ok"]
    IN  IF text = <<>> THEN [slot |-> slot, ret |-> "short"]
        ELSE IF Len(text) = 1 THEN [slot |-> named, ret |-> "crash"]
        ELSE IF text[2] = "all" THEN [slot |-> [named EXCEPT !.all = TRUE], ret |-> "ok"]
        ELSE IF text[2] = "out-any" THEN [slot |-> [named EXCEPT !.out = TRUE], ret |-> "ok"]
        ELSE End(FoldLeft(Word, start, Tail(text)))

-----------------------------------------------------------------------------
\* The last character of every line is cut off, newline or not: a last line
\* without one ends in another word.
Cut(text) ==
    [text EXCEPT ![Len(text)] = IF @ \in SWords THEN "s cut" ELSE "cut"]
TextRead(p) ==
    IF ~input.db /\ ~input.newline /\ p = Len(input.texts) /\ input.texts[p] # <<>>
    THEN Cut(input.texts[p]) ELSE input.texts[p]

\* isalpha() of the first character: blank lines and comments are no rules.
IsRule(text) == input.db \/ (text # <<>> /\ Head(text) # "#")

\* Mutant: a rule that parses is freed as well.
Stored_MutFreesGood(r) == free_rule(r.slot)

Stored(r) == IF r.ret = "ok" THEN r.slot ELSE free_rule(r.slot)

\* create_rule() and the free_rule() of its caller into slot i.  Freeing twice
\* may end the process or go unnoticed.
Read(i, r) ==
    /\ slots' = [slots EXCEPT ![i] = Stored(r)]
    /\ count' = IF r.ret = "ok" THEN count + 1 ELSE count
    /\ loader' \in CASE r.ret = "crash" -> {"crashed"}
                      [] r.ret = "unrecognized" -> {"crashed", "reading"}
                      [] r.ret = "short" -> IF Freed \in Range(r.slot.ptr)
                                            THEN {"crashed", "reading"} ELSE {"reading"}
                      [] r.ret = "ok" -> {"reading"}

\* A round of the loop of build_etc_policy(): a rule that fails leaves its slot
\* to the next.
ReadLine ==
    /\ loader = "reading" /\ ~input.db
    /\ at < Len(input.texts) /\ count < MaxRules
    /\ at' = at + 1
    /\ IF IsRule(TextRead(at + 1))
       THEN Read(count + 1, create_rule(slots[count + 1], TextRead(at + 1)))
       ELSE UNCHANGED <<loader, slots, count>>
    /\ UNCHANGED input

\* A round of the loop of get_rules(): a rule that fails keeps its slot, and the
\* count falls behind the index.
ReadEntry ==
    /\ loader = "reading" /\ input.db
    /\ at < Len(input.texts) /\ at < MaxRules
    /\ at' = at + 1
    /\ Read(at + 1, create_rule(slots[at + 1], TextRead(at + 1)))
    /\ UNCHANGED input

AllRead ==
    /\ loader = "reading"
    /\ at = Len(input.texts) \/ (IF input.db THEN at ELSE count) = MaxRules
    /\ loader' = "done"
    /\ UNCHANGED <<input, at, slots, count>>

\* free_policy(), at the next reload.
FreeRules ==
    /\ loader = "done"
    /\ slots' = [i \in DOMAIN slots |-> IF i <= count THEN free_rule(slots[i]) ELSE slots[i]]
    /\ loader' \in IF \E i \in 1..count : Freed \in Range(slots[i].ptr)
                   THEN {"crashed", "freed"} ELSE {"freed"}
    /\ UNCHANGED <<input, at, count>>

RulesNext == ReadLine \/ ReadEntry \/ AllRead \/ FreeRules

-----------------------------------------------------------------------------
(***************************************************************************)
(* The reference: a rule is a policy followed by "all", by "out-any", or   *)
(* by keywords at known places, each with its value.                       *)
(***************************************************************************)
IsKey(text) ==
    LET after(p) == IF text[p] = "if-boolean" THEN p + 3 ELSE p + 2
        key[p \in 1..Len(text)] ==
            p = 2 \/ \E q \in 2..(p - 1) : key[q] /\ after(q) = p
    IN  key

KeysOf(text, k) == {p \in DOMAIN text : IsKey(text)[p] /\ text[p] = k}

Blanket(text) == Len(text) >= 2 /\ text[2] \in {"all", "out-any"}

WellFormed(text) ==
    \/ Blanket(text)
    \/ /\ Len(text) >= 2
       /\ \A p \in DOMAIN text : IsKey(text)[p] =>
             \/ text[p] = "stubdom"
             \/ text[p] = "if-boolean" /\ p + 2 <= Len(text)
             \/ text[p] \in Keys \ {"if-boolean"} /\ p + 1 <= Len(text)

Meaning(text) ==
    LET plain == ~Blanket(text)
        Value(k) == text[Max(KeysOf(text, k)) + 1]
    IN  [policy |-> text[1] = "allow",
         all |-> text[2] = "all", out |-> text[2] = "out-any",
         stubdom |-> plain /\ KeysOf(text, "stubdom") # {},
         flag |-> /\ plain /\ KeysOf(text, "if-boolean") # {}
                  /\ text[Max(KeysOf(text, "if-boolean")) + 2] = "true",
         ptr |-> [k \in Pointers |->
                    IF k = "rule_string" THEN "text"
                    ELSE IF plain /\ KeysOf(text, k) # {} THEN Value(k) ELSE Null]]

\* The texts read so far that are rules, and those of them that are well formed.
RuleTexts == {p \in 1..at : IsRule(TextRead(p))}
Good == {p \in RuleTexts : WellFormed(TextRead(p))}

\* When reading is over, the rules in force are exactly the well-formed texts, in
\* their order, each meaning what it says; but in a file a rule that follows one
\* that failed may have kept pointers of it, and entries of the DB are only in
\* force as they stand if none failed.
RulesAreTheirTexts ==
    loader = "done" =>
        LET order == SetToSortSeq(Good, <)
            Follows(i) == \E p \in RuleTexts \ Good :
                            p < order[i] /\ (i > 1 => p > order[i - 1])
        IN  /\ count = Len(order)
            /\ \A i \in 1..count :
                  IF input.db THEN RuleTexts = Good => slots[i] = Meaning(TextRead(order[i]))
                  ELSE Follows(i) \/ slots[i] = Meaning(TextRead(order[i]))

\* Reading a policy and freeing it again ends the process only if some text of it
\* is not well formed.
WellFormedIsSafe == RuleTexts = Good => loader # "crashed"
=============================================================================
