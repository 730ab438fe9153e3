----------------------------- MODULE JsonCalls -----------------------------
(***************************************************************************)
(* The calls of rpc-broker's websocket clients: JSON arguments become      *)
(* D-Bus arguments of the types that the service's introspection gives for *)
(* the method (rpc-json.c, signature.c, rpc-dbus.c), and D-Bus replies     *)
(* become JSON.  Which requests pass is the subject of Broker, where       *)
(* replies go that of WsClients.                                           *)
(*                                                                         *)
(* A value's payload is a number: a double counts in tenths, and a string  *)
(* is the text of the number, or from Wordy on a text that is not one, of  *)
(* which Wordy is the empty string.                                        *)
(***************************************************************************)
EXTENDS Integers, Sequences, SequencesExt

CONSTANTS
    IntMax,          \* INT_MAX
    Wordy,           \* strings from here on are not numbers
    JsonRequests,    \* what clients send
    Introspections,  \* what services answer to Introspect
    Replies          \* what they answer to a call

VARIABLES
    jreq,            \* the request in ws_request_handler(), or NoRequest
    xml,             \* what its destination answered to Introspect
    outcome,         \* so far: "none", "refused", "sent", "called", "failed", "answered";
                     \* or "exit" or "undefined", where the process ends
    dbus_args,       \* arguments of the D-Bus message that was sent
    dbus_reply,      \* its reply
    jrsp_args        \* args of the JSON response

jsonVars == <<jreq, xml, outcome, dbus_args, dbus_reply, jrsp_args>>

NoRequest == [missing |-> "everything"]
NoIntrospection == <<>>

JsonInit ==
    /\ jreq = NoRequest /\ xml = NoIntrospection /\ outcome = "none"
    /\ dbus_args = <<>> /\ dbus_reply = <<>> /\ jrsp_args = <<>>

-----------------------------------------------------------------------------
(* What the method takes. *)

\* The first node of each name, and of its children the types of those before
\* the first that has not direction="in".
retrieve_xml_signature(doc, interface, member) ==
    LET i == SelectInSeq(doc, LAMBDA n : n.name = interface)
        members == IF i = 0 THEN <<>> ELSE doc[i].members
        m == SelectInSeq(members, LAMBDA n : n.name = member)
        params == IF m = 0 THEN <<>> ELSE members[m].params
        stop == SelectInSeq(params, LAMBDA p : p.direction # "in")
    IN  [k \in 1..(IF stop = 0 THEN Len(params) ELSE stop - 1) |-> params[k].type]

\* A request with a type in place of a destination is a signal of two numbers.
signature(r, doc) ==
    IF r.kind = "signal" THEN <<"u", "u">> ELSE retrieve_xml_signature(doc, r.interface, r.member)

\* dbus_introspect() returns no signature if the service answers with an error,
\* or not in time, as it must when there is no destination to ask.
Introspected(r, doc) == r.kind = "signal" \/ (r.kind = "call" /\ doc # NoIntrospection)

CharAt(sig, i) == IF i \in DOMAIN sig THEN sig[i] ELSE "end"

-----------------------------------------------------------------------------
(* JSON to D-Bus. *)

json_object_get_boolean(a) ==
    IF a.json = "array" \/ a.v = (IF a.json = "string" THEN Wordy ELSE 0) THEN 0 ELSE 1

json_object_get_int(a) ==
    CASE a.json = "array" -> 0
      [] a.json = "double" -> a.v \div 10
      [] a.json = "string" /\ a.v >= Wordy -> 0
      [] OTHER -> IF a.v > IntMax THEN IntMax ELSE a.v

\* Anything but a string is written out; what is not an integer becomes a word.
json_object_get_string(a) ==
    CASE a.json \in {"int", "string"} -> a.v
      [] a.json = "boolean" -> Wordy + 1 + a.v
      [] a.json = "double" -> Wordy + 3 + a.v
      [] a.json = "array" -> Wordy + 3

json_object_get_double(a) == IF a.json = "double" THEN a.v ELSE 10 * json_object_get_int(a)

json_dbus_types(json) ==
    CASE json = "boolean" -> "b" [] json = "double" -> "d" [] json = "int" -> "i"
      [] json = "string" -> "s" [] OTHER -> "end"

\* What args[idx] points to, if to anything.
append_dbus_message_arg(type, a) ==
    LET t == IF type = "v" THEN json_dbus_types(a.json) ELSE type
    IN  CASE t = "b" -> [holds |-> "int", v |-> json_object_get_boolean(a)]
          [] t \in {"u", "i"} -> [holds |-> "int", v |-> json_object_get_int(a)]
          [] t = "d" -> [holds |-> "double", v |-> json_object_get_double(a)]
          [] t = "s" -> [holds |-> "string", v |-> json_object_get_string(a)]
          [] OTHER -> [holds |-> "nothing", v |-> 0]

\* Mutant: sigptr is not advanced.
sigptr_MutStays(args, i) == 1

\* Which type of the signature the i-th argument is converted to: a null does
\* not advance sigptr.
sigptr(args, i) == 1 + Len(SelectSeq(SubSeq(args, 1, i - 1), LAMBDA a : a.json # "null"))

parse_json_args(args, sig) ==
    [i \in DOMAIN args |->
       IF args[i].json = "null" THEN [holds |-> "string", v |-> Wordy]     \* ""
       ELSE append_dbus_message_arg(CharAt(sig, sigptr(args, i)), args[i])]

json_sig(args) == [i \in DOMAIN args |-> json_dbus_types(args[i].json)]

\* What libdbus reads as a value of this type must have been stored as one.
Reads(type, arg) ==
    CASE type = "s" -> arg.holds = "string"
      [] type = "b" -> arg.holds = "int" /\ arg.v \in {0, 1}
      [] type = "d" -> arg.holds = "double"
      [] OTHER -> arg.holds = "int"

\* Mutant: a variant is sent as the type of the value in it.
append_variant_MutBare(type, arg) == <<[t |-> type, v |-> arg.v]>>

\* An argument that is no variant of a basic type is left out.
append_variant(type, arg) ==
    IF type = "end" THEN <<>> ELSE <<[t |-> "v", of |-> type, v |-> arg.v]>>

\* The arguments appended by make_dbus_call(), which trusts arg_sig.
dbus_message_args(args, types, sig) ==
    FlattenSeq([i \in DOMAIN args |->
      IF sig[i] = "v" THEN append_variant(types[i], args[i])
      ELSE <<[t |-> sig[i], v |-> args[i].v]>>])

append_args(args, types, sig) ==
    LET type(i) == IF CharAt(sig, i) = "v" THEN types[i] ELSE CharAt(sig, i)
        skipped(i) == CharAt(sig, i) = "v" /\ types[i] = "end"
        fatal == {i \in DOMAIN args : CharAt(sig, i) \notin {"s", "u", "i", "b", "v"}}
        wild == {i \in DOMAIN args : ~skipped(i) /\ i \notin fatal /\ ~Reads(type(i), args[i])}
        before(i) == \A k \in fatal : i < k
    IN  CASE \E i \in wild : before(i) -> outcome' = "undefined" /\ dbus_args' = <<>>
          [] ~(\E i \in wild : before(i)) /\ fatal # {} -> outcome' = "exit" /\ dbus_args' = <<>>
          [] OTHER -> outcome' = "sent" /\ dbus_args' = dbus_message_args(args, types, sig)

-----------------------------------------------------------------------------
(* D-Bus to JSON. *)

NoKey == "none"

basic_object(x) ==
    CASE x.t \in {"o", "s"} -> [json |-> "string", v |-> x.v]
      [] x.t \in {"i", "u"} ->                                  \* read into an int
           [json |-> "int", v |-> IF x.v > IntMax THEN x.v - 2 * (IntMax + 1) ELSE x.v]
      [] x.t = "d" -> [json |-> "double", v |-> x.v]
      [] x.t = "b" -> [json |-> "boolean", v |-> x.v]
      [] x.t = "x" -> [json |-> "int", v |-> x.v]

Object(adds) ==
    [json |-> "object", fields |->
       [k \in {adds[i].key : i \in DOMAIN adds} |->
          adds[SelectLastInSeq(adds, LAMBDA a : a.key = k)].obj]]

\* Mutant: an entry is not taken with those that follow it.
dict_entries_MutFirst(items) == <<Head(items)>>

\* parse_dbus_dict() takes all that the iterator has left.
dict_entries(items) == items

\* What parse_signature() adds to its container, and under which key: the
\* elements of an array go into the container the array would be in.
RECURSIVE parse_signature(_, _)
parse_signature(key, items) ==
    IF items = <<>> THEN <<>>
    ELSE LET x == Head(items)
             rest == parse_signature(key, Tail(items))
             entries == dict_entries(items)
         IN  CASE x.t = "a" /\ x.items = <<>> /\ key # NoKey ->
                    <<[key |-> key, obj |-> Object(<<>>)]>> \o rest
               [] x.t = "a" /\ (x.items # <<>> \/ key = NoKey) -> parse_signature(key, x.items) \o rest
               [] x.t = "e" ->
                    <<[key |-> key, obj |-> Object(FlattenSeq(
                         [i \in DOMAIN entries |-> parse_signature(entries[i].key, <<entries[i].val>>)]))]>>
               [] x.t = "v" -> parse_signature(key, <<x.val>>) \o rest
               [] x.t \in {"o", "s", "i", "u", "d", "b", "x"} -> <<[key |-> key, obj |-> basic_object(x)]>> \o rest
               [] OTHER -> rest                                 \* a warning

Added(adds) == [i \in DOMAIN adds |-> adds[i].obj]

\* With an array in front, its elements are the response, in a list of their own
\* for four element types.
load_json_response(items) ==
    IF items # <<>> /\ items[1].t = "a"
    THEN LET args == Added(parse_signature(NoKey, items[1].items))
         IN  IF items[1].of \in {"a", "i", "s", "o"} THEN <<[json |-> "array", items |-> args]>> ELSE args
    ELSE Added(parse_signature(NoKey, items))

-----------------------------------------------------------------------------
(* ws_request_handler(), which waits for the service twice. *)

\* convert_json_request() and, if the policy allows it, the call; Hello is
\* answered with the name of the connection.
RequestHandler(r, doc) ==
    LET sig == signature(r, doc)
        args == parse_json_args(r.args, sig)
    IN  /\ jreq' = r /\ xml' = doc
        /\ \/ outcome' = "refused" /\ UNCHANGED dbus_args       \* or by the policy
           \/ /\ r.missing = "none" /\ Introspected(r, doc) /\ r.member # "Hello"
              /\ append_args(args, json_sig(r.args), sig)
           \/ /\ r.missing = "none" /\ Introspected(r, doc) /\ r.member = "Hello"
              /\ outcome' = "answered" /\ UNCHANGED dbus_args
        /\ jrsp_args' = IF outcome' = "answered" THEN <<[json |-> "string", v |-> Wordy]>> ELSE <<>>
        /\ UNCHANGED dbus_reply

\* dbus_connection_send_with_reply_and_block(): nobody answers a signal, and the
\* wait runs out.  The response has nothing of the request but its id, so the
\* model forgets it here.
SendAndBlock ==
    /\ outcome = "sent" /\ outcome' \in (IF jreq.kind = "call" THEN {"called", "failed"} ELSE {"failed"})
    /\ jreq' = NoRequest /\ xml' = NoIntrospection /\ dbus_args' = <<>>
    /\ UNCHANGED <<dbus_reply, jrsp_args>>

\* The rest of make_json_request(); an error reply is dropped.
Reply(items) ==
    /\ \/ outcome' = "answered" /\ dbus_reply' = items /\ jrsp_args' = load_json_response(items)
       \/ outcome' = "failed" /\ UNCHANGED <<dbus_reply, jrsp_args>>
    /\ UNCHANGED <<jreq, xml, dbus_args>>

free_json_request ==
    /\ outcome \in {"refused", "answered", "failed"} /\ outcome' = "none"
    /\ jreq' = NoRequest /\ xml' = NoIntrospection
    /\ dbus_args' = <<>> /\ dbus_reply' = <<>> /\ jrsp_args' = <<>>

JsonNext ==
    \/ /\ outcome = "none"
       /\ \E r \in JsonRequests, doc \in Introspections \cup {NoIntrospection} : RequestHandler(r, doc)
    \/ SendAndBlock
    \/ outcome = "called" /\ \E items \in Replies : Reply(items)
    \/ free_json_request

-----------------------------------------------------------------------------
(* Properties *)

\* The "in" arguments of the method, wherever they stand.
Declared(r, doc) ==
    LET nodes == {n \in ToSet(doc) : n.name = r.interface}
        methods == {m \in UNION {ToSet(n.members) : n \in nodes} : m.name = r.member}
        params == SelectSeq((CHOOSE m \in methods : TRUE).params, LAMBDA p : p.direction = "in")
    IN  IF methods = {} THEN <<>> ELSE [k \in DOMAIN params |-> params[k].type]

InFirst(params) ==
    \A i, j \in DOMAIN params : i < j /\ params[j].direction = "in" => params[i].direction = "in"

Fits(a, type) ==
    CASE a.json = "null" -> type = "s"
      [] a.json = "int" -> type \in {"i", "u", "v"} /\ a.v <= IntMax
      [] a.json = "boolean" -> type \in {"b", "v"}
      [] a.json = "string" -> type \in {"s", "v"}
      [] a.json = "double" -> type = "v"
      [] OTHER -> FALSE

AsDeclared(a, type) ==
    IF a.json = "null" THEN [t |-> "s", v |-> Wordy]
    ELSE IF type = "v" THEN [t |-> "v", of |-> json_dbus_types(a.json), v |-> a.v]
    ELSE [t |-> type, v |-> a.v]

(***************************************************************************)
(* A call that passes, with an argument of the right kind for each that    *)
(* the method takes, is sent with exactly these types and values; only a   *)
(* null may not stand before another argument, and the service must list   *)
(* what the method takes before what it returns.                           *)
(***************************************************************************)
CallAsDeclared ==
    LET declared == Declared(jreq, xml)
        fits == /\ \A n \in ToSet(xml) : \A m \in ToSet(n.members) : InFirst(m.params)
                /\ Len(jreq.args) = Len(declared)
                /\ \A i \in DOMAIN declared : Fits(jreq.args[i], declared[i])
                /\ \A i \in DOMAIN declared : jreq.args[i].json = "null" => i = Len(declared)
    IN  jreq # NoRequest /\ jreq.kind = "call" /\ fits /\ outcome # "refused" /\ jreq.member # "Hello" =>
          /\ outcome = "sent"
          /\ dbus_args = [i \in DOMAIN declared |-> AsDeclared(jreq.args[i], declared[i])]

RECURSIVE AsJson(_)
AsJson(x) ==
    CASE x.t = "v" -> AsJson(x.val)
      [] x.t = "a" /\ x.of = "{" ->
           [json |-> "object", fields |->
              [k \in {e.key : e \in ToSet(x.items)} |->
                 AsJson((CHOOSE e \in ToSet(x.items) : e.key = k).val)]]
      [] OTHER -> basic_object(x)

\* Dictionaries may hold basic values and dictionaries.
RECURSIVE Kept(_)
Kept(x) ==
    CASE x.t = "v" -> Kept(x.val)
      [] x.t = "a" -> x.of = "{" /\ \A e \in ToSet(x.items) : Kept(e.val)
      [] OTHER -> x.t \in {"o", "s", "i", "u", "d", "b", "x"} /\ (x.t = "u" => x.v <= IntMax)

(***************************************************************************)
(* Nothing of a reply is lost, reordered or doubled if it is a list of     *)
(* basic values, a dictionary, or an array of basic values or of           *)
(* dictionaries; dictionaries may hold dictionaries.  A list in a          *)
(* dictionary, a list of lists, an empty dictionary that is not in another *)
(* one, and what follows a leading array are not kept.                     *)
(***************************************************************************)
ReplyKept ==
    LET items == dbus_reply
        bare(x) == IF x.t = "v" THEN x.val ELSE x
        nonEmpty(x) == bare(x).t = "a" => bare(x).items # <<>>
        all(s) == [i \in DOMAIN s |-> AsJson(s[i])]
    IN  /\ (outcome = "answered" /\ jreq = NoRequest /\ \A x \in ToSet(items) : x.t # "a" /\ Kept(x) /\ nonEmpty(x)) =>
             jrsp_args = all(items)
        /\ (outcome = "answered" /\ Len(items) = 1 /\ items[1].t = "a") =>
             /\ items[1].of = "{" /\ Kept(items[1]) /\ items[1].items # <<>> => jrsp_args = all(items)
             /\ items[1].of # "{" /\ (\A x \in ToSet(items[1].items) : Kept(x) /\ nonEmpty(x)) =>
                  jrsp_args = IF items[1].of \in {"a", "i", "s", "o"}
                              THEN <<[json |-> "array", items |-> all(items[1].items)]>>
                              ELSE all(items[1].items)
=============================================================================
