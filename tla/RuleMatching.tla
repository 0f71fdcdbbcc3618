---------------------------- MODULE RuleMatching -----------------------------
(***************************************************************************)
(* What a rule says of an event: the matching of its condition             *)
(* (cpp/processing/src/processing_engine.cpp), next to a declarative       *)
(* meaning of conditions that it is checked against.                       *)
(***************************************************************************)
EXTENDS JsonRules

CONSTANT
  Dotted  \* the keys that contain a dot or are empty, and their segments

OrderOps    == {"$gt", "$gte", "$lt", "$lte"}
Combinators == {"$all", "$any", "$not"}

\* The keys that begin with a $; one that is no operator stands for all of these.
NoOperator == "$like"
DollarKeys == {"$exists", "$eq", "$ne", "$in", NoOperator} \cup OrderOps \cup Combinators

-----------------------------------------------------------------------------
(* The code.                                                               *)

Segments(key) == IF key \in DOMAIN Dotted THEN Dotted[key] ELSE <<key>>

\* resolve_json_path: Missing is its nullptr.
RECURSIVE resolve_json_path(_, _)
resolve_json_path(json, path) ==
  IF path = <<>> \/ json = Missing THEN json
  ELSE resolve_json_path(Field(json, Head(path)), Tail(path))

\* An object of operators as if a $ key that is no operator were a field.
is_known_operator_object(json) ==
  Is("obj", json) /\ \E key \in DOMAIN json[2] : key \in DollarKeys \ {NoOperator}

\* is_operator_object: one key with a $ is enough, whether or not it is an operator.
is_operator_object(json) ==
  Is("obj", json) /\ \E key \in DOMAIN json[2] : key \in DollarKeys

\* compare_json_operator: a comparison of two types, and an operator that is not
\* known, is false.
compare_json_operator(actual, op, expected) ==
  CASE op = "$exists" -> Is("bool", expected) /\ (expected[2] = ~Is("null", actual))
    [] op = "$eq" -> actual = expected
    [] op = "$ne" -> actual # expected
    [] op = "$in" ->
         Is("arr", expected) /\ \E k \in DOMAIN expected[2] : expected[2][k] = actual
    [] op \in OrderOps ->
         /\ \E type \in {"num", "str"} : Is(type, actual) /\ Is(type, expected)
         /\ \/ op = "$gt" /\ actual[2] > expected[2]
            \/ op = "$gte" /\ actual[2] >= expected[2]
            \/ op = "$lt" /\ actual[2] < expected[2]
            \/ op = "$lte" /\ actual[2] <= expected[2]
    [] OTHER -> FALSE

\* compare_condition_value, with object_condition_matches in it.
RECURSIVE compare_condition_value(_, _)
compare_condition_value(actual, expected) ==
  IF ~Is("obj", expected) THEN actual = expected
  ELSE IF is_operator_object(expected)
  THEN \A op \in DOMAIN expected[2] :
         compare_json_operator(actual, op, expected[2][op])
  ELSE /\ Is("obj", actual)
       /\ \A key \in DOMAIN expected[2] :
            /\ Has(actual, key)
            /\ compare_condition_value(Field(actual, key), expected[2][key])

\* A lookup that prefers the payload.
lookup_payload_first(event, key) ==
  LET in == resolve_json_path(event, <<"payload">> \o Segments(key))
  IN  IF in # Missing THEN in ELSE resolve_json_path(event, Segments(key))

\* A key of a condition names a field of the event, or else of its payload.
lookup(event, key) ==
  LET top == resolve_json_path(event, Segments(key))
  IN  IF top # Missing THEN top
      ELSE resolve_json_path(event, <<"payload">> \o Segments(key))

\* The loops over $all and $any: the first result that is not neutral decides.
FirstOther(results, neutral) ==
  LET others == {k \in DOMAIN results : results[k] # neutral}
  IN  IF others = {} THEN neutral
      ELSE results[CHOOSE k \in others : \A j \in others : k <= j]

Truth(b) == IF b THEN "true" ELSE "false"

\* condition_matches.  Iterating over the keys of a value that is not an object
\* throws, unless it is an empty array.
RECURSIVE condition_matches(_, _)
condition_matches(event, condition) ==
  LET Each(key) == [k \in DOMAIN Field(condition, key)[2] |->
                      condition_matches(event, Field(condition, key)[2][k])]
  IN
  CASE condition \in {Null, EmptyObject, Arr(<<>>)} -> "true"
    [] Is("arr", Field(condition, "$all")) -> FirstOther(Each("$all"), "true")
    [] OTHER ->
  CASE Is("arr", Field(condition, "$any")) -> FirstOther(Each("$any"), "false")
    [] OTHER ->
  CASE Has(condition, "$not") ->
         LET result == condition_matches(event, Field(condition, "$not"))
         IN  IF result = "throw" THEN "throw" ELSE Truth(result = "false")
    [] ~Is("obj", condition) -> "throw"
    [] OTHER ->
         Truth(\A key \in DOMAIN condition[2] :
                 /\ lookup(event, key) # Missing
                 /\ compare_condition_value(lookup(event, key), condition[2][key]))

\* An evaluation that takes a device_id for granted.
evaluate_requiring_device(event, rule) ==
  LET matches == condition_matches(event, rule.condition)
  IN
  CASE ~rule.enabled \/ Field(event, "event_type") # rule.event_type -> "nomatch"
    [] OTHER ->
  CASE matches = "false" -> "nomatch"
    [] matches = "throw" -> "throw"
    [] OTHER ->
         IF \/ Field(event, "device_id")[1] # "str"
            \/ Field(event, "timestamp_ms")[1] \notin {"missing", "num"}
         THEN "throw" ELSE "match"

\* evaluate for one rule, matches_rule in it: the alarm of a rule that matches
\* takes its device_id and its time from the event, which throws for a device_id
\* that is no string and for a timestamp_ms that is no number.
evaluate_rule(event, rule) ==
  LET matches == condition_matches(event, rule.condition)
  IN
  CASE ~rule.enabled \/ Field(event, "event_type") # rule.event_type -> "nomatch"
    [] OTHER ->
  CASE matches = "false" -> "nomatch"
    [] matches = "throw" -> "throw"
    [] OTHER ->
         IF \/ Field(event, "device_id")[1] \notin {"missing", "str"}
            \/ Field(event, "timestamp_ms")[1] \notin {"missing", "num"}
         THEN "throw" ELSE "match"

-----------------------------------------------------------------------------
(* The meaning of a condition, by the paths an event has.                  *)

\* The paths into a value, each with the value at its end.
RECURSIVE Paths(_)
Paths(json) ==
  {<<<<>>, json>>} \cup
    (IF Is("obj", json)
     THEN UNION {{<<<<key>> \o p[1], p[2]>> : p \in Paths(json[2][key])} :
                   key \in DOMAIN json[2]}
     ELSE {})

At(json, path) == {p[2] : p \in {q \in Paths(json) : q[1] = path}}

OfOperators(pattern) == Is("obj", pattern) /\ DOMAIN pattern[2] \cap DollarKeys # {}

\* The demands a pattern makes: at each path where it ends, a set of operators,
\* an object, or a value.
RECURSIVE Demands(_)
Demands(pattern) ==
  IF Is("obj", pattern) /\ pattern # EmptyObject /\ ~OfOperators(pattern)
  THEN UNION {{<<<<key>> \o d[1], d[2]>> : d \in Demands(pattern[2][key])} :
                key \in DOMAIN pattern[2]}
  ELSE {<<<<>>, pattern>>}

\* Strings are compared with strings and numbers with numbers.
Below(a, b) == a[1] = b[1] /\ a[1] \in {"num", "str"} /\ a[2] < b[2]

\* Ops(x) is the set of operators, other than $in and $exists, that relate v to x.
Ops(v, x) ==
  (IF v = x THEN {"$eq"} ELSE {"$ne"})
    \cup (IF Below(v, x) THEN {"$lt", "$lte"} ELSE {})
    \cup (IF Below(x, v) THEN {"$gt", "$gte"} ELSE {})
    \cup (IF v = x /\ v[1] \in {"num", "str"} THEN {"$gte", "$lte"} ELSE {})

Grants(v, demand) ==
  CASE demand = EmptyObject -> Is("obj", v)
    [] Is("obj", demand) /\ demand # EmptyObject ->
         \A op \in DOMAIN demand[2] :
           \/ op \in Ops(v, demand[2][op])
           \/ op = "$in" /\ \E k \in DOMAIN demand[2][op][2] : demand[2][op][2][k] = v
           \/ op = "$exists" /\ demand[2][op] = Bool(v # Null)
    [] OTHER -> v = demand

RECURSIVE Holds(_, _)
Holds(e, c) ==
  \A key \in DOMAIN c[2] :
    CASE key = "$all" -> \A k \in DOMAIN c[2][key][2] : Holds(e, c[2][key][2][k])
      [] key = "$any" -> \E k \in DOMAIN c[2][key][2] : Holds(e, c[2][key][2][k])
      [] key = "$not" -> ~Holds(e, c[2][key])
      [] OTHER ->
           LET named == IF At(e, Segments(key)) # {} THEN At(e, Segments(key))
                        ELSE At(e, <<"payload">> \o Segments(key))
           IN  \E v \in named :
                 \A d \in Demands(c[2][key]) : \E w \in At(v, d[1]) : Grants(w, d[2])

\* The conditions that have a meaning: a combinator stands alone, over conditions
\* that have one, and so does an operator, with an argument it can use.  A $ key
\* that is no operator has one where operators stand: no value is granted by it.
ProperPattern(pattern) ==
  \A d \in Demands(pattern) :
    OfOperators(d[2]) =>
      \A op \in DOMAIN d[2][2] :
        /\ op \in DollarKeys \ Combinators
        /\ op = "$in" => Is("arr", d[2][2][op])
        /\ op = "$exists" => Is("bool", d[2][2][op])

RECURSIVE Proper(_)
Proper(c) ==
  /\ Is("obj", c)
  /\ \A key \in DOMAIN c[2] :
       CASE key \in {"$all", "$any"} ->
              /\ DOMAIN c[2] = {key}
              /\ Is("arr", c[2][key])
              /\ \A k \in DOMAIN c[2][key][2] : Proper(c[2][key][2][k])
         [] key = "$not" -> DOMAIN c[2] = {key} /\ Proper(c[2][key])
         [] OTHER -> key \notin DollarKeys /\ ProperPattern(c[2][key])

\* What a rule, as it stands in the file, says of an event: for a condition that
\* is not proper, whatever the code makes of it.
Says(event, json) ==
  LET rule == Loaded(json)
  IN  /\ json.enabled # Bool(FALSE)
      /\ Field(event, "event_type") = json.event_type
      /\ IF Proper(rule.condition) THEN Holds(event, rule.condition)
         ELSE evaluate_rule(event, rule) = "match"

\* The reasons for which the evaluation of a rule may throw.
MayThrow(event, json) ==
  \/ ~Proper(Loaded(json).condition)
  \/ Has(event, "device_id") /\ ~Is("str", Field(event, "device_id"))
  \/ Has(event, "timestamp_ms") /\ ~Is("num", Field(event, "timestamp_ms"))

\* A rule matches exactly the events of which it says so; and it throws, and so keeps
\* the rules after it from being looked at, only for an event with an unusable
\* device_id or timestamp_ms, or under a condition that is not proper.
MeansWhatItSays(event, json) ==
  LET verdict == evaluate_rule(event, Loaded(json))
  IN  /\ verdict = "match" => Says(event, json)
      /\ verdict = "nomatch" => ~Says(event, json)
      /\ verdict = "throw" => MayThrow(event, json)
=============================================================================
