------------------------------ MODULE JsonRules ------------------------------
(***************************************************************************)
(* Events and rules as JSON values, and the reading of a rule              *)
(* (cpp/processing/include/rules_loader.hpp).                              *)
(*                                                                         *)
(* A JSON value is a pair of its type and its content.  The content of an  *)
(* object is a function from its keys, of an array a sequence, of a string *)
(* its rank in the order of strings, of a number the number.               *)
(***************************************************************************)
EXTENDS Naturals, Sequences

CONSTANTS
  Events,  \* the values that may be evaluated
  Entries  \* the entries that a rules file may have

Null    == <<"null", 0>>
Bool(b) == <<"bool", b>>
Num(n)  == <<"num", n>>
Str(n)  == <<"str", n>>
Arr(s)  == <<"arr", s>>
Obj(f)  == <<"obj", f>>
Missing == <<"missing", 0>>  \* no such field

Is(type, json) == json[1] = type

EmptyObject == Obj(<<>>)

\* contains(key) and [key] of a value, which need not be an object.
Field(json, key) ==
  IF Is("obj", json) /\ key \in DOMAIN json[2] THEN json[2][key] ELSE Missing

Has(json, key) == Field(json, key) # Missing

-----------------------------------------------------------------------------
\* RulesLoader, for one element of rules: a required field that is missing and a
\* field of a wrong type throw.
Loads(json) ==
  /\ Is("str", json.id) /\ Is("str", json.event_type)
  /\ json.description[1] \in {"missing", "str"}
  /\ json.priority[1] \in {"missing", "num", "bool"}
  /\ json.enabled[1] \in {"missing", "bool"}
  /\ ~Is("missing", json.alarm)
  /\ \A key \in {"alarm_type", "severity", "message"} :
       Field(json.alarm, key)[1] \in {"missing", "str"}

\* ... but a condition that is not an object becomes one that always holds.
Loaded(json) ==
  [id         |-> json.id,
   event_type |-> json.event_type,
   condition  |-> IF Is("obj", json.condition) THEN json.condition ELSE EmptyObject,
   enabled    |-> json.enabled # Bool(FALSE)]
=============================================================================
