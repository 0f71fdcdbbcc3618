--------------------------- MODULE MCProcessingEngine --------------------------
(***************************************************************************)
(* The events, rules and programs of TLC's run of ProcessingEngine, which  *)
(* takes its verdicts from RuleMatching: one thread that evaluates one      *)
(* event under one rule, for many events and rules, and three threads that *)
(* load, evaluate and replace the publisher.                               *)
(***************************************************************************)
EXTENDS ProcessingEngine, RuleMatching, Functions

\* An object without the fields that are missing.
Object(f) == Obj([key \in {k \in DOMAIN f : f[k] # Missing} |-> f[key]])

Single(key, json) == Obj([k \in {key} |-> json])

MCDotted ==
  [key \in {"payload.zone", "zone.a", ""} |->
     CASE key = "payload.zone" -> <<"payload", "zone">>
       [] key = "zone.a" -> <<"zone", "a">>
       [] OTHER -> <<>>]

Scalars == {Num(1), Num(2), Str(1), Str(2), Null, Bool(TRUE)}

\* What a zone may be: a scalar, an object with one, an array.
Zones == Scalars \cup {Single("a", v) : v \in {Num(1), Str(1)}}
           \cup {Single(NoOperator, Num(1)), EmptyObject, Arr(<<Num(1)>>)}

Payloads == {Missing, Str(1), EmptyObject} \cup {Single("zone", z) : z \in Zones}

\* Events with a zone of their own, one in their payload, or both.
ZoneEvents ==
  {Object([event_type |-> Str(1), device_id |-> Str(1), timestamp_ms |-> Num(1),
           zone |-> z, payload |-> p]) :
     z \in {Missing, Num(2), Single("a", Num(1))}, p \in Payloads}

\* The ones that tell combinations apart.
FewEvents ==
  {Object([event_type |-> Str(1), device_id |-> Str(1), timestamp_ms |-> Num(1),
           zone |-> z, payload |-> p]) :
     z \in {Missing, Num(1), Num(2)}, p \in {Missing, Single("zone", Num(1))}}

\* Events with an unusable or missing header, and values that are no objects.
HeaderEvents ==
  {Object([event_type |-> t, device_id |-> d, timestamp_ms |-> m]) :
     t \in {Missing, Num(1), Str(1), Str(2)},
     d \in {Missing, Num(1), Str(1)}, m \in {Missing, Num(1), Str(1), Bool(TRUE)}}
  \cup {Num(1), Arr(<<>>)}

Patterns ==
  Zones
    \cup {Single(op, x) : op \in OrderOps \cup {"$eq", "$ne"}, x \in {Num(1), Str(2), Null}}
    \cup {Single("$in", x) : x \in {Arr(<<>>), Arr(<<Num(1), Str(1)>>), Num(1)}}
    \cup {Single("$exists", x) : x \in {Bool(TRUE), Bool(FALSE), Num(1)}}
    \cup {Single("a", Single(NoOperator, Num(1))),
          Object([k \in {NoOperator, "$eq"} |-> Num(1)]),
          Object([k \in {NoOperator, "a"} |-> Num(1)])}
    \cup {Object([k \in {"$gte", "$lt"} |-> IF k = "$lt" THEN Num(2) ELSE Num(1)]),
          Object([k \in {"$gte", "a"} |-> Num(1)]),
          Single("a", Single("$gt", Num(0)))}

FieldConditions ==
  {Single("zone", x) : x \in Patterns}
    \cup {Single(key, x) : key \in {"payload.zone", "zone.a", ""},
                           x \in {Num(1), Single("$ne", Num(1))}}
    \cup {Single(NoOperator, Num(1))}
    \cup {Single("payload", Single("zone", x)) : x \in {Num(1), Single("$gt", Num(1))}}
    \cup {Object([zone |-> Num(2), payload |-> EmptyObject])}

\* What combinators are applied to, also conditions that are no objects.
Parts ==
  {Single("zone", Num(1)), Single("zone", Single("$exists", Bool(FALSE))),
   Single("payload.zone", Single("$lt", Num(2))), EmptyObject,
   Single("$not", Single("zone", Num(2))), Single("$any", Arr(<<>>)),
   Num(1), Null, Arr(<<>>), Arr(<<Num(1)>>)}

Combinations ==
  {Single(op, Arr(s)) : op \in {"$all", "$any"}, s \in Parts \X Parts}
    \cup {Single(op, Arr(<<>>)) : op \in {"$all", "$any"}}
    \cup {Single("$not", c) : c \in Parts}
    \cup {Single("$all", Num(1)), Single("$any", EmptyObject),
          Object([k \in {"$any", "zone"} |->
                    IF k = "zone" THEN Num(1) ELSE Arr(<<EmptyObject>>)])}

RuleJson(c, enabled) ==
  [id |-> Str(1), event_type |-> Str(1), condition |-> c, enabled |-> enabled,
   alarm |-> Single("severity", Str(1)), description |-> Missing, priority |-> Missing]

\* Entries with nothing to ask of an event, which the loader may refuse.
OddRules ==
  {RuleJson(EmptyObject, e) : e \in {Bool(TRUE), Bool(FALSE), Num(1)}}
    \cup {RuleJson(c, Missing) : c \in {Missing, Num(1), Arr(<<Num(1)>>), Null}}
    \cup {[RuleJson(EmptyObject, Missing) EXCEPT ![key] = Num(1)] :
            key \in {"id", "event_type", "alarm", "description", "priority"}}
    \cup {[RuleJson(EmptyObject, Missing) EXCEPT ![key] = Missing] :
            key \in {"id", "event_type", "alarm"}}

Pairs ==
  ({RuleJson(c, Missing) : c \in FieldConditions} \X ZoneEvents)
    \cup ({RuleJson(c, Missing) : c \in Combinations} \X FewEvents)
    \cup (OddRules \X HeaderEvents)

-----------------------------------------------------------------------------
CONSTANTS t1, t2, t3, p1, p2

Program(publisher0, calls1, calls2, calls3) ==
  [publisher |-> publisher0,
   calls |-> [t \in {t1, t2, t3} |->
                IF t = t1 THEN calls1 ELSE IF t = t2 THEN calls2 ELSE calls3]]

Matching ==
  {Program(None, <<LoadFile(<<pair[1]>>), Evaluate(pair[2], "none")>>, <<>>, <<>>) :
     pair \in Pairs}

\* Two rules that match every event of type 1, and two files that replace them:
\* one in the other order with a rule that does not match, one that cannot be read.
Rule(id, c) == [RuleJson(c, Missing) EXCEPT !.id = Str(id)]

Event == Object([event_type |-> Str(1), device_id |-> Str(1), zone |-> Num(1)])

OldFile == <<Rule(1, EmptyObject), Rule(2, Single("zone", Num(1)))>>
NewFile == <<Rule(3, Single("zone", Num(2))), Rule(2, EmptyObject), Rule(1, EmptyObject)>>
BadFile == <<Rule(1, EmptyObject), [Rule(2, EmptyObject) EXCEPT !.id = Num(1)]>>

Concurrent ==
  {Program(p1, <<LoadFile(OldFile), Evaluate(Event, one), Evaluate(Event, "none")>>,
               <<load, Evaluate(Event, two)>>,
               <<SetTo(replacement)>>) :
     one \in {"none", "returns", "throws", "calls"}, two \in {"none", "throws"},
     load \in {LoadFile(NewFile), LoadFile(BadFile)}, replacement \in {p2, None}}

MCEvents  == {pair[2] : pair \in Pairs} \cup {Event}
MCEntries == {pair[1] : pair \in Pairs} \cup UNION {Range(f) : f \in {OldFile, NewFile, BadFile}}

MCThreads    == {t1, t2, t3}
MCPublishers == {p1, p2}
MCPrograms   == Matching \cup Concurrent

-----------------------------------------------------------------------------
\* The rules that are evaluated match exactly the events of which they say so: their
\* condition, read as "Condition Matching" in README.md of the processing service
\* says, holds.  And they throw, and so keep the rules after them from being looked
\* at, only for an event with an unusable device_id or timestamp_ms, or under a
\* condition that is not proper.
RulesMeanWhatTheySay ==
  \A t \in Threads : Evaluated(t) =>
    \A source \in inForce[t] : \A k \in DOMAIN source :
      MeansWhatItSays(call[t].event, source[k])
=============================================================================
